----------------------------- MODULE ThreadsProofs -----------------------------
(***************************************************************************)
(* The kernel's half of the threads, under every behaviour of the library  *)
(* and for any number of contexts, slots and areas: a thread is found by   *)
(* its pid, and the page table allows what the allocation granted.  Then   *)
(* the library, with the scheduler it is checked under: its table, the     *)
(* contexts and the joins agree.                                           *)
(***************************************************************************)
EXTENDS GThread, SchedulerProofs, FiniteSetTheorems

Gone   == {"UNUSED", "EXITING"}
InUse(i) == slots[i].status = "WAITING"

(***************************************************************************)
(* Slots and living threads correspond one to one.  The last conjunct is   *)
(* what makes the search by pid right: a free slot in front of a thread's  *)
(* own does not hold the thread's pid.                                     *)
(***************************************************************************)
OwnSlots ==
  /\ ~ isThread[Swapper] /\ ~ isThread[Main]
  /\ \A i \in Slot : InUse(i) => Alive(slots[i].pid)
  /\ \A i, j \in Slot : InUse(i) /\ InUse(j) /\ slots[i].pid = slots[j].pid => i = j
  /\ \A p \in Pid : Alive(p) => \E i \in Slot : InUse(i) /\ slots[i].pid = p
  /\ \A i, j \in Slot : i < j /\ ~ InUse(i) /\ InUse(j) => slots[i].pid # slots[j].pid

(***************************************************************************)
(* The flags are those due to the context that runs or, while the swapper  *)
(* has the processor, to the one that ran before it.                       *)
(***************************************************************************)
Viewer == IF current = Swapper THEN lastUser ELSE current
FlagsOfViewer ==
  \A a \in Area :
    /\ owner[a] = NoOwner => pte[a] = 0
    /\ owner[a] # NoOwner /\ pte[a] # 0 => pte[a] = Due(owner, a, Viewer)

OwnedHaveFlags == \A a \in Area : owner[a] # NoOwner => prot[a] \in Siblings

ThreadsInv ==
  /\ ThreadsTypeOK /\ OneOnProcessor /\ OwnedHaveFlags
  /\ OwnSlots
  /\ FlagsOfViewer

-------------------------------------------------------------------------------
LEMMA LeastSlot ==
  ASSUME NEW S \in SUBSET Nat, S # {}
  PROVE  Min(S) \in S /\ \A y \in S : Min(S) <= y
<1>1. \E x \in S : \A y \in S : x =< y
  BY LeastOf
<1> QED BY <1>1 DEF Min

\* The search by pid finds the slot in use.
LEMMA SlotOfOwn ==
  ASSUME ThreadsTypeOK, OwnSlots, NEW i \in Slot, InUse(i)
  PROVE  HasSlot(slots[i].pid) /\ SlotOf(slots[i].pid) = i
<1> DEFINE S == SlotsWith(slots[i].pid)
<1>1. i \in S /\ S \in SUBSET Nat
  BY ThreadsAssumption DEF SlotsWith, Slot
<1>2. Min(S) \in S /\ Min(S) <= i
  BY <1>1, LeastSlot
<1>3. Min(S) \in Slot /\ slots[Min(S)].pid = slots[i].pid
  BY <1>2 DEF SlotsWith
<1>4. CASE InUse(Min(S))
  BY <1>1, <1>3, <1>4 DEF OwnSlots, HasSlot, SlotOf
<1>5. CASE ~ InUse(Min(S))
  <2>1. ~ (Min(S) < i)
    BY <1>3, <1>5 DEF OwnSlots
  <2> QED BY <1>1, <1>2, <1>3, <2>1, ThreadsAssumption DEF Slot, HasSlot, SlotOf
<1> QED BY <1>4, <1>5

LEMMA OwnSlotsFound == ThreadsTypeOK /\ OwnSlots => LookupFindsOwnSlot
<1> SUFFICES ASSUME ThreadsTypeOK, OwnSlots PROVE LookupFindsOwnSlot
  OBVIOUS
<1>1. ASSUME NEW p \in Pid, Alive(p) PROVE HasSlot(p) /\ slots[SlotOf(p)].status = "WAITING"
  <2>1. PICK i \in Slot : InUse(i) /\ slots[i].pid = p
    BY <1>1 DEF OwnSlots
  <2> QED BY <2>1, SlotOfOwn DEF InUse
<1>2. ASSUME NEW i \in Slot, slots[i].status = "WAITING"
      PROVE  Alive(slots[i].pid) /\ SlotOf(slots[i].pid) = i
  BY <1>2, SlotOfOwn DEF OwnSlots, InUse
<1> QED BY <1>1, <1>2 DEF LookupFindsOwnSlot

LEMMA FlagsOfViewerDue == FlagsOfViewer => FlagsAreDue
BY DEF FlagsOfViewer, FlagsAreDue, Viewer

\* The slots stay right while no thread comes to life or dies.
LEMMA OwnSlotsKept ==
  ASSUME ThreadsTypeOK, OwnSlots, UNCHANGED <<isThread, slots>>,
         \A p \in Pid : isThread[p] => (state'[p] \in Gone <=> state[p] \in Gone)
  PROVE  OwnSlots'
<1>1. \A p \in Pid : Alive(p)' <=> Alive(p)
  BY DEF Alive, Gone
<1>2. \A i \in Slot : slots[i].pid \in Pid
  BY DEF ThreadsTypeOK
<1>3. isThread' = isThread /\ slots' = slots
  OBVIOUS
<1> QED BY <1>1, <1>2, <1>3 DEF OwnSlots, InUse

\* What is due to a context changes with its slot only.
LEMMA DueKept ==
  ASSUME UNCHANGED <<isThread, prot>>, \A i \in Slot : slots'[i].pid = slots[i].pid,
         NEW a \in Area, NEW p \in Pid
  PROVE  Due(owner, a, p)' = Due(owner', a, p)
<1>1. SlotsWith(p)' = SlotsWith(p)
  BY DEF SlotsWith
<1>2. SlotOf(p)' = SlotOf(p)
  BY <1>1 DEF SlotOf
<1> QED BY <1>2 DEF Due, SiblingFlag

LEMMA DueType ==
  ASSUME NEW ow, NEW a \in Area, NEW p \in Pid, prot[a] \in Siblings
  PROVE  Due(ow, a, p) \in {1, 5, 7}
BY ThreadsAssumption DEF Due, SiblingFlag

\* A switch gives no flags to pages that are not present.
LEMMA SameEntries ==
  \A ow, pt, q : Adjusted(ow, pt, q)
                   = [a \in Area |-> IF ow[a] = NoOwner \/ pt[a] = 0 THEN pt[a] ELSE Due(ow, a, q)]
<1> TAKE ow, pt, q
<1>1. \A a : (IF ow[a] = NoOwner THEN pt[a] ELSE FixPageTable(pt[a], Due(ow, a, q), TRUE))
              = IF ow[a] = NoOwner \/ pt[a] = 0 THEN pt[a] ELSE Due(ow, a, q)
  BY DEF FixPageTable
<1> QED BY <1>1 DEF Adjusted

(***************************************************************************)
(* A switch of contexts, with the owners and the page table ow and pt that *)
(* the step leaves: handle_private_ctxswitch makes the flags those due to  *)
(* the context that comes.                                                 *)
(***************************************************************************)
LEMMA SwitchFlags ==
  ASSUME ThreadsTypeOK, OwnedHaveFlags,
         NEW st, NEW ow \in [Area -> Slot \cup {NoOwner}], NEW pt \in [Area -> {0, 1, 5, 7}], NEW q \in Pid,
         SwitchTo(st, ow, pt, q), current # Swapper \/ q # Swapper,
         owner' = ow, UNCHANGED <<isThread, prot>>, \A i \in Slot : slots'[i].pid = slots[i].pid,
         \A a \in Area : ow[a] \in {owner[a], NoOwner} /\ (ow[a] = NoOwner => pt[a] = 0),
         KeepsFlags(q) => \A a \in Area : ow[a] # NoOwner /\ pt[a] # 0 => pt[a] = Due(ow, a, Viewer)
  PROVE  /\ pte' \in [Area -> {0, 1, 5, 7}] /\ lastUser' \in Pid
         /\ OwnedHaveFlags' /\ FlagsOfViewer'
<1>0. current \in Pid /\ lastUser \in Pid /\ Swapper \in Pid
  BY SchedulerAssumption DEF ThreadsTypeOK, SchedulerTypeOK, Pid, Swapper
<1>1. current' = q /\ lastUser' = IF q = Swapper THEN current ELSE IF current = Swapper THEN Swapper ELSE lastUser
  BY DEF SwitchTo, Schedule
<1>2. OwnedHaveFlags' /\ \A a \in Area : ow[a] # NoOwner => prot[a] \in Siblings
  BY DEF OwnedHaveFlags
<1>3. Viewer' \in Pid /\ Viewer \in Pid
  BY <1>0, <1>1 DEF Viewer
<1>4. \A a \in Area : Due(owner, a, Viewer)' = Due(ow, a, Viewer')
  <2> DEFINE v == Viewer'
  <2>1. \A a \in Area, p \in Pid : Due(owner, a, p)' = Due(ow, a, p)
    BY DueKept
  <2> QED BY <1>3, <2>1
<1>5. CASE KeepsFlags(q)
  <2>1. pte' = pt /\ Viewer' = Viewer
    BY <1>0, <1>1, <1>5 DEF SwitchTo, KeepsFlags, Viewer
  <2> QED BY <1>0, <1>1, <1>2, <1>4, <1>5, <2>1 DEF FlagsOfViewer
<1>6. CASE ~ KeepsFlags(q)
  <2>1. pte' = [a \in Area |-> IF ow[a] = NoOwner \/ pt[a] = 0 THEN pt[a] ELSE Due(ow, a, q)]
    BY <1>6, SameEntries DEF SwitchTo
  <2>2. Viewer' = q
    BY <1>0, <1>1, <1>6 DEF KeepsFlags, Viewer
  <2>3. \A a \in Area : ow[a] # NoOwner => Due(ow, a, q) \in {1, 5, 7}
    BY <1>2, DueType
  <2> QED BY <1>0, <1>1, <1>2, <1>4, <2>1, <2>2, <2>3 DEF FlagsOfViewer
<1> QED BY <1>5, <1>6

-------------------------------------------------------------------------------
(***************************************************************************)
(* The steps, each with the part of the kernel's state it changes.         *)
(***************************************************************************)
LEMMA MainPids ==
  /\ Main \in Pid /\ Main \in User /\ Swapper \in Pid /\ Main # Swapper
  /\ User \subseteq Pid /\ Swapper \notin User
BY ThreadsAssumption, SchedulerAssumption DEF User, Pid, Swapper, Main

LEMMA RunnerIsAwake ==
  ASSUME ThreadsInv, NEW p \in User, Runs(p)
  PROVE  /\ p \in Pid /\ current = p /\ current # Swapper
         /\ state[p] \in {"RUNNING", "READY"}
         /\ \A q \in Pid \ {p} : state[q] # "RUNNING"
BY MainPids DEF ThreadsInv, Runs, OneOnProcessor

\* A switch at which no thread dies and no area is unmapped.
LEMMA PlainSwitch ==
  ASSUME ThreadsInv, NEW st \in [Pid -> ProcessState], NEW p \in Pid,
         SwitchTo(st, owner, pte, PickNext(st, p)), UNCHANGED <<isThread, slots, owner, prot>>,
         \A q \in Pid : st[q] # "RUNNING",
         \A q \in Pid : isThread[q] => (st[q] \in Gone <=> state[q] \in Gone),
         current # Swapper \/ PickNext(st, p) # Swapper,
         ticksToSleep' \in [Pid -> Nat]
  PROVE  ThreadsInv'
<1> DEFINE next == PickNext(st, p)
<1>1. /\ state' \in [Pid -> ProcessState] /\ current' \in Pid /\ OneOnProcessor'
      /\ \A q \in Pid : \/ state'[q] = st[q]
                        \/ (st[q] = "READY" \/ q = Swapper) /\ state'[q] = "RUNNING"
  BY SchedulePick DEF SwitchTo
<1>2. next \in Pid
  BY PickNextCorrect
<1>3. OwnSlots'
  <2>1. \A q \in Pid : isThread[q] => (state'[q] \in Gone <=> state[q] \in Gone)
    BY <1>1 DEF Gone, ThreadsInv, OwnSlots
  <2> QED BY <2>1, OwnSlotsKept DEF ThreadsInv
<1>4. /\ owner \in [Area -> Slot \cup {NoOwner}] /\ pte \in [Area -> {0, 1, 5, 7}]
      /\ \A a \in Area : owner[a] = NoOwner => pte[a] = 0
      /\ \A a \in Area : owner[a] # NoOwner /\ pte[a] # 0 => pte[a] = Due(owner, a, Viewer)
      /\ ThreadsTypeOK /\ OwnedHaveFlags
  BY DEF ThreadsInv, ThreadsTypeOK, FlagsOfViewer
<1> HIDE DEF next
<1>5. SwitchTo(st, owner, pte, next) /\ (current # Swapper \/ next # Swapper)
  BY DEF next
<1>6. pte' \in [Area -> {0, 1, 5, 7}] /\ lastUser' \in Pid /\ OwnedHaveFlags' /\ FlagsOfViewer'
  BY <1>2, <1>4, <1>5, SwitchFlags
<1>7. ThreadsTypeOK'
  BY <1>1, <1>4, <1>6 DEF ThreadsTypeOK, SchedulerTypeOK
<1> QED BY <1>1, <1>3, <1>6, <1>7 DEF ThreadsInv

LEMMA TickSafe == ASSUME ThreadsInv, ThreadTick PROVE ThreadsInv'
<1> DEFINE next == PickNext(AfterTick, current)
<1>1. ThreadsTypeOK /\ SchedulerTypeOK /\ OneOnProcessor /\ current \in Pid
  BY DEF ThreadsInv, ThreadsTypeOK, SchedulerTypeOK
<1>2. ticksToSleep' \in [Pid -> Nat]
  BY <1>1, AccountType DEF ThreadTick
<1>3. /\ AfterTick \in [Pid -> ProcessState]
      /\ \A q \in Pid : AfterTick[q] # "RUNNING"
      /\ \A q \in Pid : AfterTick[q] \in Gone <=> state[q] \in Gone
  <2>1. \A q \in Pid : Woken(q) \/ q = current => state[q] \notin Gone
    BY <1>1 DEF Woken, Sleeping, OneOnProcessor, Gone
  <2> QED BY <1>1, <2>1, AfterTickType DEF Gone
<1>4. CASE next = current
  <2>1. /\ state' = AfterTick /\ current' = current /\ pte' = pte /\ lastUser' = lastUser
        /\ UNCHANGED isThread /\ UNCHANGED slots /\ UNCHANGED owner /\ UNCHANGED prot
    BY <1>4 DEF ThreadTick
  <2>2. OwnSlots'
    BY <1>1, <1>3, <2>1, OwnSlotsKept DEF ThreadsInv
  <2>3. OneOnProcessor'
    BY <1>1, <1>3, <2>1, AfterTickType DEF OneOnProcessor
  <2>4. FlagsOfViewer'
    BY <2>1 DEF ThreadsInv, FlagsOfViewer, Viewer, Due, SiblingFlag, SlotOf, SlotsWith
  <2> QED BY <1>1, <1>2, <1>3, <2>1, <2>2, <2>3, <2>4 DEF ThreadsInv, ThreadsTypeOK, SchedulerTypeOK, OwnedHaveFlags
<1>5. CASE next # current
  <2>1. SwitchTo(AfterTick, owner, pte, next)
    BY <1>5 DEF ThreadTick
  <2>2. UNCHANGED <<isThread, slots, owner, prot>>
    BY DEF ThreadTick
  <2> QED BY <1>1, <1>2, <1>3, <1>5, <2>1, <2>2, PlainSwitch
<1> QED BY <1>4, <1>5

LEMMA SleepSafe ==
  ASSUME ThreadsInv, NEW p \in User, NEW ticks \in Nat, ThreadSleeps(p, ticks)
  PROVE  ThreadsInv'
<1> DEFINE st == [state EXCEPT ![p] = "WAITING"]
<1>1. /\ p \in Pid /\ current = p /\ current # Swapper /\ state[p] \in {"RUNNING", "READY"}
      /\ \A q \in Pid \ {p} : state[q] # "RUNNING"
  BY RunnerIsAwake DEF ThreadSleeps
<1>2. state \in [Pid -> ProcessState] /\ ticksToSleep \in [Pid -> Nat]
  BY DEF ThreadsInv, ThreadsTypeOK, SchedulerTypeOK
<1>3. /\ st \in [Pid -> ProcessState] /\ \A q \in Pid : st[q] # "RUNNING"
      /\ \A q \in Pid : st[q] \in Gone <=> state[q] \in Gone
  BY <1>1, <1>2 DEF ProcessState, Gone
<1>4. SwitchTo(st, owner, pte, PickNext(st, p)) /\ ticksToSleep' \in [Pid -> Nat]
      /\ UNCHANGED <<isThread, slots, owner, prot>>
  BY <1>2 DEF ThreadSleeps
<1> HIDE DEF st
<1> QED BY <1>1, <1>3, <1>4, PlainSwitch

LEMMA ProcessExitSafe == ASSUME ThreadsInv, ProcessExits PROVE ThreadsInv'
<1> DEFINE st == [state EXCEPT ![Main] = "UNUSED"]
<1>1. /\ Main \in Pid /\ current = Main /\ current # Swapper
      /\ \A q \in Pid \ {Main} : state[q] # "RUNNING"
  BY RunnerIsAwake, MainPids DEF ProcessExits
<1>2. state \in [Pid -> ProcessState] /\ ticksToSleep \in [Pid -> Nat] /\ ~ isThread[Main]
  BY DEF ThreadsInv, ThreadsTypeOK, SchedulerTypeOK, OwnSlots
<1>3. /\ st \in [Pid -> ProcessState] /\ \A q \in Pid : st[q] # "RUNNING"
      /\ \A q \in Pid : isThread[q] => (st[q] \in Gone <=> state[q] \in Gone)
  BY <1>1, <1>2 DEF ProcessState, Gone
<1>4. SwitchTo(st, owner, pte, PickNext(st, Main)) /\ ticksToSleep' = ticksToSleep
      /\ UNCHANGED <<isThread, slots, owner, prot>>
  BY DEF ProcessExits
<1> HIDE DEF st
<1> QED BY <1>1, <1>2, <1>3, <1>4, PlainSwitch

\* do_clone: the new thread takes the first free slot, so that no free slot
\* in front of it can hold its pid.
LEMMA CloneSafe ==
  ASSUME ThreadsInv, NEW p \in User, NEW i \in Slot, Clone(p, i)
  PROVE  ThreadsInv'
<1>1. /\ p \in Pid /\ p # Main /\ p # Swapper /\ current = Main /\ state[p] = "UNUSED"
  <2>1. UnusedContexts \in SUBSET Nat /\ UnusedContexts # {} /\ p = Min(UnusedContexts)
    BY SchedulerAssumption DEF Clone, UnusedContexts, Pid
  <2>2. p \in UnusedContexts
    BY <2>1, LeastSlot
  <2>3. current = Main /\ state[Main] \in {"RUNNING", "READY"}
    BY MainPids, RunnerIsAwake DEF Clone
  <2> QED BY <2>2, <2>3, MainPids DEF UnusedContexts
<1>2. ~ InUse(i) /\ \A k \in Slot : k < i => InUse(k)
  <2>1. UnusedSlots \in SUBSET Nat /\ UnusedSlots # {} /\ i = Min(UnusedSlots)
    BY ThreadsAssumption DEF Clone, UnusedSlots, Slot
  <2>2. i \in UnusedSlots /\ \A k \in UnusedSlots : i <= k
    BY <2>1, LeastSlot
  <2>3. \A k \in Slot : slots[k].status \in {"UNUSED", "WAITING"}
    BY DEF ThreadsInv, ThreadsTypeOK
  <2> QED BY <2>2, <2>3, ThreadsAssumption DEF UnusedSlots, InUse, Slot
<1>3. /\ ThreadsTypeOK /\ SchedulerTypeOK /\ OneOnProcessor /\ OwnSlots /\ FlagsOfViewer
      /\ state \in [Pid -> ProcessState] /\ isThread \in [Pid -> BOOLEAN] /\ ticksToSleep \in [Pid -> Nat]
      /\ slots \in [Slot -> [pid : Pid, status : {"UNUSED", "WAITING"}]]
  BY DEF ThreadsInv, ThreadsTypeOK, SchedulerTypeOK
<1>4. /\ \A q \in Pid : state'[q] = IF q = p THEN "WAITING" ELSE state[q]
      /\ \A q \in Pid : isThread'[q] = IF q = p THEN TRUE ELSE isThread[q]
      /\ \A k \in Slot : slots'[k] = IF k = i THEN [pid |-> p, status |-> "WAITING"] ELSE slots[k]
      /\ state' \in [Pid -> ProcessState] /\ isThread' \in [Pid -> BOOLEAN]
      /\ slots' \in [Slot -> [pid : Pid, status : {"UNUSED", "WAITING"}]]
      /\ ticksToSleep' \in [Pid -> Nat]
      /\ current' = current /\ owner' = owner /\ prot' = prot /\ pte' = pte /\ lastUser' = lastUser
  BY <1>1, <1>3, MainPids DEF Clone, CloneState, ProcessState
<1>5. ThreadsTypeOK'
  BY <1>3, <1>4 DEF ThreadsTypeOK, SchedulerTypeOK
<1>6. OneOnProcessor'
  BY <1>1, <1>3, <1>4 DEF OneOnProcessor
<1>7. OwnSlots'
  <2>1. /\ \A k \in Slot : InUse(k)' <=> (k = i \/ InUse(k))
        /\ \A k \in Slot : slots'[k].pid = IF k = i THEN p ELSE slots[k].pid
        /\ \A q \in Pid : Alive(q)' <=> (q = p \/ Alive(q))
    <3>1. \A k \in Slot : slots'[k] = IF k = i THEN [pid |-> p, status |-> "WAITING"] ELSE slots[k]
      BY <1>4
    <3>2. \A k \in Slot : InUse(k)' <=> (k = i \/ InUse(k))
      BY <3>1 DEF InUse
    <3>3. \A k \in Slot : slots'[k].pid = IF k = i THEN p ELSE slots[k].pid
      BY <3>1
    <3>4. \A q \in Pid : Alive(q)' <=> (q = p \/ Alive(q))
      BY <1>4 DEF Alive
    <3> QED BY <3>2, <3>3, <3>4
  <2>2. \A k \in Slot : InUse(k) => slots[k].pid # p
    BY <1>1, <1>3 DEF OwnSlots, Alive
  <2>3. \A k \in Slot : slots[k].pid \in Pid
    BY <1>3
  <2>4. ~ isThread'[Swapper] /\ ~ isThread'[Main]
    BY <1>1, <1>3, <1>4, MainPids DEF OwnSlots
  <2>5. \A k \in Slot : InUse(k)' => Alive(slots[k].pid)'
    BY <1>1, <1>3, <1>4, <2>1, <2>3 DEF OwnSlots, Alive, InUse
  <2>6. \A j, k \in Slot : InUse(j)' /\ InUse(k)' /\ slots'[j].pid = slots'[k].pid => j = k
    BY <1>3, <2>1, <2>2 DEF OwnSlots
  <2>7. \A q \in Pid : Alive(q)' => \E k \in Slot : InUse(k)' /\ slots'[k].pid = q
    <3>1. ASSUME NEW q \in Pid, Alive(q)' PROVE \E k \in Slot : InUse(k)' /\ slots'[k].pid = q
      <4>1. CASE q = p
        BY <2>1, <4>1
      <4>2. CASE q # p
        <5>1. PICK k \in Slot : InUse(k) /\ slots[k].pid = q
          BY <1>3, <2>1, <3>1, <4>2 DEF OwnSlots
        <5> QED BY <1>2, <2>1, <5>1
      <4> QED BY <4>1, <4>2
    <3> QED BY <3>1
  <2>8. \A j, k \in Slot : j < k /\ ~ InUse(j)' /\ InUse(k)' => slots'[j].pid # slots'[k].pid
    BY <1>2, <1>3, <2>1 DEF OwnSlots
  <2> QED BY <2>4, <2>5, <2>6, <2>7, <2>8 DEF OwnSlots
<1>8. FlagsOfViewer'
  <2>1. Viewer = Main /\ Viewer' = Main
    BY <1>1, <1>4, MainPids DEF Viewer
  <2>2. ~ isThread[Main] /\ ~ isThread'[Main]
    BY <1>1, <1>3, <1>4, MainPids DEF OwnSlots
  <2>3. \A a \in Area : Due(owner, a, Viewer) = 7 /\ Due(owner, a, Viewer)' = 7
    BY <2>1, <2>2 DEF Due
  <2> QED BY <1>3, <1>4, <2>3 DEF FlagsOfViewer
<1>9. OwnedHaveFlags'
  BY <1>4 DEF ThreadsInv, OwnedHaveFlags
<1> QED BY <1>5, <1>6, <1>7, <1>8, <1>9 DEF ThreadsInv

\* Steps that change only the state of contexts that do not run, and of no
\* living thread to dead or back.
LEMMA StateStep ==
  ASSUME ThreadsInv, state' \in [Pid -> ProcessState],
         UNCHANGED <<ticksToSleep, current, threadVars>>,
         state'[current] = state[current],
         \A q \in Pid : state'[q] = "RUNNING" => state[q] = "RUNNING",
         \A q \in Pid : state'[q] \in Gone <=> state[q] \in Gone
  PROVE  ThreadsInv'
<1>1. /\ ticksToSleep' = ticksToSleep /\ current' = current /\ isThread' = isThread /\ slots' = slots
      /\ owner' = owner /\ prot' = prot /\ pte' = pte /\ lastUser' = lastUser
  BY DEF threadVars
<1>2. ThreadsTypeOK'
  BY <1>1 DEF ThreadsInv, ThreadsTypeOK, SchedulerTypeOK
<1>3. OneOnProcessor'
  BY <1>1 DEF ThreadsInv, ThreadsTypeOK, SchedulerTypeOK, OneOnProcessor
<1>4. OwnSlots'
  BY <1>1, OwnSlotsKept DEF ThreadsInv
<1>5. OwnedHaveFlags' /\ FlagsOfViewer'
  BY <1>1 DEF ThreadsInv, OwnedHaveFlags, FlagsOfViewer, Viewer, Due, SiblingFlag, SlotOf, SlotsWith
<1> QED BY <1>2, <1>3, <1>4, <1>5 DEF ThreadsInv

LEMMA ReadySafe == ASSUME ThreadsInv, NEW p, MakeThreadReady(p) PROVE ThreadsInv'
<1>1. /\ current = Main /\ Main \in Pid /\ ~ isThread[Main] /\ state \in [Pid -> ProcessState]
  BY RunnerIsAwake, MainPids DEF MakeThreadReady, ThreadsInv, OwnSlots, ThreadsTypeOK, SchedulerTypeOK
<1>2. UNCHANGED <<ticksToSleep, current, threadVars>>
  BY DEF MakeThreadReady
<1>3. CASE p \in Pid /\ isThread[p] /\ state[p] \notin Gone
  <2>1. state' = [state EXCEPT ![p] = "READY"]
    BY <1>3 DEF MakeThreadReady, Gone
  <2> QED BY <1>1, <1>2, <1>3, <2>1, StateStep DEF ProcessState, Gone
<1>4. CASE ~ (p \in Pid /\ isThread[p] /\ state[p] \notin Gone)
  <2>1. state' = state
    BY <1>1, <1>4 DEF MakeThreadReady, Gone
  <2> QED BY <1>1, <1>2, <2>1, StateStep
<1> QED BY <1>3, <1>4

LEMMA WaitSafe == ASSUME ThreadsInv, NEW p, WaitForThread(p) PROVE ThreadsInv'
<1> DEFINE st == [state EXCEPT ![Main] = "WAITING"]
<1>1. /\ Main \in Pid /\ current = Main /\ current # Swapper /\ state[Main] \in {"RUNNING", "READY"}
      /\ \A q \in Pid \ {Main} : state[q] # "RUNNING"
  BY RunnerIsAwake, MainPids DEF WaitForThread
<1>2. state \in [Pid -> ProcessState] /\ ticksToSleep \in [Pid -> Nat]
  BY DEF ThreadsInv, ThreadsTypeOK, SchedulerTypeOK
<1>3. /\ st \in [Pid -> ProcessState] /\ \A q \in Pid : st[q] # "RUNNING"
      /\ \A q \in Pid : st[q] \in Gone <=> state[q] \in Gone
  BY <1>1, <1>2 DEF ProcessState, Gone
<1>4. UNCHANGED <<ticksToSleep, isThread, slots, owner, prot>>
  BY DEF WaitForThread
<1>5. CASE SwitchTo(st, owner, pte, PickNext(st, Main))
  <2> HIDE DEF st
  <2> QED BY <1>1, <1>2, <1>3, <1>4, <1>5, PlainSwitch
<1>6. CASE state' = Reaped(p) /\ UNCHANGED <<current, pte, lastUser>>
  <2>1. /\ state' \in [Pid -> ProcessState]
        /\ \A q \in Pid : state'[q] = state[q] \/ (state[q] = "EXITING" /\ state'[q] = "UNUSED")
    BY <1>2, <1>6 DEF Reaped, ProcessState
  <2>2. UNCHANGED <<ticksToSleep, current, threadVars>>
    BY <1>4, <1>6 DEF threadVars
  <2> QED BY <1>1, <2>1, <2>2, StateStep DEF Gone
<1> QED BY <1>5, <1>6 DEF WaitForThread

-------------------------------------------------------------------------------
(***************************************************************************)
(* A thread that exits or is killed by a fault: its slot is free but keeps *)
(* its pid, its areas are unmapped, and the process is ready, so the       *)
(* swapper is not the one that runs next.                                  *)
(***************************************************************************)
LEMMA LeaveSafe ==
  ASSUME ThreadsInv, NEW p \in User, ThreadRuns(p), NEW left \in Gone, ThreadLeaves(p, left)
  PROVE  ThreadsInv'
<1> DEFINE i    == SlotOf(p)
           ow   == [a \in Area |-> IF owner[a] = i THEN NoOwner ELSE owner[a]]
           pt   == [a \in Area |-> IF owner[a] = i THEN 0 ELSE pte[a]]
           st   == [state EXCEPT ![p] = left, ![Main] = "READY"]
           next == PickNext(st, p)
<1>1. /\ p \in Pid /\ current = p /\ current # Swapper /\ isThread[p]
      /\ state[p] \in {"RUNNING", "READY"} /\ \A q \in Pid \ {p} : state[q] # "RUNNING"
  BY RunnerIsAwake DEF ThreadRuns
<1>2. /\ ThreadsTypeOK /\ OneOnProcessor /\ OwnedHaveFlags /\ OwnSlots /\ FlagsOfViewer
      /\ state \in [Pid -> ProcessState] /\ ticksToSleep \in [Pid -> Nat]
      /\ slots \in [Slot -> [pid : Pid, status : {"UNUSED", "WAITING"}]]
      /\ owner \in [Area -> Slot \cup {NoOwner}] /\ pte \in [Area -> {0, 1, 5, 7}]
  BY DEF ThreadsInv, ThreadsTypeOK, SchedulerTypeOK
<1>3. p # Main /\ Main \in Pid /\ Main \in User
  BY <1>1, <1>2, MainPids DEF OwnSlots
<1>4. i \in Slot /\ InUse(i) /\ slots[i].pid = p
  <2>1. PICK k \in Slot : InUse(k) /\ slots[k].pid = p
    BY <1>1, <1>2 DEF OwnSlots, Alive
  <2> QED BY <1>2, <2>1, SlotOfOwn
<1>5. /\ \A q \in Pid : st[q] = IF q = Main THEN "READY" ELSE IF q = p THEN left ELSE state[q]
      /\ st \in [Pid -> ProcessState] /\ \A q \in Pid : st[q] # "RUNNING"
  BY <1>1, <1>2, <1>3 DEF ProcessState, Gone
<1>6. next \in User /\ next \in Pid
  <2>1. Main \in ReadyUsers(st)
    BY <1>3, <1>5 DEF ReadyUsers
  <2>2. next \in ReadyUsers(st)
    BY <1>1, <2>1, PickNextCorrect
  <2> QED BY <2>2 DEF ReadyUsers, User
<1>7. /\ slots' = [slots EXCEPT ![i].status = "UNUSED"]
      /\ owner' = ow /\ SwitchTo(st, ow, pt, next)
      /\ ticksToSleep' = ticksToSleep /\ isThread' = isThread /\ prot' = prot
  BY DEF ThreadLeaves, WakesProcess
<1> HIDE DEF i, st, next
<1>8. /\ state' \in [Pid -> ProcessState] /\ current' \in Pid /\ OneOnProcessor'
      /\ \A q \in Pid : \/ state'[q] = st[q]
                        \/ (st[q] = "READY" \/ q = Swapper) /\ state'[q] = "RUNNING"
  <2>1. Schedule(st, PickNext(st, p))
    BY <1>7 DEF SwitchTo, next
  <2> QED BY <1>1, <1>5, <2>1, SchedulePick
<1>9. /\ slots' \in [Slot -> [pid : Pid, status : {"UNUSED", "WAITING"}]]
      /\ \A k \in Slot : slots'[k].pid = slots[k].pid
      /\ \A k \in Slot : InUse(k)' <=> (InUse(k) /\ k # i)
  BY <1>2, <1>4, <1>7 DEF InUse
<1>10. OwnSlots'
  <2>1. \A q \in Pid : Alive(q)' <=> (Alive(q) /\ q # p)
    <3>1. ASSUME NEW q \in Pid, isThread[q] PROVE state'[q] \in Gone <=> (state[q] \in Gone \/ q = p)
      <4>1. q # Main /\ q # Swapper
        BY <1>2, <3>1 DEF OwnSlots
      <4> QED BY <1>5, <1>8, <4>1 DEF Gone
    <3> QED BY <1>7, <3>1 DEF Alive, Gone
  <2>2. \A k \in Slot : slots[k].pid \in Pid
    BY <1>2
  <2>3. ~ isThread'[Swapper] /\ ~ isThread'[Main]
    BY <1>2, <1>7 DEF OwnSlots
  <2>4. \A k \in Slot : InUse(k)' => Alive(slots[k].pid)'
    <3>1. ASSUME NEW k \in Slot, InUse(k)' PROVE Alive(slots[k].pid)'
      <4>1. InUse(k) /\ slots[k].pid # p /\ slots'[k].pid = slots[k].pid
        BY <1>2, <1>4, <1>9, <3>1 DEF OwnSlots
      <4>2. Alive(slots[k].pid) /\ slots[k].pid \in Pid
        BY <1>2, <2>2, <4>1 DEF OwnSlots
      <4> QED BY <1>7, <2>1, <4>1, <4>2 DEF Alive
    <3> QED BY <3>1
  <2>5. \A j, k \in Slot : InUse(j)' /\ InUse(k)' /\ slots'[j].pid = slots'[k].pid => j = k
    BY <1>2, <1>9 DEF OwnSlots
  <2>6. \A q \in Pid : Alive(q)' => \E k \in Slot : InUse(k)' /\ slots'[k].pid = q
    <3>1. ASSUME NEW q \in Pid, Alive(q)' PROVE \E k \in Slot : InUse(k)' /\ slots'[k].pid = q
      <4>1. PICK k \in Slot : InUse(k) /\ slots[k].pid = q
        BY <1>2, <2>1, <3>1 DEF OwnSlots
      <4> QED BY <1>4, <1>9, <2>1, <3>1, <4>1
    <3> QED BY <3>1
  <2>7. \A j, k \in Slot : j < k /\ ~ InUse(j)' /\ InUse(k)' => slots'[j].pid # slots'[k].pid
    BY <1>2, <1>4, <1>9 DEF OwnSlots
  <2> QED BY <2>3, <2>4, <2>5, <2>6, <2>7 DEF OwnSlots
<1>11. /\ ow \in [Area -> Slot \cup {NoOwner}] /\ pt \in [Area -> {0, 1, 5, 7}]
       /\ \A a \in Area : ow[a] \in {owner[a], NoOwner} /\ (ow[a] = NoOwner => pt[a] = 0)
  BY <1>2, <1>4 DEF FlagsOfViewer
<1>12. ~ KeepsFlags(next) /\ next # Swapper
  BY <1>1, <1>6, MainPids DEF KeepsFlags
<1> HIDE DEF ow, pt
<1>13. pte' \in [Area -> {0, 1, 5, 7}] /\ lastUser' \in Pid /\ OwnedHaveFlags' /\ FlagsOfViewer'
  BY <1>2, <1>6, <1>7, <1>9, <1>11, <1>12, SwitchFlags
<1>14. ThreadsTypeOK'
  BY <1>2, <1>7, <1>8, <1>9, <1>11, <1>13 DEF ThreadsTypeOK, SchedulerTypeOK
<1> QED BY <1>8, <1>10, <1>13, <1>14 DEF ThreadsInv

-------------------------------------------------------------------------------
(***************************************************************************)
(* Allocation, freeing and faults change one area a; the context that has  *)
(* the processor sees it as is due.                                        *)
(***************************************************************************)
LEMMA AreaStep ==
  ASSUME ThreadsInv, NEW a \in Area,
         UNCHANGED <<schedVars, isThread, slots, lastUser>>,
         owner' \in [Area -> Slot \cup {NoOwner}], prot' \in [Area -> Siblings \cup {"unset"}],
         pte' \in [Area -> {0, 1, 5, 7}],
         \A b \in Area \ {a} : owner'[b] = owner[b] /\ prot'[b] = prot[b] /\ pte'[b] = pte[b],
         owner'[a] # NoOwner => prot'[a] \in Siblings,
         owner'[a] = NoOwner => pte'[a] = 0,
         owner'[a] # NoOwner /\ pte'[a] # 0 => pte'[a] = Due(owner, a, Viewer)'
  PROVE  ThreadsInv'
<1>1. /\ state' = state /\ ticksToSleep' = ticksToSleep /\ current' = current
      /\ isThread' = isThread /\ slots' = slots /\ lastUser' = lastUser
  BY DEF schedVars
<1>2. ThreadsTypeOK' /\ OneOnProcessor' /\ OwnedHaveFlags'
  BY <1>1 DEF ThreadsInv, ThreadsTypeOK, SchedulerTypeOK, OneOnProcessor, OwnedHaveFlags
<1>3. OwnSlots'
  BY <1>1, OwnSlotsKept DEF ThreadsInv
<1>4. FlagsOfViewer'
  <2>1. \A b \in Area \ {a} : Due(owner, b, Viewer)' = Due(owner, b, Viewer)
    <3>1. Viewer' = Viewer
      BY <1>1 DEF Viewer
    <3>2. SlotsWith(Viewer)' = SlotsWith(Viewer)
      BY <1>1, <3>1 DEF SlotsWith
    <3>3. SlotOf(Viewer)' = SlotOf(Viewer)
      BY <3>2 DEF SlotOf
    <3>4. \A b \in Area \ {a} : SiblingFlag(b)' = SiblingFlag(b) /\ owner'[b] = owner[b]
      BY DEF SiblingFlag
    <3> QED BY <1>1, <3>1, <3>3, <3>4 DEF Due
  <2> QED BY <2>1 DEF ThreadsInv, FlagsOfViewer
<1> QED BY <1>2, <1>3, <1>4 DEF ThreadsInv

LEMMA MapSafe ==
  ASSUME ThreadsInv, NEW p \in User, ThreadRuns(p), NEW a \in Area, NEW flag \in Siblings,
         PrivateMap(p, a, flag), UNCHANGED schedVars
  PROVE  ThreadsInv'
<1>1. p \in Pid /\ Alive(p)
  BY RunnerIsAwake DEF ThreadRuns, Alive
<1>2. SlotOf(p) \in Slot
  <2>1. PICK k \in Slot : InUse(k) /\ slots[k].pid = p
    BY <1>1 DEF ThreadsInv, OwnSlots
  <2> QED BY <2>1, SlotOfOwn DEF ThreadsInv
<1>3. /\ owner \in [Area -> Slot \cup {NoOwner}] /\ prot \in [Area -> Siblings \cup {"unset"}]
      /\ pte \in [Area -> {0, 1, 5, 7}] /\ owner[a] = NoOwner /\ pte[a] = 0
  BY DEF ThreadsInv, ThreadsTypeOK, FlagsOfViewer, PrivateMap
<1>4. /\ owner' = [owner EXCEPT ![a] = SlotOf(p)] /\ prot' = [prot EXCEPT ![a] = flag]
      /\ UNCHANGED <<isThread, slots, lastUser>> /\ pte' = pte
  BY DEF PrivateMap
<1>5. owner'[a] # NoOwner
  BY <1>2, <1>3, <1>4, ThreadsAssumption
<1> QED BY <1>2, <1>3, <1>4, <1>5, AreaStep

LEMMA UnmapSafe ==
  ASSUME ThreadsInv, NEW p, NEW a \in Area, PrivateUnmap(p, a), UNCHANGED schedVars
  PROVE  ThreadsInv'
<1>1. /\ owner \in [Area -> Slot \cup {NoOwner}] /\ prot \in [Area -> Siblings \cup {"unset"}]
      /\ pte \in [Area -> {0, 1, 5, 7}]
  BY DEF ThreadsInv, ThreadsTypeOK
<1>2. /\ owner' = [owner EXCEPT ![a] = NoOwner] /\ pte' = [pte EXCEPT ![a] = 0] /\ prot' = prot
      /\ UNCHANGED <<isThread, slots, lastUser>>
  BY DEF PrivateUnmap, Invalidated
<1> QED BY <1>1, <1>2, AreaStep

\* The page fault: an access by p to an area with an owner, that is allowed.
Fixed(p, a) ==
  /\ Runs(p) /\ owner[a] # NoOwner
  /\ pte' = [pte EXCEPT ![a] = Due(owner, a, p)]
  /\ UNCHANGED <<schedVars, isThread, slots, owner, prot, lastUser>>

LEMMA FixSafe ==
  ASSUME ThreadsInv, NEW p \in User, NEW a \in Area, Fixed(p, a)
  PROVE  ThreadsInv'
<1>1. p \in Pid /\ current = p /\ current # Swapper
  BY RunnerIsAwake DEF Fixed
<1>2. /\ owner \in [Area -> Slot \cup {NoOwner}] /\ prot \in [Area -> Siblings \cup {"unset"}]
      /\ pte \in [Area -> {0, 1, 5, 7}] /\ owner[a] # NoOwner /\ prot[a] \in Siblings
  BY DEF ThreadsInv, ThreadsTypeOK, OwnedHaveFlags, Fixed
<1>3. Due(owner, a, p) \in {1, 5, 7}
  BY <1>1, <1>2, DueType
<1>4. /\ pte' = [pte EXCEPT ![a] = Due(owner, a, p)] /\ owner' = owner /\ prot' = prot
      /\ current' = current /\ isThread' = isThread /\ slots' = slots
      /\ UNCHANGED <<schedVars, isThread, slots, lastUser>>
  BY DEF Fixed, schedVars
<1>5. Due(owner, a, Viewer)' = Due(owner, a, p)
  <2>1. Viewer' = p
    BY <1>1, <1>4 DEF Viewer
  <2>2. SlotsWith(Viewer)' = SlotsWith(p)
    BY <1>4, <2>1 DEF SlotsWith
  <2>3. SlotOf(Viewer)' = SlotOf(p) /\ SiblingFlag(a)' = SiblingFlag(a)
    BY <1>4, <2>2 DEF SlotOf, SiblingFlag
  <2> QED BY <1>4, <2>1, <2>3 DEF Due
<1> QED BY <1>2, <1>3, <1>4, <1>5, AreaStep

-------------------------------------------------------------------------------
(***************************************************************************)
(* Every step of the system is one of these for the kernel, whatever the   *)
(* library does with its own table.                                        *)
(***************************************************************************)
KernelStep ==
  \/ UNCHANGED <<schedVars, threadVars>>
  \/ ThreadTick
  \/ \E p \in User, i \in Slot : Clone(p, i)
  \/ \E p : MakeThreadReady(p)
  \/ \E p : WaitForThread(p)
  \/ \E p \in User, ticks \in Nat : ThreadSleeps(p, ticks)
  \/ ProcessExits
  \/ \E p \in User, left \in Gone : ThreadRuns(p) /\ ThreadLeaves(p, left)
  \/ \E p \in User, a \in Area, flag \in Siblings :
       ThreadRuns(p) /\ PrivateMap(p, a, flag) /\ UNCHANGED schedVars
  \/ \E p \in User, a \in Area : PrivateUnmap(p, a) /\ UNCHANGED schedVars
  \/ \E p \in User, a \in Area : Fixed(p, a)

LEMMA AccessIsKernelStep ==
  ASSUME NEW p \in User, NEW a \in Area, NEW write \in BOOLEAN, Access(p, a, write)
  PROVE  KernelStep
<1>1. CASE Fixed(p, a)
  BY <1>1 DEF KernelStep
<1>2. CASE isThread[p] /\ SegfaultExit(p)
  <2>1. ThreadRuns(p) /\ ThreadLeaves(p, "EXITING")
    BY <1>2 DEF Access, ThreadRuns, SegfaultExit
  <2> QED BY <2>1 DEF KernelStep, Gone
<1>3. Access(p, a, write) =>
        \/ /\ pte' = [pte EXCEPT ![a] = Due(owner, a, p)]
           /\ UNCHANGED <<schedVars, isThread, slots, owner, prot, lastUser>>
        \/ isThread[p] /\ SegfaultExit(p)
  BY DEF Access, FixPageTable
<1> QED BY <1>1, <1>2, <1>3 DEF Access, Fixed, IsPrivate

LEMMA MainIsKernelStep == ASSUME MainStep PROVE KernelStep
<1>1. CASE CreateRegister \/ JoinCheck \/ JoinEnd \/ \E n \in Created : JoinBegin(n)
  <2>1. UNCHANGED <<schedVars, threadVars>>
    BY <1>1 DEF CreateRegister, JoinCheck, JoinEnd, JoinBegin
  <2> QED BY <2>1 DEF KernelStep
<1>2. CASE CreateReady
  BY <1>2 DEF CreateReady, KernelStep
<1>3. CASE JoinWait
  BY <1>3 DEF JoinWait, KernelStep
<1>4. CASE \E ticks \in 1 .. MaxSleep : MainSleeps(ticks)
  <2>1. \E ticks \in Nat : ThreadSleeps(Main, ticks)
    BY <1>4, GThreadAssumption DEF MainSleeps
  <2> QED BY <2>1, MainPids DEF KernelStep
<1>5. CASE MainExits
  BY <1>5 DEF MainExits, KernelStep
<1> QED BY <1>1, <1>2, <1>3, <1>4, <1>5 DEF MainStep

LEMMA ThreadIsKernelStep == ASSUME NEW p \in User, ThreadStep(p) PROVE KernelStep
<1>1. CASE ExitUsed(p) \/ \E value \in Returns(p) : ExitReturns(p, value)
  <2>1. UNCHANGED <<schedVars, threadVars>>
    BY <1>1 DEF ExitUsed, ExitReturns
  <2> QED BY <2>1 DEF KernelStep
<1>2. CASE ExitLeaves(p)
  <2>1. ThreadRuns(p) /\ ThreadLeaves(p, "UNUSED")
    BY <1>2 DEF ExitLeaves, ThreadAt, ThreadExits
  <2> QED BY <2>1 DEF KernelStep, Gone
<1>3. CASE \E a \in Area, flag \in Siblings : GMalloc(p, a, flag)
  <2>1. PICK a \in Area, flag \in Siblings : GMalloc(p, a, flag)
    BY <1>3
  <2>2. ThreadRuns(p) /\ PrivateMap(p, a, flag) /\ UNCHANGED schedVars
    BY <2>1 DEF GMalloc, ThreadAt
  <2> QED BY <2>2 DEF KernelStep
<1>4. CASE \E a \in Area : GFree(p, a)
  <2>1. PICK a \in Area : GFree(p, a)
    BY <1>4
  <2>2. PrivateUnmap(p, a) /\ UNCHANGED schedVars
    BY <2>1 DEF GFree
  <2> QED BY <2>2 DEF KernelStep
<1>5. CASE \E ticks \in 1 .. MaxSleep : Sleeps(p, ticks)
  <2>1. \E ticks \in Nat : ThreadSleeps(p, ticks)
    BY <1>5, GThreadAssumption DEF Sleeps
  <2> QED BY <2>1 DEF KernelStep
<1>6. CASE \E a \in Area, write \in BOOLEAN : Accesses(p, a, write)
  BY <1>6, AccessIsKernelStep DEF Accesses
<1> QED BY <1>1, <1>2, <1>3, <1>4, <1>5, <1>6 DEF ThreadStep

LEMMA NextIsKernelStep == ASSUME [Next]_vars PROVE KernelStep
<1>1. CASE MainStep
  BY <1>1, MainIsKernelStep
<1>2. CASE \E p \in User : ThreadStep(p)
  BY <1>2, ThreadIsKernelStep
<1>3. CASE CreateClone
  BY <1>3 DEF CreateClone, KernelStep
<1>4. CASE \E p \in User : StackFault(p)
  <2>1. PICK p \in User : ThreadRuns(p) /\ ThreadLeaves(p, "EXITING")
    BY <1>4 DEF StackFault, SegfaultExit
  <2> QED BY <2>1 DEF KernelStep, Gone
<1>5. CASE TimerTick
  BY <1>5 DEF TimerTick, KernelStep
<1>6. CASE Stopped \/ UNCHANGED vars
  <2>1. UNCHANGED <<schedVars, threadVars>>
    BY <1>6 DEF Stopped, vars
  <2> QED BY <2>1 DEF KernelStep
<1> QED BY <1>1, <1>2, <1>3, <1>4, <1>5, <1>6 DEF Next, ProgramStep

LEMMA InitSafe == Init => ThreadsInv
<1> SUFFICES ASSUME Init PROVE ThreadsInv
  OBVIOUS
<1>1. /\ state \in [Pid -> ProcessState] /\ ticksToSleep \in [Pid -> Nat] /\ current = Main
      /\ \A p \in Pid : state[p] = IF p = Main THEN "RUNNING" ELSE IF p = Swapper THEN "READY" ELSE "UNUSED"
      /\ isThread \in [Pid -> BOOLEAN] /\ \A p \in Pid : ~ isThread[p]
  BY DEF Init, ThreadsInit, ProcessState
<1>2. /\ slots \in [Slot -> [pid : Pid, status : {"UNUSED", "WAITING"}]]
      /\ \A i \in Slot : slots[i].status = "UNUSED"
  BY MainPids DEF Init, ThreadsInit
<1>3. /\ owner \in [Area -> Slot \cup {NoOwner}] /\ prot \in [Area -> Siblings \cup {"unset"}]
      /\ pte \in [Area -> {0, 1, 5, 7}] /\ lastUser \in Pid
      /\ \A a \in Area : owner[a] = NoOwner /\ pte[a] = 0
  BY MainPids DEF Init, ThreadsInit
<1>4. ThreadsTypeOK /\ OneOnProcessor
  BY <1>1, <1>2, <1>3, MainPids DEF ThreadsTypeOK, SchedulerTypeOK, OneOnProcessor
<1>5. OwnSlots
  <2>1. \A i \in Slot : ~ InUse(i)
    BY <1>2 DEF InUse
  <2> QED BY <1>1, <2>1, MainPids DEF OwnSlots, Alive
<1> QED BY <1>3, <1>4, <1>5 DEF ThreadsInv, OwnedHaveFlags, FlagsOfViewer

LEMMA KernelStepSafe == ASSUME ThreadsInv, KernelStep PROVE ThreadsInv'
<1>1. CASE UNCHANGED <<schedVars, threadVars>>
  <2>1. /\ state' = state /\ UNCHANGED <<ticksToSleep, current, threadVars>>
        /\ state \in [Pid -> ProcessState]
    BY <1>1 DEF schedVars, ThreadsInv, ThreadsTypeOK, SchedulerTypeOK
  <2> QED BY <2>1, StateStep
<1>2. CASE ThreadTick
  BY <1>2, TickSafe
<1>3. CASE \E p \in User, i \in Slot : Clone(p, i)
  BY <1>3, CloneSafe
<1>4. CASE \E p : MakeThreadReady(p)
  BY <1>4, ReadySafe
<1>5. CASE \E p : WaitForThread(p)
  BY <1>5, WaitSafe
<1>6. CASE \E p \in User, ticks \in Nat : ThreadSleeps(p, ticks)
  BY <1>6, SleepSafe
<1>7. CASE ProcessExits
  BY <1>7, ProcessExitSafe
<1>8. CASE \E p \in User, left \in Gone : ThreadRuns(p) /\ ThreadLeaves(p, left)
  BY <1>8, LeaveSafe
<1>9. CASE \E p \in User, a \in Area, flag \in Siblings :
             ThreadRuns(p) /\ PrivateMap(p, a, flag) /\ UNCHANGED schedVars
  BY <1>9, MapSafe
<1>10. CASE \E p \in User, a \in Area : PrivateUnmap(p, a) /\ UNCHANGED schedVars
  BY <1>10, UnmapSafe
<1>11. CASE \E p \in User, a \in Area : Fixed(p, a)
  BY <1>11, FixSafe
<1> QED BY <1>1, <1>2, <1>3, <1>4, <1>5, <1>6, <1>7, <1>8, <1>9, <1>10, <1>11 DEF KernelStep

LEMMA ThreadsSafe == Spec => []ThreadsInv
<1>1. ThreadsInv /\ [Next]_vars => ThreadsInv'
  BY NextIsKernelStep, KernelStepSafe
<1> QED BY <1>1, InitSafe, PTL DEF Spec

-------------------------------------------------------------------------------
(***************************************************************************)
(* Whatever the interleaving of threads, timer and faults, the search by   *)
(* pid finds a living thread's own slot (helper.c:36-47).                  *)
(***************************************************************************)
THEOREM LookupCorrect == Spec => []LookupFindsOwnSlot
<1>1. ThreadsInv => LookupFindsOwnSlot
  BY OwnSlotsFound DEF ThreadsInv
<1> QED BY <1>1, ThreadsSafe, PTL

(***************************************************************************)
(* The page table allows the running context on a private area exactly     *)
(* what the area's allocation granted it (clone_threads.c:229-317).        *)
(***************************************************************************)
THEOREM FlagsCorrect == Spec => []FlagsAreDue
<1>1. ThreadsInv => FlagsAreDue
  BY FlagsOfViewerDue DEF ThreadsInv
<1> QED BY <1>1, ThreadsSafe, PTL

(***************************************************************************)
(* One context at a time has the processor, with threads too               *)
(* (schedule.c:113-122, clone_threads.c:229-252).                          *)
(***************************************************************************)
THEOREM OneThreadRuns == Spec => []OneOnProcessor
<1>1. ThreadsInv => OneOnProcessor
  BY DEF ThreadsInv
<1> QED BY <1>1, ThreadsSafe, PTL

(***************************************************************************)
(* The library is specified for programs that are patient: what holds of   *)
(* all behaviours holds of theirs, and of the fair ones.                   *)
(***************************************************************************)
LEMMA PoliteIsSpec == PoliteSpec => Spec
<1>1. [PoliteNext]_vars => [Next]_vars
  BY DEF PoliteNext, PatientCreate, Next
<1> QED BY <1>1, PTL DEF PoliteSpec, Spec

LEMMA FairIsPolite == FairSpec => PoliteSpec
  BY PTL DEF FairSpec

--------------------------------------------------------------------------------
(***************************************************************************)
(* The entries in use, and the numbers of the threads that they and the    *)
(* contexts are for.  What happened to a thread shows in where its exit    *)
(* is and in the state of its context.                                     *)
(***************************************************************************)
Taken        == {i \in Slot : entry[i].status # "UNUSED"}
Cloning(p)   == main.at = "cloned" /\ main.pid = p
Joining      == main.at \in {"wait", "check", "done"}
WaitIsOver   == main.at = "done" \/ (main.at = "check" /\ main.sig < 0)
Left(p)      == job[p] \in Created /\ joined[job[p]] # Pending /\ exiting[p] # "running"
Past(p)      == state[p] = "UNUSED" \/ exiting[p] # "running"

\* What is known of every number: it has a tid once it is registered, its
\* stack from its creation until it is joined.
NumbersInv ==
  /\ \A n \in Created : tidOf[n] = Invalid <=> (n > created \/ (main.at = "cloned" /\ n = created))
  /\ \A n \in Created : tidOf[n] = Invalid => result[n] = Pending /\ joined[n] = Pending
  /\ \A n \in Created : n \in stacks <=> (n <= created /\ joined[n] = Pending)
  /\ JoinReturnsResult

\* The entries in use are those of the threads that can be joined, each in
\* the entry that its tid names and with a context of its own.
EntriesInv ==
  /\ \A i \in Taken :
       /\ entry[i].tid = i /\ entry[i].thread \in Joinable /\ tidOf[entry[i].thread] = i
       /\ entry[i].pid \in User \ {Main} /\ isThread[entry[i].pid] /\ job[entry[i].pid] = entry[i].thread
  /\ \A n \in Joinable : tidOf[n] \in Taken /\ entry[tidOf[n]].thread = n
  /\ \A i \in Slot \ Taken : entry[i].pid \notin User /\ entry[i].areas = {}
  /\ num = Cardinality(Taken)

\* A context that is not free belongs to an entry, or is about to, or its
\* thread was joined before it had exited.
ContextsInv ==
  \A p \in User \ {Main} :
    state[p] # "UNUSED" => isThread[p] /\ (Cloning(p) \/ Left(p) \/ \E i \in Taken : entry[i].pid = p)

\* An entry, the exit and the context of its thread.
Phase(i, p, n) ==
  /\ entry[i].status = "USED" <=> exiting[p] = "used"
  /\ exiting[p] = "used" => state[p] # "EXITING"
  /\ exiting[p] = "returned" => Alive(p)
  /\ entry[i].ret # Pending
  /\ entry[i].ret = IF exiting[p] = "running" THEN Null ELSE result[n]
  /\ exiting[p] = "running" => result[n] = IF Alive(p) THEN Pending ELSE Null
  /\ (exiting[p] = "running" /\ state[p] = "UNUSED") => (WaitIsOver /\ main.thread = n)
PhasesInv == \A i \in Taken : Phase(i, entry[i].pid, entry[i].thread)

\* Where the process is.
StartInv ==
  main.at \in {"cloned", "registered"} =>
    /\ main.pid \in User \ {Main} /\ isThread[main.pid] /\ state[main.pid] = "WAITING"
    /\ ticksToSleep[main.pid] = 0 /\ exiting[main.pid] = "running"
    /\ main.thread = created /\ created \in Created /\ job[main.pid] = created
    /\ joined[created] = Pending
    /\ main.at = "cloned" => num # MaxThreads /\ AreasOf(SlotOf(main.pid)) = {}
JoinInv ==
  /\ Joining => main.thread \in Joinable
  /\ WaitIsOver => Past(entry[tidOf[main.thread]].pid)
ExitedInv ==
  main.at = "exited" => stacks = {} /\ Taken = {} /\ (Overtaken = {} => Halted /\ UnusedSlots = Slot)

LibraryInv ==
  /\ TypeOK /\ NumbersInv /\ EntriesInv /\ ContextsInv /\ PhasesInv
  /\ StartInv /\ JoinInv /\ AreasAgree /\ ExitedInv

-------------------------------------------------------------------------------
LEMMA MinOfOne == ASSUME NEW x \in Nat PROVE Min({x}) = x
<1>1. {x} \in SUBSET Nat /\ {x} # {}
  OBVIOUS
<1>2. Min({x}) \in {x}
  BY <1>1, LeastSlot
<1> QED BY <1>2

LEMMA TakenFinite ==
  IsFiniteSet(Taken) /\ Cardinality(Taken) \in Nat /\ IsFiniteSet(Slot) /\ Cardinality(Slot) = MaxThreads
<1>1. IsFiniteSet(Slot) /\ Cardinality(Slot) = MaxThreads
  <2>1. MaxThreads \in Nat /\ MaxThreads >= 1
    BY ThreadsAssumption
  <2> QED BY <2>1, FS_Interval DEF Slot
<1>2. Taken \subseteq Slot
  BY DEF Taken
<1> QED BY <1>1, <1>2, FS_Subset, FS_CardinalityType

\* Two contexts never have one entry, nor two entries one context.
LEMMA OneEntry ==
  ASSUME LibraryInv, NEW i \in Taken, NEW k \in Slot, entry[k].pid = entry[i].pid
  PROVE  k = i
<1>1. k \in Taken
  BY DEF LibraryInv, EntriesInv
<1> QED BY <1>1 DEF LibraryInv, EntriesInv

\* The search for a tid finds the entry of the thread.
LEMMA EntryFound ==
  ASSUME LibraryInv, NEW n \in Joinable
  PROVE  /\ tidOf[n] \in Taken /\ tidOf[n] \in Slot /\ EntryOf(n) = tidOf[n]
         /\ entry[tidOf[n]].thread = n
<1>1. tidOf[n] \in Taken /\ tidOf[n] \in Slot /\ entry[tidOf[n]].thread = n
  BY DEF LibraryInv, EntriesInv, Taken
<1>2. EntriesWith(tidOf[n]) = {tidOf[n]}
  BY <1>1 DEF LibraryInv, EntriesInv, Taken, EntriesWith
<1>3. tidOf[n] \in Nat
  BY <1>1, ThreadsAssumption DEF Slot
<1> QED BY <1>1, <1>2, <1>3, MinOfOne DEF EntryOf

\* A thread that lives, is registered and was not joined has one entry, of
\* its number.
LEMMA LivingHasEntry ==
  ASSUME LibraryInv, NEW p \in User, p # Main, Alive(p), ~ Cloning(p), p \notin Overtaken
  PROVE  \E i \in Taken : /\ i \in Slot /\ entry[i].pid = p /\ entry[i].thread = job[p]
                          /\ \A k \in Slot : entry[k].pid = p => k = i
                          /\ entry[i].status = "USED" <=> exiting[p] = "used"
                          /\ job[p] \in Joinable
<1>1. state[p] # "UNUSED"
  BY DEF Alive
<1>2. PICK i \in Taken : entry[i].pid = p
  BY <1>1 DEF LibraryInv, ContextsInv, Left, Overtaken, Alive
<1>3. i \in Slot /\ entry[i].thread = job[p] /\ job[p] \in Joinable
  BY <1>2 DEF LibraryInv, EntriesInv, Taken
<1>4. \A k \in Slot : entry[k].pid = p => k = i
  BY <1>2, OneEntry
<1>5. entry[i].status = "USED" <=> exiting[p] = "used"
  BY <1>2 DEF LibraryInv, PhasesInv, Phase
<1> QED BY <1>2, <1>3, <1>4, <1>5

\* The thread that runs is registered.
LEMMA RunnerThread ==
  ASSUME ThreadsInv, LibraryInv, NEW p \in User, ThreadRuns(p)
  PROVE  /\ p # Main /\ p \in Pid /\ Alive(p) /\ ~ Cloning(p) /\ current = p
         /\ main.at \in {"cloned", "registered"} => main.pid # p
<1>1. p # Main /\ p \in Pid /\ Alive(p) /\ current = p /\ state[p] # "WAITING"
  BY RunnerIsAwake DEF ThreadRuns, ThreadsInv, OwnSlots, Alive
<1>2. main.at \in {"cloned", "registered"} => main.pid # p
  BY <1>1 DEF LibraryInv, StartInv
<1> QED BY <1>1, <1>2 DEF Cloning

\* It was overtaken just when its stack is gone.
LEMMA StackUnlessOvertaken ==
  ASSUME ThreadsInv, LibraryInv, NEW p \in User, ThreadRuns(p)
  PROVE  job[p] \in stacks <=> p \notin Overtaken
<1>1. p # Main /\ p \in Pid /\ Alive(p) /\ ~ Cloning(p)
  BY RunnerThread
<1>2. ASSUME job[p] \in stacks PROVE p \notin Overtaken
  BY <1>2 DEF LibraryInv, TypeOK, NumbersInv, Overtaken
<1>3. ASSUME p \notin Overtaken PROVE job[p] \in stacks
  <2>1. job[p] \in Created /\ tidOf[job[p]] # Invalid /\ joined[job[p]] = Pending
    BY <1>1, <1>3, LivingHasEntry DEF Joinable
  <2>2. job[p] <= created
    BY <2>1, GThreadAssumption DEF LibraryInv, NumbersInv, TypeOK, Created
  <2> QED BY <2>1, <2>2 DEF LibraryInv, NumbersInv
<1> QED BY <1>2, <1>3

\* With its stack it finds its entry when it looks for it.
LEMMA RunningThread ==
  ASSUME ThreadsInv, LibraryInv, NEW p \in User, ThreadRuns(p), job[p] \in stacks
  PROVE  /\ p # Main /\ p \in Pid /\ Alive(p) /\ ~ Cloning(p) /\ current = p
         /\ main.at \in {"cloned", "registered"} => main.pid # p
         /\ main.at # "exited"
         /\ job[p] \in Joinable
         /\ \E i \in Taken : /\ i \in Slot /\ entry[i].pid = p /\ entry[i].thread = job[p]
                             /\ \A k \in Slot : entry[k].pid = p => k = i
                             /\ entry[i].status = "USED" <=> exiting[p] = "used"
                             /\ exiting[p] # "used" => EntriesOfThread(p) = {i} /\ OwnEntry(p) = i
<1>1. /\ p # Main /\ p \in Pid /\ Alive(p) /\ ~ Cloning(p) /\ current = p
      /\ main.at \in {"cloned", "registered"} => main.pid # p
  BY RunnerThread
<1>2. p \notin Overtaken
  BY StackUnlessOvertaken
<1>3. main.at # "exited"
  BY DEF LibraryInv, ExitedInv
<1>4. PICK i \in Taken : /\ i \in Slot /\ entry[i].pid = p /\ entry[i].thread = job[p]
                         /\ \A k \in Slot : entry[k].pid = p => k = i
                         /\ entry[i].status = "USED" <=> exiting[p] = "used"
                         /\ job[p] \in Joinable
  BY <1>1, <1>2, LivingHasEntry
<1>5. ASSUME exiting[p] # "used" PROVE EntriesOfThread(p) = {i} /\ OwnEntry(p) = i
  <2>1. entry[i].status = "ALIVE"
    BY <1>4, <1>5 DEF LibraryInv, TypeOK, Entry, Taken
  <2>2. EntriesOfThread(p) = {i}
    BY <1>4, <2>1 DEF EntriesOfThread
  <2>3. i \in Nat
    BY <1>4, ThreadsAssumption DEF Slot
  <2> QED BY <2>2, <2>3, MinOfOne DEF OwnEntry
<1> QED BY <1>1, <1>3, <1>4, <1>5

-------------------------------------------------------------------------------
(***************************************************************************)
(* What keeps each part.  In most steps no thread comes to life or dies.   *)
(***************************************************************************)
SameLives == \A p \in User \ {Main} : state'[p] = state[p] \/ (state[p] \notin Gone /\ state'[p] \notin Gone)

LEMMA NumbersKept ==
  ASSUME LibraryInv, UNCHANGED <<tidOf, created, result, joined, stacks>>,
         main'.at = "cloned" <=> main.at = "cloned"
  PROVE  NumbersInv'
BY DEF LibraryInv, NumbersInv, JoinReturnsResult

LEMMA EntriesKept ==
  ASSUME LibraryInv, UNCHANGED <<entry, num, tidOf, joined, job, isThread>>
  PROVE  EntriesInv'
<1>1. Taken' = Taken /\ Joinable' = Joinable
  BY DEF Taken, Joinable
<1> QED BY <1>1 DEF LibraryInv, EntriesInv

LEMMA ContextsKept ==
  ASSUME LibraryInv, UNCHANGED <<entry, isThread, job, joined, exiting>>, SameLives,
         main.at = "cloned" => main'.at = "cloned" /\ main'.pid = main.pid
  PROVE  ContextsInv'
<1>1. Taken' = Taken
  BY DEF Taken
<1>2. \A p \in User \ {Main} : state'[p] # "UNUSED" => state[p] # "UNUSED"
  BY DEF SameLives, Gone
<1> QED BY <1>1, <1>2 DEF LibraryInv, ContextsInv, Cloning, Left

LEMMA PhasesKept ==
  ASSUME LibraryInv, UNCHANGED <<entry, exiting, result, isThread>>, SameLives,
         WaitIsOver => WaitIsOver' /\ main'.thread = main.thread
  PROVE  PhasesInv'
<1>1. Taken' = Taken
  BY DEF Taken
<1>2. \A p \in User \ {Main} :
        /\ state'[p] = "UNUSED" <=> state[p] = "UNUSED"
        /\ state'[p] = "EXITING" <=> state[p] = "EXITING"
  BY DEF SameLives, Gone
<1>3. ASSUME NEW i \in Taken PROVE Phase(i, entry[i].pid, entry[i].thread)'
  <2>1. Phase(i, entry[i].pid, entry[i].thread) /\ entry[i].pid \in User \ {Main}
    BY DEF LibraryInv, PhasesInv, EntriesInv
  <2>2. Alive(entry[i].pid)' <=> Alive(entry[i].pid)
    BY <1>2, <2>1 DEF Alive
  <2> QED BY <1>2, <2>1, <2>2 DEF Phase
<1> QED BY <1>1, <1>3 DEF PhasesInv

LEMMA LivesKept ==
  ASSUME ThreadsInv, ThreadsInv', UNCHANGED isThread, SameLives
  PROVE  \A p \in Pid : Alive(p)' <=> Alive(p)
<1> SUFFICES ASSUME NEW p \in Pid, isThread[p] PROVE Alive(p)' <=> Alive(p)
  BY DEF Alive
<1>1. p \in User \ {Main}
  BY DEF ThreadsInv, OwnSlots, User
<1> QED BY <1>1 DEF SameLives, Alive, Gone

LEMMA AreasKept ==
  ASSUME LibraryInv, UNCHANGED <<entry, slots, owner>>, \A p \in Pid : Alive(p)' <=> Alive(p)
  PROVE  AreasAgree'
<1>1. \A p \in User : Alive(p)' <=> Alive(p)
  BY MainPids
<1>2. UnusedSlots' = UnusedSlots /\ \A i \in Slot : AreasOf(i)' = AreasOf(i)
  BY DEF UnusedSlots, AreasOf
<1>3. \A p \in User : SlotOf(p)' = SlotOf(p) /\ AreasOf(SlotOf(p))' = AreasOf(SlotOf(p))
  <2>1. \A p \in User : SlotsWith(p)' = SlotsWith(p)
    BY DEF SlotsWith
  <2>2. \A p \in User : SlotOf(p)' = SlotOf(p)
    BY <2>1 DEF SlotOf
  <2> QED BY <2>2 DEF AreasOf
<1>4. ASSUME NEW i \in Slot, entry[i].status = "ALIVE", Alive(entry[i].pid)'
      PROVE  (entry[i].areas = AreasOf(SlotOf(entry[i].pid)))'
  <2>1. entry[i].pid \in User
    BY <1>4 DEF LibraryInv, EntriesInv, Taken
  <2>2. entry[i].areas = AreasOf(SlotOf(entry[i].pid))
    BY <1>1, <1>4, <2>1 DEF LibraryInv, AreasAgree
  <2> QED BY <1>3, <2>1, <2>2
<1>5. \A i \in Slot : (entry[i].status = "UNUSED" => entry[i].areas = {})'
  BY DEF LibraryInv, AreasAgree
<1>6. \A i \in UnusedSlots' : (AreasOf(i) = {})'
  BY <1>2 DEF LibraryInv, AreasAgree, UnusedSlots
<1>7. \A i \in Slot : (entry[i].status = "ALIVE" /\ Alive(entry[i].pid) => entry[i].areas = AreasOf(SlotOf(entry[i].pid)))'
  BY <1>4
<1> QED BY <1>5, <1>6, <1>7 DEF AreasAgree

LEMMA StartKept ==
  ASSUME LibraryInv, UNCHANGED <<main, created, joined, isThread, job, exiting, num, slots, owner>>,
         main.at \in {"cloned", "registered"} =>
           state'[main.pid] = state[main.pid] /\ ticksToSleep'[main.pid] = ticksToSleep[main.pid]
  PROVE  StartInv'
<1>1. AreasOf(SlotOf(main.pid))' = AreasOf(SlotOf(main.pid))
  <2>1. SlotsWith(main.pid)' = SlotsWith(main.pid)
    BY DEF SlotsWith
  <2>2. SlotOf(main.pid)' = SlotOf(main.pid)
    BY <2>1 DEF SlotOf
  <2> QED BY <2>2 DEF AreasOf
<1> QED BY <1>1 DEF LibraryInv, StartInv

LEMMA JoinKept ==
  ASSUME LibraryInv, UNCHANGED <<main, entry, tidOf, joined, exiting>>, SameLives
  PROVE  JoinInv'
<1>1. Joinable' = Joinable
  BY DEF Joinable
<1>2. ASSUME main.thread \in Joinable PROVE entry[tidOf[main.thread]].pid \in User \ {Main}
  BY <1>2 DEF LibraryInv, EntriesInv
<1>3. \A p \in User \ {Main} : Past(p) => Past(p)'
  BY DEF Past, SameLives, Gone
<1>4. SUFFICES ASSUME WaitIsOver PROVE Past(entry[tidOf[main.thread]].pid)'
  BY <1>1 DEF LibraryInv, JoinInv, Joining, WaitIsOver
<1>5. PICK p : p = entry[tidOf[main.thread]].pid
  OBVIOUS
<1>6. p \in User \ {Main} /\ Past(p)
  BY <1>2, <1>4, <1>5 DEF LibraryInv, JoinInv, Joining, WaitIsOver
<1> QED BY <1>3, <1>5, <1>6

\* When the process has exited, the threads it overtook remain.
LEMMA ExitedKept ==
  ASSUME ThreadsInv, LibraryInv, UNCHANGED <<main, stacks, entry, job, joined, exiting, isThread, slots>>, SameLives,
         ~ Halted \/ state' = state
  PROVE  ExitedInv'
<1>1. Taken' = Taken /\ UnusedSlots' = UnusedSlots
  BY DEF Taken, UnusedSlots
<1>2. Overtaken \subseteq Overtaken'
  BY DEF ThreadsInv, OwnSlots, SameLives, Gone, Overtaken
<1>3. CASE state' = state
  <2>1. Halted' <=> Halted
    BY <1>3 DEF Halted
  <2> QED BY <1>1, <1>2, <2>1 DEF LibraryInv, ExitedInv
<1>4. CASE ~ Halted
  BY <1>1, <1>2, <1>4 DEF LibraryInv, ExitedInv
<1> QED BY <1>3, <1>4

(***************************************************************************)
(* A step of the kernel alone: a tick, a sleep, a page fault.              *)
(***************************************************************************)
LEMMA PlainKept ==
  ASSUME ThreadsInv, ThreadsInv', LibraryInv, UNCHANGED <<userVars, isThread, slots, owner>>, SameLives,
         ~ Halted \/ state' = state,
         main.at \in {"cloned", "registered"} =>
           state'[main.pid] = state[main.pid] /\ ticksToSleep'[main.pid] = ticksToSleep[main.pid]
  PROVE  LibraryInv'
<1>1. /\ UNCHANGED <<entry, num, main, exiting, job>> /\ UNCHANGED <<created, tidOf, stacks, result, joined>>
      /\ UNCHANGED isThread
  BY DEF userVars
<1>2. TypeOK'
  BY <1>1 DEF ThreadsInv, LibraryInv, TypeOK
<1>3. NumbersInv' /\ EntriesInv' /\ ContextsInv' /\ PhasesInv'
  <2>1. WaitIsOver' <=> WaitIsOver
    BY <1>1 DEF WaitIsOver
  <2> QED BY <1>1, <2>1, NumbersKept, EntriesKept, ContextsKept, PhasesKept
<1>4. StartInv' /\ JoinInv' /\ AreasAgree'
  BY <1>1, StartKept, JoinKept, LivesKept, AreasKept
<1>5. ExitedInv'
  BY <1>1, ExitedKept
<1> QED BY <1>2, <1>3, <1>4, <1>5 DEF LibraryInv

-------------------------------------------------------------------------------
(***************************************************************************)
(* The steps that change no entry.                                         *)
(***************************************************************************)
\* A switch wakes nobody and ends nobody but the one that it is the turn of.
LEMMA SwitchLives ==
  ASSUME NEW st \in [Pid -> ProcessState], NEW ow, NEW pt, NEW p \in Pid,
         SwitchTo(st, ow, pt, PickNext(st, p)), \A q \in Pid : st[q] # "RUNNING"
  PROVE  \A q \in User : state'[q] = st[q] \/ (st[q] = "READY" /\ state'[q] = "RUNNING")
BY SchedulePick, MainPids DEF SwitchTo

LEMMA TickKept == ASSUME ThreadsInv, ThreadsInv', LibraryInv, TimerTick PROVE LibraryInv'
<1>1. /\ ThreadTick /\ UNCHANGED userVars /\ ~ Halted
      /\ UNCHANGED <<isThread, slots, owner>> /\ Account
  BY DEF TimerTick, ThreadTick
<1>2. SchedulerTypeOK /\ OneOnProcessor /\ current \in Pid
  BY DEF ThreadsInv, ThreadsTypeOK, SchedulerTypeOK
<1>3. \A q \in User : \/ state'[q] = AfterTick[q]
                      \/ (AfterTick[q] = "READY" /\ state'[q] = "RUNNING")
  <2>1. CASE state' = AfterTick
    BY <2>1
  <2>2. CASE SwitchTo(AfterTick, owner, pte, PickNext(AfterTick, current))
    BY <1>2, <2>2, AfterTickType, SwitchLives
  <2> QED BY <1>1, <2>1, <2>2 DEF ThreadTick
<1>4. \A q \in User : \/ AfterTick[q] = state[q]
                      \/ (AfterTick[q] = "READY" /\ state[q] \notin Gone /\ (q = current \/ Woken(q)))
  BY <1>2, AfterTickType, MainPids DEF Woken, Sleeping, OneOnProcessor, Gone
<1>5. SameLives
  BY <1>3, <1>4 DEF SameLives, Gone
<1>6. ASSUME main.at \in {"cloned", "registered"}
      PROVE  state'[main.pid] = state[main.pid] /\ ticksToSleep'[main.pid] = ticksToSleep[main.pid]
  <2>1. main.pid \in User /\ main.pid \in Pid /\ state[main.pid] = "WAITING" /\ ticksToSleep[main.pid] = 0
    BY <1>6, MainPids DEF LibraryInv, StartInv
  <2>2. main.pid # current /\ ~ Woken(main.pid) /\ ~ Sleeping(main.pid)
    BY <1>2, <2>1 DEF OneOnProcessor, Woken, Sleeping
  <2> QED BY <1>1, <1>2, <1>3, <1>4, <2>1, <2>2, AccountType
<1> QED BY <1>1, <1>5, <1>6, PlainKept

LEMMA SleepKept ==
  ASSUME ThreadsInv, ThreadsInv', LibraryInv,
         NEW p \in User, NEW ticks \in Nat, ThreadSleeps(p, ticks), UNCHANGED userVars
  PROVE  LibraryInv'
<1> DEFINE st == [state EXCEPT ![p] = "WAITING"]
<1>1. /\ p \in Pid /\ state[p] \in {"RUNNING", "READY"} /\ Runs(p)
      /\ \A q \in Pid \ {p} : state[q] # "RUNNING"
  BY RunnerIsAwake DEF ThreadSleeps
<1>2. state \in [Pid -> ProcessState] /\ ticksToSleep \in [Pid -> Nat]
  BY DEF ThreadsInv, ThreadsTypeOK, SchedulerTypeOK
<1>3. /\ st \in [Pid -> ProcessState] /\ \A q \in Pid : st[q] # "RUNNING"
      /\ \A q \in User : st[q] = state[q] \/ (q = p /\ st[q] = "WAITING")
  BY <1>1, <1>2, MainPids DEF ProcessState
<1>4. /\ SwitchTo(st, owner, pte, PickNext(st, p)) /\ UNCHANGED <<isThread, slots, owner>>
      /\ ticksToSleep' = [ticksToSleep EXCEPT ![p] = ticks]
  BY DEF ThreadSleeps
<1> HIDE DEF st
<1>5. \A q \in User : state'[q] = st[q] \/ (st[q] = "READY" /\ state'[q] = "RUNNING")
  BY <1>1, <1>3, <1>4, SwitchLives
<1>6. SameLives
  BY <1>1, <1>3, <1>5 DEF SameLives, Gone
<1>7. ASSUME main.at \in {"cloned", "registered"}
      PROVE  state'[main.pid] = state[main.pid] /\ ticksToSleep'[main.pid] = ticksToSleep[main.pid]
  <2>1. main.pid \in User /\ main.pid \in Pid /\ state[main.pid] = "WAITING"
    BY <1>7, MainPids DEF LibraryInv, StartInv
  <2> QED BY <1>1, <1>2, <1>3, <1>4, <1>5, <2>1
<1>8. ~ Halted
  BY <1>1 DEF Halted
<1> QED BY <1>4, <1>6, <1>7, <1>8, PlainKept

LEMMA FixKept ==
  ASSUME ThreadsInv, ThreadsInv', LibraryInv, NEW p \in User, NEW a, Fixed(p, a), UNCHANGED userVars
  PROVE  LibraryInv'
<1>1. /\ UNCHANGED <<isThread, slots, owner>> /\ state' = state /\ ticksToSleep' = ticksToSleep
      /\ current' = current /\ Runs(p)
  BY DEF Fixed, schedVars
<1>2. SameLives
  BY <1>1 DEF SameLives
<1> QED BY <1>1, <1>2, PlainKept

LEMMA ReadyKept ==
  ASSUME ThreadsInv, ThreadsInv', LibraryInv, CreateReady
  PROVE  LibraryInv'
<1>1. /\ main.at = "registered" /\ Runs(Main) /\ MakeThreadReady(main.pid) /\ main' = Idle
      /\ UNCHANGED <<entry, num, exiting, job, created, tidOf, stacks, result, joined>>
  BY DEF CreateReady, MainIs
<1>2. main.pid \in User \ {Main} /\ main.pid \in Pid /\ isThread[main.pid] /\ state[main.pid] = "WAITING"
  BY <1>1, MainPids DEF LibraryInv, StartInv
<1>3. state \in [Pid -> ProcessState]
  BY DEF ThreadsInv, ThreadsTypeOK, SchedulerTypeOK
<1>4. /\ state' = [state EXCEPT ![main.pid] = "READY"]
      /\ UNCHANGED <<isThread, slots, owner>> /\ current' = current
  BY <1>1, <1>2 DEF MakeThreadReady, threadVars
<1>5. SameLives
  BY <1>2, <1>3, <1>4, MainPids DEF SameLives, Gone
<1>6. main'.at = "idle" /\ main' \in MainAt
  BY <1>1, MainPids DEF Idle, MainAt
<1>7. ~ WaitIsOver
  BY <1>1 DEF WaitIsOver
<1>8. TypeOK'
  BY <1>1, <1>6 DEF ThreadsInv, LibraryInv, TypeOK
<1>9. NumbersInv' /\ EntriesInv' /\ ContextsInv' /\ PhasesInv'
  BY <1>1, <1>4, <1>5, <1>6, <1>7, NumbersKept, EntriesKept, ContextsKept, PhasesKept
<1>10. AreasAgree'
  BY <1>1, <1>4, <1>5, LivesKept, AreasKept
<1>11. StartInv' /\ JoinInv' /\ ExitedInv'
  BY <1>6 DEF StartInv, JoinInv, Joining, WaitIsOver, ExitedInv
<1> QED BY <1>8, <1>9, <1>10, <1>11 DEF LibraryInv

-------------------------------------------------------------------------------
(***************************************************************************)
(* gthread_join.  An entry that is USED or has a value is that of a thread *)
(* past the stores of gthread_exit.                                        *)
(***************************************************************************)
LEMMA StoredIsPast ==
  ASSUME LibraryInv, NEW i \in Taken, entry[i].status # "ALIVE" \/ entry[i].ret # Null
  PROVE  Past(entry[i].pid)
<1>1. Phase(i, entry[i].pid, entry[i].thread) /\ i \in Slot
  BY DEF LibraryInv, PhasesInv, Taken
<1>2. entry[i].status \in {"ALIVE", "USED"}
  BY <1>1 DEF LibraryInv, TypeOK, Entry, Taken
<1> QED BY <1>1, <1>2 DEF Phase, Past

LEMMA BeginKept ==
  ASSUME ThreadsInv, ThreadsInv', LibraryInv, NEW n \in Created, JoinBegin(n)
  PROVE  LibraryInv'
<1>1. /\ main.at = "idle" /\ Runs(Main) /\ n \in Joinable
      /\ UNCHANGED <<schedVars, threadVars, entry, num, exiting, job, created, tidOf, stacks, result, joined>>
  BY DEF JoinBegin, MainIs
<1>2. /\ state' = state /\ current' = current
      /\ UNCHANGED <<isThread, slots, owner>> /\ SameLives
  BY <1>1 DEF schedVars, threadVars, SameLives
<1>3. tidOf[n] \in Taken /\ EntryOf(n) = tidOf[n]
  BY <1>1, EntryFound
<1>4. main' = [main EXCEPT !.thread = n, !.at = IF entry[tidOf[n]].status = "ALIVE" THEN "wait" ELSE "done"]
  BY <1>3 DEF JoinBegin
<1>5. /\ main' \in MainAt /\ main'.thread = n /\ main'.at \in {"wait", "done"}
      /\ main'.at = "done" => Past(entry[tidOf[n]].pid)
  BY <1>1, <1>3, <1>4, StoredIsPast DEF LibraryInv, TypeOK, MainAt
<1>6. ~ WaitIsOver
  BY <1>1 DEF WaitIsOver
<1>7. TypeOK'
  BY <1>1, <1>5 DEF ThreadsInv, LibraryInv, TypeOK
<1>8. NumbersInv' /\ EntriesInv' /\ ContextsInv' /\ PhasesInv'
  BY <1>1, <1>2, <1>5, <1>6, NumbersKept, EntriesKept, ContextsKept, PhasesKept
<1>9. AreasAgree'
  BY <1>1, <1>2, LivesKept, AreasKept
<1>10. StartInv' /\ ExitedInv'
  BY <1>5 DEF StartInv, ExitedInv
<1>11. JoinInv'
  <2>1. Joinable' = Joinable
    BY <1>1 DEF Joinable
  <2> QED BY <1>1, <1>2, <1>5, <2>1 DEF JoinInv, WaitIsOver, Past
<1> QED BY <1>7, <1>8, <1>9, <1>10, <1>11 DEF LibraryInv

LEMMA CheckKept ==
  ASSUME ThreadsInv, ThreadsInv', LibraryInv, JoinCheck
  PROVE  LibraryInv'
<1> DEFINE i == tidOf[main.thread]
<1>1. /\ main.at = "check" /\ Runs(Main)
      /\ UNCHANGED <<schedVars, threadVars, entry, num, exiting, job, created, tidOf, stacks, result, joined>>
  BY DEF JoinCheck, MainIs
<1>2. /\ state' = state /\ current' = current
      /\ UNCHANGED <<isThread, slots, owner>> /\ SameLives
  BY <1>1 DEF schedVars, threadVars, SameLives
<1>3. main.thread \in Joinable /\ i \in Taken /\ i \in Slot /\ EntryOf(main.thread) = i
  BY <1>1, EntryFound DEF LibraryInv, JoinInv, Joining
<1>4. main' = [main EXCEPT !.at = IF WaitOver(i) THEN "done" ELSE "wait"]
  BY <1>3 DEF JoinCheck
<1>5. ~ PidReassigned(i)
  BY <1>3, OneEntry DEF PidReassigned
<1>6. WaitOver(i) => Past(entry[i].pid)
  <2>1. CASE entry[i].ret # Null
    BY <1>3, <2>1, StoredIsPast
  <2>2. CASE main.sig < 0
    BY <1>1, <2>2 DEF LibraryInv, JoinInv, WaitIsOver
  <2> QED BY <1>5, <2>1, <2>2 DEF WaitOver
<1>7. /\ main' \in MainAt /\ main'.thread = main.thread /\ main'.at \in {"wait", "done"}
      /\ main'.at = "done" <=> WaitOver(i)
  BY <1>1, <1>4 DEF LibraryInv, TypeOK, MainAt
<1>8. WaitIsOver => WaitIsOver'
  BY <1>1, <1>7 DEF WaitIsOver, WaitOver
<1>9. TypeOK'
  BY <1>1, <1>7 DEF ThreadsInv, LibraryInv, TypeOK
<1>10. NumbersInv' /\ EntriesInv' /\ ContextsInv' /\ PhasesInv'
  BY <1>1, <1>2, <1>7, <1>8, NumbersKept, EntriesKept, ContextsKept, PhasesKept
<1>11. AreasAgree'
  BY <1>1, <1>2, LivesKept, AreasKept
<1>12. StartInv' /\ ExitedInv'
  BY <1>7 DEF StartInv, ExitedInv
<1>13. JoinInv'
  <2>1. Joinable' = Joinable
    BY <1>1 DEF Joinable
  <2> QED BY <1>1, <1>2, <1>3, <1>6, <1>7, <2>1 DEF JoinInv, WaitIsOver, Past
<1> QED BY <1>9, <1>10, <1>11, <1>12, <1>13 DEF LibraryInv

\* The wait: the process sleeps, or it is told that there is nothing to wait
\* for, and a context that a fault left behind is free.
LEMMA WaitKept ==
  ASSUME ThreadsInv, ThreadsInv', LibraryInv, JoinWait
  PROVE  LibraryInv'
<1> DEFINE i == tidOf[main.thread]
           p == entry[i].pid
<1>1. /\ main.at = "wait" /\ Runs(Main)
      /\ UNCHANGED <<entry, num, exiting, job, created, tidOf, stacks, result, joined>>
  BY DEF JoinWait, MainIs
<1>2. /\ main.thread \in Joinable /\ i \in Taken /\ i \in Slot /\ EntryOf(main.thread) = i
      /\ entry[i].thread = main.thread
  BY <1>1, EntryFound DEF LibraryInv, JoinInv, Joining
<1>3. /\ WaitForThread(p) /\ UNCHANGED <<isThread, slots, owner>>
      /\ main' = [main EXCEPT !.at = "check", !.sig = IF Waitable(p) THEN 0 ELSE -1]
  BY <1>2 DEF JoinWait, WaitForThread
<1>4. /\ main' \in MainAt /\ main'.at = "check" /\ main'.thread = main.thread
      /\ (main'.sig < 0) <=> (~ Waitable(p))
  <2>1. main \in MainAt
    BY DEF LibraryInv, TypeOK
  <2>2. CASE Waitable(p)
    <3>1. main' = [main EXCEPT !.at = "check", !.sig = 0]
      BY <1>3, <2>2
    <3>2. main' \in MainAt /\ main'.at = "check" /\ main'.thread = main.thread /\ main'.sig = 0
      BY <2>1, <3>1 DEF MainAt
    <3> HIDE DEF p
    <3> QED BY <2>2, <3>2
  <2>3. CASE ~ Waitable(p)
    <3>1. main' = [main EXCEPT !.at = "check", !.sig = -1]
      BY <1>3, <2>3
    <3>2. main' \in MainAt /\ main'.at = "check" /\ main'.thread = main.thread /\ main'.sig = -1
      BY <2>1, <3>1 DEF MainAt
    <3> HIDE DEF p
    <3> QED BY <2>3, <3>2
  <2> QED BY <2>2, <2>3
<1>5. p \in User \ {Main} /\ p \in Pid /\ isThread[p] /\ Phase(i, p, main.thread)
  BY <1>2, MainPids DEF LibraryInv, EntriesInv, PhasesInv
<1>6. state \in [Pid -> ProcessState] /\ Main \in Pid
  BY MainPids DEF ThreadsInv, ThreadsTypeOK, SchedulerTypeOK
<1>8. \/ SameLives /\ Waitable(p)
      \/ ~ Waitable(p) /\ state'[p] = "UNUSED" /\ \A q \in Pid \ {p} : state'[q] = state[q]
  <2>1. CASE Waitable(p)
    <3> DEFINE st == [state EXCEPT ![Main] = "WAITING"]
    <3>1. SwitchTo(st, owner, pte, PickNext(st, Main))
      BY <1>3, <2>1 DEF WaitForThread
    <3>2. /\ st \in [Pid -> ProcessState] /\ \A q \in Pid : st[q] # "RUNNING"
          /\ \A q \in User \ {Main} : st[q] = state[q]
      BY <1>1, <1>6, MainPids, RunnerIsAwake DEF ProcessState
    <3> HIDE DEF st
    <3>3. \A q \in User : state'[q] = st[q] \/ (st[q] = "READY" /\ state'[q] = "RUNNING")
      BY <1>6, <3>1, <3>2, SwitchLives
    <3> QED BY <2>1, <3>2, <3>3 DEF SameLives, Gone
  <2>2. CASE ~ Waitable(p)
    BY <1>3, <1>5, <1>6, <2>2 DEF WaitForThread, Waitable, Reaped
  <2> QED BY <2>1, <2>2
<1>9. \A q \in Pid : Alive(q)' <=> Alive(q)
  <2>1. CASE SameLives
    BY <1>3, <2>1, LivesKept
  <2>2. CASE ~ Waitable(p) /\ state'[p] = "UNUSED" /\ \A q \in Pid \ {p} : state'[q] = state[q]
    BY <1>3, <2>2 DEF Alive, Waitable
  <2> QED BY <1>8, <2>1, <2>2
<1>10. \A q \in User \ {Main} : /\ state'[q] # "UNUSED" => state[q] # "UNUSED"
                                /\ state'[q] = "EXITING" => state[q] = "EXITING"
                                /\ state'[q] = "UNUSED" => (state[q] = "UNUSED" \/ (q = p /\ ~ Waitable(p)))
  BY <1>8, MainPids DEF SameLives, Gone
<1>11. TypeOK'
  BY <1>1, <1>4 DEF ThreadsInv, LibraryInv, TypeOK
<1>12. NumbersInv' /\ EntriesInv'
  BY <1>1, <1>3, <1>4, NumbersKept, EntriesKept
<1>13. ContextsInv'
  <2>1. Taken' = Taken /\ \A q : ~ Cloning(q)
    BY <1>1 DEF Taken, Cloning
  <2>2. ASSUME NEW q \in User \ {Main}, state'[q] # "UNUSED"
        PROVE  isThread[q] /\ (Left(q) \/ \E k \in Taken : entry[k].pid = q)
    <3>1. state[q] # "UNUSED"
      BY <1>10, <2>2
    <3> QED BY <2>1, <3>1 DEF LibraryInv, ContextsInv
  <2> QED BY <1>1, <1>3, <2>1, <2>2 DEF ContextsInv, Left
<1>14. PhasesInv'
  <2>1. Taken' = Taken /\ ~ WaitIsOver
    BY <1>1 DEF Taken, WaitIsOver
  <2>2. ASSUME NEW k \in Taken PROVE Phase(k, entry[k].pid, entry[k].thread)'
    <3>1. /\ Phase(k, entry[k].pid, entry[k].thread) /\ entry[k].pid \in User \ {Main} /\ entry[k].pid \in Pid
          /\ k \in Slot
      BY MainPids DEF LibraryInv, PhasesInv, EntriesInv, Taken
    <3>2. /\ Alive(entry[k].pid)' <=> Alive(entry[k].pid)
          /\ state'[entry[k].pid] = "EXITING" => state[entry[k].pid] = "EXITING"
      <4> DEFINE q == entry[k].pid
      <4>1. q \in Pid /\ q \in User \ {Main} /\ entry'[k].pid = q
        BY <1>1, <3>1
      <4>2. Alive(q)' <=> Alive(q)
        BY <1>1, <1>9, <4>1
      <4> QED BY <1>10, <4>1, <4>2
    <3>3. ASSUME exiting[entry[k].pid] = "running", state'[entry[k].pid] = "UNUSED"
          PROVE  WaitIsOver' /\ main'.thread = entry[k].thread
      <4>1. state[entry[k].pid] # "UNUSED"
        BY <2>1, <3>1, <3>3 DEF Phase
      <4>2. entry[k].pid = p /\ ~ Waitable(p)
        BY <1>10, <3>1, <3>3, <4>1
      <4>3. k = i
        BY <1>2, <3>1, <4>2, OneEntry
      <4> QED BY <1>2, <1>4, <4>2, <4>3 DEF WaitIsOver
    <3> QED BY <1>1, <1>10, <3>1, <3>2, <3>3 DEF Phase
  <2> QED BY <1>1, <2>1, <2>2 DEF PhasesInv
<1>15. AreasAgree'
  BY <1>1, <1>3, <1>9, AreasKept
<1>16. StartInv' /\ ExitedInv'
  BY <1>4 DEF StartInv, ExitedInv
<1>17. JoinInv'
  <2>1. Joinable' = Joinable
    BY <1>1 DEF Joinable
  <2>2. WaitIsOver' => state'[p] = "UNUSED"
    BY <1>4, <1>8 DEF WaitIsOver
  <2> QED BY <1>1, <1>2, <1>4, <2>1, <2>2 DEF JoinInv, Past
<1> QED BY <1>11, <1>12, <1>13, <1>14, <1>15, <1>16, <1>17 DEF LibraryInv

\* The end: the entry is free and the thread is joined with what it gave to
\* gthread_exit.
LEMMA EndKept ==
  ASSUME ThreadsInv, ThreadsInv', LibraryInv, JoinEnd
  PROVE  LibraryInv'
<1> DEFINE n == main.thread
           i == tidOf[n]
           p == entry[i].pid
<1>1. /\ main.at = "done" /\ Runs(Main) /\ main' = Idle
      /\ UNCHANGED <<schedVars, threadVars, exiting, job, created, tidOf, result>>
  BY DEF JoinEnd, MainIs
<1>2. /\ state' = state /\ current' = current /\ isThread' = isThread /\ UNCHANGED <<slots, owner>>
  BY <1>1 DEF schedVars, threadVars
<1>3. /\ n \in Joinable /\ n \in Created /\ i \in Taken /\ i \in Slot /\ EntryOf(n) = i /\ entry[i].thread = n
  BY <1>1, EntryFound DEF LibraryInv, JoinInv, Joining, Joinable
<1>4. /\ p \in User \ {Main} /\ Past(p) /\ job[p] = n /\ Phase(i, p, n)
  BY <1>1, <1>3 DEF LibraryInv, EntriesInv, PhasesInv, JoinInv, WaitIsOver
<1>5. /\ stacks' = stacks \ {n} /\ num' = num - 1
      /\ entry' = [entry EXCEPT ![i].status = "UNUSED", ![i].pid = Invalid, ![i].tid = Invalid, ![i].areas = {}]
      /\ joined' = [joined EXCEPT ![n] = entry[i].ret]
  BY <1>3 DEF JoinEnd, OneLess, AreasForgot
<1>6. /\ entry \in [Slot -> Entry] /\ joined \in [Created -> Outcome] /\ num \in 0 .. MaxThreads
      /\ stacks \subseteq Created
  BY DEF LibraryInv, TypeOK
<1> HIDE DEF n, i, p
<1>7. /\ entry' \in [Slot -> Entry] /\ \A k \in Slot \ {i} : entry'[k] = entry[k]
      /\ entry'[i].status = "UNUSED" /\ entry'[i].pid = Invalid /\ entry'[i].areas = {}
  <2> DEFINE e == [entry[i] EXCEPT !.status = "UNUSED", !.pid = Invalid, !.tid = Invalid, !.areas = {}]
  <2>1. e \in Entry /\ e.status = "UNUSED" /\ e.pid = Invalid /\ e.areas = {}
    <3>1. entry[i] \in Entry
      BY <1>3, <1>6
    <3> QED BY <3>1 DEF Entry
  <2>2. entry' = [entry EXCEPT ![i] = e]
    BY <1>3, <1>5, <1>6
  <2> HIDE DEF e
  <2> QED BY <1>3, <1>6, <2>1, <2>2
<1>8. Taken' = Taken \ {i} /\ Taken \subseteq Slot
  BY <1>7 DEF Taken
<1>9. entry[i].ret # Pending /\ entry[i].ret = result[n] /\ entry[i].ret \in Outcome
  <2>1. entry[i].ret = result[n]
    BY <1>4 DEF Phase, Past, Alive
  <2> QED BY <1>3, <1>4, <1>6, <2>1 DEF Phase, Entry
<1>10. /\ joined' \in [Created -> Outcome] /\ joined'[n] # Pending /\ joined'[n] = result[n]
       /\ \A m \in Created \ {n} : joined'[m] = joined[m]
  BY <1>3, <1>5, <1>6, <1>9
<1>11. Joinable' = Joinable \ {n}
  BY <1>1, <1>3, <1>10 DEF Joinable
<1>12. num' = Cardinality(Taken') /\ num' \in 0 .. MaxThreads
  <2>1. Cardinality(Taken') = Cardinality(Taken) - 1 /\ Cardinality(Taken') \in Nat
    BY <1>3, <1>8, TakenFinite, FS_RemoveElement, FS_CardinalityType
  <2>2. num = Cardinality(Taken) /\ MaxThreads \in Nat
    BY ThreadsAssumption DEF LibraryInv, EntriesInv
  <2> HIDE DEF Taken
  <2> QED BY <1>5, <1>6, <2>1, <2>2
<1>13. main'.at = "idle" /\ main' \in MainAt
  BY <1>1, MainPids DEF Idle, MainAt
<1>14. TypeOK'
  BY <1>1, <1>5, <1>6, <1>7, <1>10, <1>12, <1>13 DEF ThreadsInv, LibraryInv, TypeOK
<1>15. NumbersInv'
  <2>1. NumbersInv /\ tidOf[n] # Invalid
    BY <1>3 DEF LibraryInv, Joinable
  <2>2. JoinReturnsResult'
    BY <1>1, <1>10, <2>1 DEF NumbersInv, JoinReturnsResult
  <2> QED BY <1>1, <1>3, <1>5, <1>10, <1>13, <2>1, <2>2 DEF NumbersInv
<1>16. EntriesInv'
  <2>1. /\ EntriesInv /\ Invalid \notin User
    BY SchedulerAssumption DEF LibraryInv, User, Pid, Invalid
  <2>2. ASSUME NEW k \in Taken, k # i
        PROVE  /\ entry[k].tid = k /\ entry[k].thread \in Joinable \ {n} /\ tidOf[entry[k].thread] = k
               /\ entry[k].pid \in User \ {Main} /\ isThread[entry[k].pid] /\ job[entry[k].pid] = entry[k].thread
               /\ entry'[k] = entry[k]
    BY <1>3, <1>7, <1>8, <2>1, <2>2 DEF EntriesInv, i
  <2>3. \A k \in Taken' : /\ entry'[k].tid = k /\ entry'[k].thread \in Joinable' /\ tidOf'[entry'[k].thread] = k
                          /\ entry'[k].pid \in User \ {Main} /\ isThread'[entry'[k].pid]
                          /\ job'[entry'[k].pid] = entry'[k].thread
    BY <1>1, <1>2, <1>8, <1>11, <2>2
  <2>4. \A m \in Joinable' : tidOf'[m] \in Taken' /\ entry'[tidOf'[m]].thread = m
    BY <1>1, <1>3, <1>7, <1>8, <1>11, <2>1 DEF EntriesInv
  <2>5. \A k \in Slot \ Taken' : entry'[k].pid \notin User /\ entry'[k].areas = {}
    BY <1>7, <1>8, <2>1 DEF EntriesInv
  <2> QED BY <1>12, <2>3, <2>4, <2>5 DEF EntriesInv
<1>17. ContextsInv'
  <2>1. ASSUME NEW q \in User \ {Main}, state[q] # "UNUSED"
        PROVE  isThread[q] /\ (Left(q)' \/ \E k \in Taken' : entry'[k].pid = q)
    <3>1. isThread[q] /\ (Left(q) \/ \E k \in Taken : entry[k].pid = q)
      BY <1>1, <2>1 DEF LibraryInv, ContextsInv, Cloning
    <3>2. CASE q = p
      BY <1>1, <1>3, <1>4, <1>10, <2>1, <3>1, <3>2 DEF Left, Past
    <3>3. CASE q # p /\ \E k \in Taken : entry[k].pid = q
      BY <1>7, <1>8, <3>1, <3>3 DEF p
    <3>4. CASE Left(q)
      BY <1>1, <1>10, <3>1, <3>4 DEF Left
    <3> QED BY <3>1, <3>2, <3>3, <3>4
  <2> QED BY <1>2, <2>1 DEF ContextsInv
<1>18. PhasesInv'
  <2>1. ASSUME NEW k \in Taken, k # i PROVE Phase(k, entry[k].pid, entry[k].thread)'
    <3>1. /\ Phase(k, entry[k].pid, entry[k].thread) /\ entry'[k] = entry[k] /\ entry[k].thread # n
      BY <1>3, <1>7, <1>8, <2>1 DEF LibraryInv, PhasesInv, EntriesInv, i
    <3>2. ~ (exiting[entry[k].pid] = "running" /\ state[entry[k].pid] = "UNUSED")
      BY <3>1 DEF Phase, n
    <3>3. Alive(entry[k].pid)' <=> Alive(entry[k].pid)
      BY <1>2, <3>1 DEF Alive
    <3> QED BY <1>1, <1>2, <3>1, <3>2, <3>3 DEF Phase
  <2> QED BY <1>8, <2>1 DEF PhasesInv
<1>19. StartInv' /\ JoinInv' /\ ExitedInv'
  BY <1>13 DEF StartInv, JoinInv, Joining, WaitIsOver, ExitedInv
<1>20. AreasAgree'
  <2>1. UnusedSlots' = UnusedSlots /\ \A k : AreasOf(k)' = AreasOf(k)
    BY <1>2 DEF UnusedSlots, AreasOf
  <2>2. \A k \in Slot : (entry[k].status = "UNUSED" => entry[k].areas = {})'
    BY <1>7 DEF LibraryInv, AreasAgree
  <2>3. ASSUME NEW k \in Slot, entry'[k].status = "ALIVE", Alive(entry[k].pid)'
        PROVE  (entry[k].areas = AreasOf(SlotOf(entry[k].pid)))'
    <3>1. entry'[k] = entry[k]
      BY <1>7, <2>3
    <3>2. Alive(entry[k].pid)
      BY <1>2, <2>3, <3>1 DEF Alive
    <3>3. entry[k].areas = AreasOf(SlotOf(entry[k].pid))
      BY <2>3, <3>1, <3>2 DEF LibraryInv, AreasAgree
    <3> QED BY <1>2, <3>1, <3>3 DEF AreasOf, SlotOf, SlotsWith
  <2>4. \A k \in Slot : (entry[k].status = "ALIVE" /\ Alive(entry[k].pid) => entry[k].areas = AreasOf(SlotOf(entry[k].pid)))'
    BY <2>3
  <2>5. \A k \in UnusedSlots' : (AreasOf(k) = {})'
    BY <2>1 DEF LibraryInv, AreasAgree
  <2> QED BY <2>2, <2>4, <2>5 DEF AreasAgree
<1> QED BY <1>14, <1>15, <1>16, <1>17, <1>18, <1>19, <1>20 DEF LibraryInv

\* The process exits when it has joined every thread: then no stack is mapped,
\* and every context and slot in use is that of a thread it overtook.
LEMMA MainExitKept ==
  ASSUME ThreadsInv, ThreadsInv', LibraryInv, MainExits
  PROVE  LibraryInv'
<1> DEFINE st == [state EXCEPT ![Main] = "UNUSED"]
<1>1. /\ main.at = "idle" /\ Runs(Main) /\ created = MaxCreated /\ Joinable = {}
      /\ main' = [main EXCEPT !.at = "exited"]
      /\ UNCHANGED <<entry, num, exiting, job, created, tidOf, stacks, result, joined>>
      /\ SwitchTo(st, owner, pte, PickNext(st, Main)) /\ UNCHANGED <<isThread, slots, owner>>
  BY DEF MainExits, MainIs, ProcessExits
<1>2. Taken = {} /\ \A q \in User \ {Main} : state[q] # "UNUSED" => isThread[q] /\ Left(q)
  <2>1. Taken = {}
    BY <1>1 DEF LibraryInv, EntriesInv
  <2> QED BY <1>1, <2>1 DEF LibraryInv, ContextsInv, Cloning
<1>3. state \in [Pid -> ProcessState]
  BY DEF ThreadsInv, ThreadsTypeOK, SchedulerTypeOK
<1>4. /\ st \in [Pid -> ProcessState] /\ \A q \in Pid : st[q] # "RUNNING"
      /\ st[Main] = "UNUSED" /\ \A q \in User \ {Main} : st[q] = state[q]
  BY <1>1, <1>3, MainPids, RunnerIsAwake DEF ProcessState
<1> HIDE DEF st
<1>5. \A q \in User : state'[q] = st[q] \/ (st[q] = "READY" /\ state'[q] = "RUNNING")
  BY <1>1, <1>4, SwitchLives, MainPids
<1>6. SameLives /\ state'[Main] = "UNUSED"
  BY <1>4, <1>5, MainPids DEF SameLives, Gone
<1>7. main'.at = "exited" /\ main' \in MainAt
  BY <1>1 DEF LibraryInv, TypeOK, MainAt
<1>8. TypeOK'
  BY <1>1, <1>7 DEF ThreadsInv, LibraryInv, TypeOK
<1>9. NumbersInv' /\ EntriesInv'
  BY <1>1, <1>7, NumbersKept, EntriesKept
<1>10. ContextsInv' /\ PhasesInv' /\ Taken' = {}
  <2>1. Taken' = {}
    BY <1>1, <1>2 DEF Taken
  <2>2. ContextsInv'
    BY <1>1, <1>6, ContextsKept
  <2> QED BY <2>1, <2>2 DEF PhasesInv
<1>11. StartInv' /\ JoinInv'
  BY <1>7 DEF StartInv, JoinInv, Joining, WaitIsOver
<1>12. AreasAgree'
  BY <1>1, <1>6, LivesKept, AreasKept
<1>13. ExitedInv'
  <2>1. stacks = {}
    <3>1. \A n \in Created : tidOf[n] # Invalid
      BY <1>1, GThreadAssumption DEF LibraryInv, NumbersInv, Created
    <3> QED BY <1>1, <3>1 DEF LibraryInv, NumbersInv, TypeOK, Joinable
  <2>2. ASSUME Overtaken' = {} PROVE Halted' /\ UnusedSlots' = Slot
    <3>1. ASSUME NEW q \in User \ {Main} PROVE state'[q] = "UNUSED" /\ state[q] = "UNUSED"
      <4>1. SUFFICES ASSUME state'[q] # "UNUSED" \/ state[q] # "UNUSED" PROVE FALSE
        OBVIOUS
      <4>2. state'[q] # "UNUSED" /\ state[q] # "UNUSED"
        BY <1>6, <4>1 DEF SameLives, Gone
      <4>3. isThread[q] /\ Left(q)
        BY <1>2, <4>2
      <4>4. q \in Overtaken'
        BY <1>1, <4>2, <4>3 DEF Overtaken, Left
      <4> QED BY <2>2, <4>4
    <3>2. \A k \in Slot : ~ InUse(k)
      BY <3>1 DEF ThreadsInv, ThreadsTypeOK, OwnSlots, Alive, User
    <3>3. UnusedSlots = Slot
      BY <3>2 DEF ThreadsInv, ThreadsTypeOK, UnusedSlots, InUse
    <3>4. UnusedSlots' = UnusedSlots
      BY <1>1 DEF UnusedSlots
    <3>5. Halted'
      BY <1>6, <3>1 DEF Halted
    <3> QED BY <3>3, <3>4, <3>5
  <2> QED BY <1>1, <1>10, <2>1, <2>2 DEF ExitedInv
<1> QED BY <1>8, <1>9, <1>10, <1>11, <1>12, <1>13 DEF LibraryInv

-------------------------------------------------------------------------------
(***************************************************************************)
(* gthread_create.  The context and the slot that clone takes are those of *)
(* no thread that the library still knows.                                 *)
(***************************************************************************)
LEMMA SlotOfLiving ==
  ASSUME LookupFindsOwnSlot, NEW p \in Pid, Alive(p)
  PROVE  /\ SlotOf(p) \in Slot /\ slots[SlotOf(p)].pid = p /\ slots[SlotOf(p)].status = "WAITING"
         /\ SlotOf(p) \notin UnusedSlots
<1>1. SlotsWith(p) \in SUBSET Nat /\ SlotsWith(p) # {} /\ slots[SlotOf(p)].status = "WAITING"
  BY ThreadsAssumption DEF LookupFindsOwnSlot, HasSlot, SlotsWith, Slot
<1>2. SlotOf(p) \in SlotsWith(p)
  BY <1>1, LeastSlot DEF SlotOf
<1> QED BY <1>1, <1>2 DEF SlotsWith, UnusedSlots

\* A number of threads below the bound leaves an entry.
LEMMA RoomForEntry ==
  ASSUME LibraryInv, num # MaxThreads
  PROVE  Min(UnusedEntries) \in Slot \ Taken
<1>1. num = Cardinality(Taken) /\ Taken \subseteq Slot
  BY DEF LibraryInv, EntriesInv, Taken
<1>2. Taken # Slot
  BY <1>1, TakenFinite
<1>3. UnusedEntries = Slot \ Taken
  BY DEF UnusedEntries, Taken
<1>4. UnusedEntries \subseteq Slot /\ UnusedEntries # {}
  BY <1>1, <1>2, <1>3
<1>5. UnusedEntries \in SUBSET Nat
  BY <1>4, ThreadsAssumption DEF Slot
<1> QED BY <1>3, <1>4, <1>5, LeastSlot

LEMMA CloneKept ==
  ASSUME ThreadsInv, ThreadsInv', LookupFindsOwnSlot, LookupFindsOwnSlot', LibraryInv, PatientCreate
  PROVE  LibraryInv'
<1> DEFINE n == created + 1
<1>1. PICK p \in User, i \in Slot :
        /\ Clone(p, i) /\ job' = [job EXCEPT ![p] = n] /\ exiting' = [exiting EXCEPT ![p] = "running"]
        /\ main' = [at |-> "cloned", thread |-> n, pid |-> p, sig |-> 0]
  BY DEF PatientCreate, CreateClone
<1>2. /\ main.at = "idle" /\ Runs(Main) /\ num # MaxThreads /\ created < MaxCreated /\ created' = n
      /\ stacks' = stacks \cup {n} /\ UNCHANGED <<entry, num, tidOf, result, joined>>
      /\ ticksToSleep[Main] = 0 /\ \A k \in Slot : entry[k].status # "USED"
  BY DEF PatientCreate, CreateClone, MainIs
<1>3. /\ SchedulerTypeOK /\ ThreadsTypeOK /\ OneOnProcessor /\ state \in [Pid -> ProcessState]
      /\ isThread \in [Pid -> BOOLEAN] /\ ticksToSleep \in [Pid -> Nat]
      /\ slots \in [Slot -> [pid : Pid, status : {"UNUSED", "WAITING"}]]
      /\ job \in [Pid -> Created \cup {0}] /\ exiting \in [Pid -> ExitAt] /\ created \in 0 .. MaxCreated
      /\ stacks \subseteq Created
  BY DEF ThreadsInv, ThreadsTypeOK, SchedulerTypeOK, LibraryInv, TypeOK
<1>4. p \in Pid /\ p # Main /\ state[p] = "UNUSED" /\ ~ Alive(p)
  <2>1. UnusedContexts \in SUBSET Nat /\ UnusedContexts # {} /\ p = Min(UnusedContexts)
    BY <1>1, SchedulerAssumption DEF Clone, UnusedContexts, Pid
  <2>2. p \in UnusedContexts
    BY <2>1, LeastSlot
  <2>3. state[Main] # "UNUSED"
    BY <1>2 DEF Runs
  <2> QED BY <2>2, <2>3 DEF UnusedContexts, Alive
<1>5. i \in UnusedSlots
  <2>1. UnusedSlots \in SUBSET Nat /\ UnusedSlots # {} /\ i = Min(UnusedSlots)
    BY <1>1, ThreadsAssumption DEF Clone, UnusedSlots, Slot
  <2> QED BY <2>1, LeastSlot
<1>6. n \in Created /\ n \in 0 .. MaxCreated /\ n > created
  BY <1>2, <1>3, GThreadAssumption DEF Created
<1>7. tidOf[n] = Invalid /\ result[n] = Pending /\ joined[n] = Pending
  BY <1>6 DEF LibraryInv, NumbersInv
<1> HIDE DEF n
<1>8. /\ state' = [state EXCEPT ![p] = "WAITING"] /\ ticksToSleep' = [ticksToSleep EXCEPT ![p] = 0]
      /\ isThread' = [isThread EXCEPT ![p] = TRUE] /\ slots' = [slots EXCEPT ![i] = [pid |-> p, status |-> "WAITING"]]
      /\ current' = current /\ owner' = owner
  BY <1>1, <1>2 DEF Clone, CloneState
<1>9. /\ \A q \in Pid \ {p} : state'[q] = state[q] /\ isThread'[q] = isThread[q] /\ job'[q] = job[q]
                              /\ exiting'[q] = exiting[q] /\ (Alive(q)' <=> Alive(q))
      /\ state'[p] = "WAITING" /\ isThread'[p] /\ job'[p] = n /\ exiting'[p] = "running" /\ ticksToSleep'[p] = 0
      /\ Alive(p)'
  <2>1. \A q \in Pid \ {p} : state'[q] = state[q] /\ isThread'[q] = isThread[q] /\ job'[q] = job[q]
                             /\ exiting'[q] = exiting[q]
    BY <1>1, <1>3, <1>8
  <2>2. \A q \in Pid \ {p} : Alive(q)' <=> Alive(q)
    BY <2>1 DEF Alive
  <2>3. state'[p] = "WAITING" /\ isThread'[p] /\ job'[p] = n /\ exiting'[p] = "running" /\ ticksToSleep'[p] = 0
    BY <1>1, <1>3, <1>4, <1>8
  <2>4. Alive(p)'
    BY <2>3 DEF Alive
  <2> QED BY <2>1, <2>2, <2>3, <2>4
<1>10. main'.at = "cloned" /\ main'.thread = n /\ main'.pid = p /\ main' \in MainAt
  BY <1>1, <1>4, <1>6 DEF MainAt
<1>11. ~ WaitIsOver
  BY <1>2 DEF WaitIsOver
\* No entry knows the context: it would be USED, or the process would wait.
<1>12. \A k \in Taken : entry[k].pid # p
  <2>1. SUFFICES ASSUME NEW k \in Taken, entry[k].pid = p PROVE FALSE
    OBVIOUS
  <2>2. Phase(k, p, entry[k].thread) /\ entry[k].status # "USED"
    BY <1>2, <2>1 DEF LibraryInv, PhasesInv, Taken
  <2>3. exiting[p] = "running"
    BY <1>3, <1>4, <2>2 DEF Phase, ExitAt
  <2> QED BY <1>4, <1>11, <2>2, <2>3 DEF Phase
<1>13. Taken' = Taken /\ Joinable' = Joinable
  BY <1>2 DEF Taken, Joinable
<1>14. TypeOK'
  <2>1. job' \in [Pid -> Created \cup {0}] /\ exiting' \in [Pid -> ExitAt] /\ stacks' \subseteq Created
    BY <1>1, <1>2, <1>3, <1>6 DEF ExitAt
  <2> QED BY <1>2, <1>6, <1>10, <2>1 DEF ThreadsInv, LibraryInv, TypeOK
<1>15. NumbersInv'
  <2>1. NumbersInv /\ created \in Nat /\ Created \subseteq Nat /\ n = created + 1
    BY <1>3 DEF LibraryInv, Created, n
  <2>2. ASSUME NEW m \in Created PROVE (tidOf[m] = Invalid) <=> (m > n \/ m = n)
    <3>1. m \in Nat /\ (m > created <=> (m > n \/ m = n))
      BY <2>1
    <3>2. (tidOf[m] = Invalid) <=> m > created
      BY <1>2, <2>1 DEF NumbersInv
    <3> QED BY <3>1, <3>2
  <2>3. \A m \in Created : m \in stacks' <=> (m <= n /\ joined[m] = Pending)
    BY <1>2, <1>7, <2>1 DEF NumbersInv
  <2>4. JoinReturnsResult'
    BY <1>2, <2>1 DEF NumbersInv, JoinReturnsResult
  <2> QED BY <1>2, <1>10, <2>1, <2>2, <2>3, <2>4 DEF NumbersInv
<1>16. EntriesInv'
  <2>1. EntriesInv /\ \A k \in Taken : entry[k].pid \in Pid \ {p}
    BY <1>12, MainPids DEF LibraryInv, EntriesInv
  <2>2. \A k \in Taken : isThread'[entry[k].pid] = isThread[entry[k].pid] /\ job'[entry[k].pid] = job[entry[k].pid]
    BY <1>9, <2>1
  <2> QED BY <1>2, <1>13, <2>1, <2>2 DEF EntriesInv
<1>17. ContextsInv'
  <2>1. ASSUME NEW q \in User \ {Main}, state'[q] # "UNUSED", q # p
        PROVE  isThread'[q] /\ (Left(q)' \/ \E k \in Taken : entry[k].pid = q)
    <3>1. q \in Pid \ {p} /\ state[q] # "UNUSED" /\ ~ Cloning(q)
      BY <1>2, <1>9, <2>1, MainPids DEF Cloning
    <3>2. isThread'[q] /\ (Left(q) \/ \E k \in Taken : entry[k].pid = q)
      BY <1>9, <3>1 DEF LibraryInv, ContextsInv
    <3>3. Left(q) => Left(q)'
      BY <1>2, <1>9, <3>1 DEF Left
    <3> QED BY <3>2, <3>3
  <2>2. Cloning(p)'
    BY <1>10 DEF Cloning
  <2> QED BY <1>2, <1>9, <1>13, <2>1, <2>2 DEF ContextsInv
<1>18. PhasesInv'
  <2>1. ASSUME NEW k \in Taken PROVE Phase(k, entry[k].pid, entry[k].thread)'
    <3>1. Phase(k, entry[k].pid, entry[k].thread) /\ entry[k].pid \in Pid \ {p}
      BY <1>12, MainPids DEF LibraryInv, PhasesInv, EntriesInv
    <3>2. /\ state'[entry[k].pid] = state[entry[k].pid] /\ exiting'[entry[k].pid] = exiting[entry[k].pid]
          /\ Alive(entry[k].pid)' <=> Alive(entry[k].pid)
      <4> DEFINE q == entry[k].pid
      <4>1. q \in Pid \ {p} /\ entry'[k].pid = q
        BY <1>2, <3>1
      <4>2. Alive(q)' <=> Alive(q)
        BY <1>9, <4>1
      <4> QED BY <1>9, <4>1, <4>2
    <3>3. ~ (exiting[entry[k].pid] = "running" /\ state[entry[k].pid] = "UNUSED")
      BY <1>11, <3>1 DEF Phase
    <3> QED BY <1>2, <3>1, <3>2, <3>3 DEF Phase
  <2> QED BY <1>2, <1>13, <2>1 DEF PhasesInv
<1>20. SlotOf(p)' = i /\ AreasOf(SlotOf(p))' = {}
  <2>1. slots'[i].pid = p /\ slots'[i].status = "WAITING"
    BY <1>3, <1>8
  <2>2. SlotOf(p)' = i
    BY <2>1 DEF LookupFindsOwnSlot
  <2>3. AreasOf(i) = {}
    BY <1>5 DEF LibraryInv, AreasAgree
  <2> QED BY <1>8, <2>2, <2>3 DEF AreasOf
<1>21. StartInv' /\ JoinInv' /\ ExitedInv'
  <2>1. StartInv'
    BY <1>2, <1>4, <1>6, <1>7, <1>9, <1>10, <1>20 DEF StartInv
  <2> QED BY <1>10, <2>1 DEF JoinInv, Joining, WaitIsOver, ExitedInv
<1>22. \A q \in Pid \ {p} : Alive(q) => SlotOf(q)' = SlotOf(q)
  <2>1. SUFFICES ASSUME NEW q \in Pid \ {p}, Alive(q) PROVE SlotOf(q)' = SlotOf(q)
    OBVIOUS
  <2>2. PICK s : s = SlotOf(q)
    OBVIOUS
  <2>3. s \in Slot \ {i} /\ slots[s].pid = q /\ slots[s].status = "WAITING"
    BY <1>5, <2>1, <2>2, SlotOfLiving
  <2>4. slots'[s].pid = q /\ slots'[s].status = "WAITING"
    BY <1>3, <1>8, <2>3
  <2>5. SlotOf(q)' = s
    BY <2>3, <2>4 DEF LookupFindsOwnSlot
  <2> QED BY <2>2, <2>5
<1>23. AreasAgree'
  <2>1. \A k : AreasOf(k)' = AreasOf(k)
    BY <1>8 DEF AreasOf
  <2>2. \A k \in Slot : (entry[k].status = "UNUSED" => entry[k].areas = {})'
    BY <1>2 DEF LibraryInv, AreasAgree
  <2>3. ASSUME NEW k \in Slot, entry[k].status = "ALIVE", Alive(entry[k].pid)'
        PROVE  (entry[k].areas = AreasOf(SlotOf(entry[k].pid)))'
    <3> DEFINE q == entry[k].pid
    <3>1. q \in Pid \ {p} /\ entry'[k].pid = q
      BY <1>2, <1>12, <2>3, MainPids DEF LibraryInv, EntriesInv, Taken
    <3>2. Alive(q)
      BY <1>9, <2>3, <3>1
    <3>3. entry[k].areas = AreasOf(SlotOf(q))
      BY <2>3, <3>2 DEF LibraryInv, AreasAgree
    <3>4. \A r \in Pid \ {p} : r = q => SlotOf(r)' = SlotOf(r)
      BY <1>22, <3>2
    <3>5. SlotOf(entry[k].pid)' = SlotOf(q)
      BY <3>1, <3>4
    <3> QED BY <1>2, <1>8, <3>3, <3>5 DEF AreasOf
  <2>4. \A k \in Slot : (entry[k].status = "ALIVE" /\ Alive(entry[k].pid) => entry[k].areas = AreasOf(SlotOf(entry[k].pid)))'
    BY <1>2, <2>3
  <2>5. UnusedSlots' \subseteq UnusedSlots
    BY <1>3, <1>8 DEF UnusedSlots
  <2>6. \A k \in UnusedSlots' : (AreasOf(k) = {})'
    BY <2>1, <2>5 DEF LibraryInv, AreasAgree
  <2> QED BY <2>2, <2>4, <2>6 DEF AreasAgree
<1> QED BY <1>14, <1>15, <1>16, <1>17, <1>18, <1>21, <1>23 DEF LibraryInv

LEMMA RegisterKept ==
  ASSUME ThreadsInv, ThreadsInv', LibraryInv, CreateRegister
  PROVE  LibraryInv'
<1>0. PICK i, n, p : i = Min(UnusedEntries) /\ n = main.thread /\ p = main.pid
  OBVIOUS
<1> DEFINE e == [tid |-> i, pid |-> p, status |-> "ALIVE", ret |-> Null, areas |-> entry[i].areas, thread |-> n]
<1>1. /\ main.at = "cloned" /\ Runs(Main)
      /\ UNCHANGED <<schedVars, threadVars, exiting, job, created, stacks, result, joined>>
      /\ entry' = [entry EXCEPT ![i] = e] /\ tidOf' = [tidOf EXCEPT ![n] = i] /\ num' = num + 1
      /\ main' = [main EXCEPT !.at = "registered"]
  BY <1>0 DEF CreateRegister, MainIs, ClearRet
<1>2. /\ state' = state /\ current' = current /\ isThread' = isThread /\ ticksToSleep' = ticksToSleep
      /\ UNCHANGED <<slots, owner>>
  BY <1>1 DEF schedVars, threadVars
<1>3. /\ p \in User \ {Main} /\ p \in Pid /\ isThread[p] /\ state[p] = "WAITING" /\ ticksToSleep[p] = 0
      /\ exiting[p] = "running" /\ n = created /\ created \in Created /\ n \in Created /\ job[p] = n
      /\ num # MaxThreads /\ AreasOf(SlotOf(p)) = {}
  BY <1>0, <1>1, MainPids DEF LibraryInv, StartInv
<1>4. i \in Slot \ Taken /\ entry[i].areas = {}
  BY <1>0, <1>3, RoomForEntry DEF LibraryInv, EntriesInv
<1>5. tidOf[n] = Invalid /\ result[n] = Pending /\ joined[n] = Pending /\ n \notin Joinable
  BY <1>1, <1>3 DEF LibraryInv, NumbersInv, Joinable
<1>6. /\ entry \in [Slot -> Entry] /\ tidOf \in [Created -> Slot \cup {Invalid}] /\ num \in 0 .. MaxThreads
      /\ main \in MainAt
  BY DEF LibraryInv, TypeOK
<1>7. /\ main'.at = "registered" /\ main'.thread = n /\ main'.pid = p /\ main' \in MainAt
  BY <1>0, <1>1, <1>6 DEF MainAt
<1>8. e \in Entry /\ e.tid = i /\ e.pid = p /\ e.status = "ALIVE" /\ e.ret = Null /\ e.areas = {} /\ e.thread = n
  <2>1. entry[i].areas \in SUBSET Area
    BY <1>4
  <2> QED BY <1>3, <1>4, <2>1 DEF Entry, Outcome
<1> HIDE DEF e
<1>9. /\ \A k \in Slot : entry'[k] = IF k = i THEN e ELSE entry[k]
      /\ entry' \in [Slot -> Entry]
      /\ \A m \in Created : tidOf'[m] = IF m = n THEN i ELSE tidOf[m]
      /\ tidOf' \in [Created -> Slot \cup {Invalid}]
  BY <1>1, <1>3, <1>4, <1>6, <1>8
<1>10. Taken' = Taken \cup {i} /\ Taken \subseteq Slot
  BY <1>4, <1>8, <1>9 DEF Taken
<1>11. Joinable' = Joinable \cup {n}
  <2>1. i # Invalid
    BY <1>4, ThreadsAssumption DEF Slot, Invalid
  <2> QED BY <1>1, <1>3, <1>5, <1>9, <2>1 DEF Joinable
<1>12. num' = Cardinality(Taken') /\ num' \in 0 .. MaxThreads
  <2>1. Cardinality(Taken') = Cardinality(Taken) + 1
    BY <1>4, <1>10, TakenFinite, FS_AddElement
  <2>2. num = Cardinality(Taken) /\ MaxThreads \in Nat
    BY ThreadsAssumption DEF LibraryInv, EntriesInv
  <2> HIDE DEF Taken
  <2> QED BY <1>1, <1>3, <1>6, <2>1, <2>2
<1>13. ~ WaitIsOver
  BY <1>1 DEF WaitIsOver
<1>14. TypeOK'
  BY <1>1, <1>7, <1>9, <1>12 DEF ThreadsInv, LibraryInv, TypeOK
<1>15. NumbersInv'
  <2>1. NumbersInv /\ i # Invalid /\ created \in Nat /\ Created \subseteq Nat
    BY <1>3, <1>4, ThreadsAssumption DEF LibraryInv, Slot, Invalid, Created
  <2>2. ASSUME NEW m \in Created PROVE (tidOf'[m] = Invalid) <=> m > created
    <3>1. CASE m = n
      <4>1. ~ (m > created)
        BY <1>3, <2>1, <3>1
      <4> QED BY <1>9, <2>1, <3>1, <4>1
    <3>2. CASE m # n
      <4>1. (tidOf[m] = Invalid) <=> (m > created \/ m = created)
        BY <1>1, <2>1 DEF NumbersInv
      <4> QED BY <1>3, <1>9, <3>2, <4>1
    <3> QED BY <3>1, <3>2
  <2>3. \A m \in Created : tidOf'[m] = Invalid => tidOf[m] = Invalid
    BY <1>5, <1>9
  <2>4. JoinReturnsResult'
    BY <1>1, <2>1 DEF NumbersInv, JoinReturnsResult
  <2> QED BY <1>1, <1>7, <2>1, <2>2, <2>3, <2>4 DEF NumbersInv
<1>16. EntriesInv'
  <2>1. EntriesInv
    BY DEF LibraryInv
  <2>2. ASSUME NEW k \in Taken
        PROVE  /\ entry'[k].tid = k /\ entry'[k].thread \in Joinable' /\ tidOf'[entry'[k].thread] = k
               /\ entry'[k].pid \in User \ {Main} /\ isThread'[entry'[k].pid]
               /\ job'[entry'[k].pid] = entry'[k].thread
    <3>1. entry'[k] = entry[k] /\ entry[k].thread \in Joinable /\ entry[k].thread \in Created /\ entry[k].thread # n
      BY <1>4, <1>5, <1>9, <1>10, <2>1 DEF EntriesInv, Joinable
    <3> QED BY <1>1, <1>2, <1>9, <1>11, <2>1, <3>1 DEF EntriesInv
  <2>3. /\ entry'[i].tid = i /\ entry'[i].thread \in Joinable' /\ tidOf'[entry'[i].thread] = i
        /\ entry'[i].pid \in User \ {Main} /\ isThread'[entry'[i].pid]
        /\ job'[entry'[i].pid] = entry'[i].thread
    BY <1>1, <1>2, <1>3, <1>4, <1>8, <1>9, <1>11
  <2>4. \A m \in Joinable' : tidOf'[m] \in Taken' /\ entry'[tidOf'[m]].thread = m
    <3>1. ASSUME NEW m \in Joinable PROVE tidOf'[m] \in Taken' /\ entry'[tidOf'[m]].thread = m
      <4>1. m \in Created /\ m # n /\ tidOf[m] \in Taken /\ tidOf[m] # i /\ entry[tidOf[m]].thread = m
        BY <1>4, <1>5, <2>1 DEF EntriesInv, Joinable
      <4> QED BY <1>9, <1>10, <4>1
    <3> QED BY <1>3, <1>4, <1>8, <1>9, <1>10, <1>11, <3>1
  <2>5. \A k \in Slot \ Taken' : entry'[k].pid \notin User /\ entry'[k].areas = {}
    BY <1>9, <1>10, <2>1 DEF EntriesInv
  <2> QED BY <1>10, <1>12, <2>2, <2>3, <2>4, <2>5 DEF EntriesInv
<1>17. ContextsInv'
  <2>1. ASSUME NEW q \in User \ {Main}, state[q] # "UNUSED"
        PROVE  isThread[q] /\ (Left(q)' \/ \E k \in Taken' : entry'[k].pid = q)
    <3>1. isThread[q] /\ (q = p \/ Left(q) \/ \E k \in Taken : entry[k].pid = q)
      BY <1>0, <2>1 DEF LibraryInv, ContextsInv, Cloning
    <3>2. Left(q)' <=> Left(q)
      BY <1>1 DEF Left
    <3> QED BY <1>4, <1>8, <1>9, <1>10, <3>1, <3>2
  <2> QED BY <1>2, <2>1 DEF ContextsInv
<1>18. PhasesInv'
  <2>1. ASSUME NEW k \in Taken PROVE Phase(k, entry[k].pid, entry[k].thread)'
    <3>1. /\ Phase(k, entry[k].pid, entry[k].thread) /\ entry'[k] = entry[k]
      BY <1>4, <1>9, <1>10 DEF LibraryInv, PhasesInv
    <3>2. Alive(entry[k].pid)' <=> Alive(entry[k].pid)
      BY <1>2, <3>1 DEF Alive
    <3> QED BY <1>1, <1>2, <1>13, <3>1, <3>2 DEF Phase
  <2>2. Phase(i, entry[i].pid, entry[i].thread)'
    <3>1. entry'[i] = e /\ Alive(p)'
      BY <1>2, <1>3, <1>4, <1>9 DEF Alive
    <3> HIDE DEF Alive
    <3>2. Alive(entry[i].pid)'
      BY <1>8, <3>1
    <3> QED BY <1>1, <1>2, <1>3, <1>5, <1>8, <3>1, <3>2 DEF Phase, Null, Pending
  <2> QED BY <1>10, <2>1, <2>2 DEF PhasesInv
<1>20. StartInv' /\ JoinInv' /\ ExitedInv'
  BY <1>1, <1>2, <1>3, <1>5, <1>7 DEF StartInv, JoinInv, Joining, WaitIsOver, ExitedInv
<1>21. AreasAgree'
  <2>1. UnusedSlots' = UnusedSlots /\ \A k : AreasOf(k)' = AreasOf(k)
    BY <1>2 DEF UnusedSlots, AreasOf
  <2>2. \A q : SlotOf(q)' = SlotOf(q)
    BY <1>2 DEF SlotOf, SlotsWith
  <2>3. \A k \in Slot : (entry[k].status = "UNUSED" => entry[k].areas = {})'
    BY <1>8, <1>9 DEF LibraryInv, AreasAgree
  <2>4. ASSUME NEW k \in Slot, entry'[k].status = "ALIVE", Alive(entry[k].pid)'
        PROVE  (entry[k].areas = AreasOf(SlotOf(entry[k].pid)))'
    <3>1. CASE k = i
      <4>1. entry'[k].areas = {} /\ entry'[k].pid = p
        BY <1>8, <1>9, <3>1
      <4>2. SlotOf(entry[k].pid)' = SlotOf(p)
        BY <2>2, <4>1
      <4> QED BY <1>2, <1>3, <4>1, <4>2 DEF AreasOf
    <3>2. CASE k # i
      <4>1. entry'[k] = entry[k]
        BY <1>9, <3>2
      <4>2. Alive(entry[k].pid)
        BY <1>2, <2>4, <4>1 DEF Alive
      <4>3. entry[k].areas = AreasOf(SlotOf(entry[k].pid))
        BY <2>4, <4>1, <4>2 DEF LibraryInv, AreasAgree
      <4> QED BY <1>2, <4>1, <4>3 DEF AreasOf, SlotOf, SlotsWith
    <3> QED BY <3>1, <3>2
  <2>5. \A k \in Slot : (entry[k].status = "ALIVE" /\ Alive(entry[k].pid) => entry[k].areas = AreasOf(SlotOf(entry[k].pid)))'
    BY <2>4
  <2>6. \A k \in UnusedSlots' : (AreasOf(k) = {})'
    BY <2>1 DEF LibraryInv, AreasAgree
  <2> QED BY <2>3, <2>5, <2>6 DEF AreasAgree
<1> QED BY <1>14, <1>15, <1>16, <1>17, <1>18, <1>20, <1>21 DEF LibraryInv

-------------------------------------------------------------------------------
(***************************************************************************)
(* A thread that runs writes to its own entry, in gthread_exit, gmalloc    *)
(* and gfree.                                                              *)
(***************************************************************************)
LEMMA EntryStep ==
  ASSUME ThreadsInv, ThreadsInv', LibraryInv, NEW p \in User, ThreadRuns(p), job[p] \in stacks,
         NEW i \in Taken, entry[i].pid = p, NEW e \in Entry, entry' = [entry EXCEPT ![i] = e],
         e.tid = i, e.pid = p, e.thread = entry[i].thread, e.status # "UNUSED",
         UNCHANGED <<num, main, job, created, tidOf, stacks, joined, state, ticksToSleep, current, isThread>>,
         exiting' \in [Pid -> ExitAt], \A q \in Pid \ {p} : exiting'[q] = exiting[q],
         exiting[p] # "running" => exiting'[p] # "running",
         result' \in [Created -> Outcome], \A n \in Created \ {job[p]} : result'[n] = result[n],
         Phase(i, p, job[p])', AreasAgree',
         main.at = "cloned" => AreasOf(SlotOf(main.pid))' = AreasOf(SlotOf(main.pid))
  PROVE  LibraryInv'
<1>1. /\ p # Main /\ p \in Pid /\ current = p /\ job[p] \in Joinable /\ job[p] \in Created
      /\ main.at \in {"cloned", "registered"} => main.pid # p
  BY RunningThread DEF Joinable
<1>2. /\ i \in Slot /\ entry[i].tid = i /\ entry[i].thread = job[p] /\ entry \in [Slot -> Entry] /\ tidOf[job[p]] = i
  BY DEF LibraryInv, EntriesInv, TypeOK, Taken
<1>3. /\ \A k \in Slot \ {i} : entry'[k] = entry[k] /\ entry'[k].pid = entry[k].pid
      /\ entry'[i] = e /\ entry' \in [Slot -> Entry]
  BY <1>2
<1>4. \A k \in Slot : entry'[k].pid = entry[k].pid /\ entry'[k].thread = entry[k].thread
                      /\ (entry'[k].status = "UNUSED" <=> entry[k].status = "UNUSED")
  BY <1>3 DEF Taken
<1>5. Taken' = Taken /\ Joinable' = Joinable /\ Taken \subseteq Slot
  BY <1>4 DEF Taken, Joinable
<1>6. \A q : Alive(q)' <=> Alive(q)
  BY DEF Alive
<1>7. NumbersInv'
  <2>1. NumbersInv /\ tidOf[job[p]] # Invalid /\ joined[job[p]] = Pending
    BY <1>1 DEF LibraryInv, Joinable
  <2>2. \A n \in Created : joined[n] # Pending => joined[n] = result'[n]
    BY <2>1 DEF NumbersInv, JoinReturnsResult
  <2>3. \A n \in Created : tidOf[n] = Invalid => result'[n] = Pending /\ joined[n] = Pending
    BY <2>1 DEF NumbersInv
  <2> QED BY <2>1, <2>2, <2>3 DEF NumbersInv, JoinReturnsResult
<1>8. EntriesInv'
  <2>1. EntriesInv /\ \A k \in Taken : entry'[k].tid = k
    BY <1>3, <1>5 DEF LibraryInv, EntriesInv
  <2>2. \A k \in Slot \ Taken : entry'[k] = entry[k]
    BY <1>3
  <2>3. \A n \in Joinable : tidOf[n] \in Slot
    BY <1>5, <2>1 DEF EntriesInv
  <2> QED BY <1>4, <1>5, <2>1, <2>2, <2>3 DEF EntriesInv
<1>9. ContextsInv'
  <2>1. \A q \in User \ {Main} : Left(q) => Left(q)'
    <3> SUFFICES ASSUME NEW q \in User \ {Main}, Left(q) PROVE Left(q)'
      OBVIOUS
    <3>1. q \in Pid /\ exiting[q] # "running"
      BY DEF Left, User
    <3>2. exiting'[q] # "running"
      BY <3>1
    <3> QED BY <3>2 DEF Left
  <2> QED BY <1>4, <1>5, <2>1 DEF LibraryInv, ContextsInv, Cloning
<1>10. PhasesInv'
  <2>1. ASSUME NEW k \in Taken, k # i PROVE Phase(k, entry[k].pid, entry[k].thread)'
    <3>1. /\ Phase(k, entry[k].pid, entry[k].thread) /\ entry'[k] = entry[k] /\ entry[k].pid \in Pid \ {p}
          /\ entry[k].thread \in Created \ {job[p]}
      BY <1>2, <1>3, <1>5, <2>1, OneEntry, MainPids DEF LibraryInv, PhasesInv, EntriesInv, Joinable
    <3>2. exiting'[entry[k].pid] = exiting[entry[k].pid] /\ result'[entry[k].thread] = result[entry[k].thread]
      BY <3>1
    <3>3. (Alive(entry[k].pid)' <=> Alive(entry[k].pid)) /\ (WaitIsOver' <=> WaitIsOver)
      BY <1>6, <3>1 DEF WaitIsOver
    <3> QED BY <3>1, <3>2, <3>3 DEF Phase
  <2>2. Phase(i, entry[i].pid, entry[i].thread)'
    <3>1. entry'[i].pid = p /\ entry'[i].thread = job'[p]
      BY <1>2, <1>3
    <3> QED BY <3>1
  <2> QED BY <1>5, <2>1, <2>2 DEF PhasesInv
<1>12. StartInv'
  <2>1. main.at \in {"cloned", "registered"} => exiting'[main.pid] = exiting[main.pid]
    BY <1>1, MainPids DEF LibraryInv, StartInv
  <2> QED BY <2>1 DEF LibraryInv, StartInv
<1>13. JoinInv'
  <2>1. \A n \in Joinable : tidOf[n] \in Slot
    BY <1>5 DEF LibraryInv, EntriesInv
  <2>2. WaitIsOver => main.thread \in Joinable
    BY DEF LibraryInv, JoinInv, Joining, WaitIsOver
  <2>3. \A q \in Pid : Past(q) => Past(q)'
    BY <1>1 DEF Past
  <2>4. SUFFICES ASSUME WaitIsOver PROVE Past(entry[tidOf[main.thread]].pid)'
    BY <1>5 DEF LibraryInv, JoinInv, Joining, WaitIsOver
  <2>5. PICK q, k : k = tidOf[main.thread] /\ q = entry[k].pid
    OBVIOUS
  <2>6. k \in Slot /\ q \in Pid /\ Past(q)
    BY <2>1, <2>2, <2>4, <2>5, MainPids DEF LibraryInv, JoinInv, EntriesInv
  <2> QED BY <1>4, <2>3, <2>5, <2>6
<1>14. ExitedInv'
  BY RunningThread DEF ExitedInv
<1>15. TypeOK'
  BY <1>3 DEF ThreadsInv, LibraryInv, TypeOK
<1> QED BY <1>7, <1>8, <1>9, <1>10, <1>12, <1>13, <1>14, <1>15 DEF LibraryInv

\* The areas agree while no entry that is ALIVE changes its areas.
LEMMA SameAreas ==
  ASSUME LibraryInv, UNCHANGED <<state, isThread, slots, owner>>,
         \A k \in Slot : /\ entry'[k].pid = entry[k].pid /\ entry'[k].areas = entry[k].areas
                         /\ entry'[k].status = "ALIVE" => entry[k].status = "ALIVE"
                         /\ entry'[k].status = "UNUSED" => entry[k].status = "UNUSED"
  PROVE  AreasAgree'
<1>1. UnusedSlots' = UnusedSlots /\ \A k : AreasOf(k)' = AreasOf(k)
  BY DEF UnusedSlots, AreasOf
<1>2. \A q : SlotOf(q)' = SlotOf(q) /\ (Alive(q)' <=> Alive(q))
  BY DEF SlotOf, SlotsWith, Alive
<1>3. ASSUME NEW k \in Slot, entry'[k].status = "ALIVE", Alive(entry[k].pid)'
      PROVE  (entry[k].areas = AreasOf(SlotOf(entry[k].pid)))'
  <2>1. entry[k].status = "ALIVE" /\ Alive(entry[k].pid)
    BY <1>3 DEF Alive
  <2>2. entry[k].areas = AreasOf(SlotOf(entry[k].pid))
    BY <2>1 DEF LibraryInv, AreasAgree
  <2> QED BY <2>2 DEF AreasOf, SlotOf, SlotsWith
<1>4. \A k \in Slot : (entry[k].status = "ALIVE" /\ Alive(entry[k].pid) => entry[k].areas = AreasOf(SlotOf(entry[k].pid)))'
  BY <1>3
<1>5. \A k \in Slot : (entry[k].status = "UNUSED" => entry[k].areas = {})'
  BY DEF LibraryInv, AreasAgree
<1>6. \A k \in UnusedSlots' : (AreasOf(k) = {})'
  BY <1>1 DEF LibraryInv, AreasAgree
<1> QED BY <1>4, <1>5, <1>6 DEF AreasAgree

LEMMA ReturnKept ==
  ASSUME ThreadsInv, ThreadsInv', LibraryInv, NEW p \in User, NEW value \in Returns(p), ExitReturns(p, value)
  PROVE  LibraryInv'
<1>1. /\ ThreadRuns(p) /\ job[p] \in stacks /\ exiting[p] = "running"
      /\ entry' = [entry EXCEPT ![OwnEntry(p)].ret = value]
      /\ result' = [result EXCEPT ![job[p]] = value] /\ exiting' = [exiting EXCEPT ![p] = "returned"]
      /\ UNCHANGED <<schedVars, threadVars, num, main, job, created, tidOf, stacks, joined>>
  BY DEF ExitReturns, ThreadAt
<1>2. PICK i \in Taken : i \in Slot /\ entry[i].pid = p /\ entry[i].thread = job[p] /\ OwnEntry(p) = i
                         /\ entry[i].status # "USED"
  BY <1>1, RunningThread
<1>3. p \in Pid /\ Alive(p) /\ job[p] \in Created /\ p # Main
  BY <1>1, RunningThread DEF Joinable
<1>4. /\ entry \in [Slot -> Entry] /\ result \in [Created -> Outcome] /\ exiting \in [Pid -> ExitAt]
  BY DEF LibraryInv, TypeOK
<1>5. value \in Outcome /\ value # Pending
  BY <1>3 DEF Returns, Outcome, Null, Pending, Created
<1>6. /\ state' = state /\ current' = current /\ isThread' = isThread /\ ticksToSleep' = ticksToSleep
      /\ slots' = slots /\ owner' = owner
  BY <1>1 DEF schedVars, threadVars
<1>7. PICK e : e = [entry[i] EXCEPT !.ret = value]
  OBVIOUS
<1>8. entry[i] \in Entry /\ entry[i].tid = i /\ Phase(i, p, job[p]) /\ entry[i].status # "UNUSED"
  BY <1>2, <1>4 DEF LibraryInv, EntriesInv, PhasesInv, Taken
<1>9. /\ e \in Entry /\ e.tid = i /\ e.pid = p /\ e.thread = entry[i].thread /\ e.status = entry[i].status
      /\ e.ret = value /\ e.areas = entry[i].areas
  BY <1>2, <1>5, <1>7, <1>8 DEF Entry
<1>10. entry' = [entry EXCEPT ![i] = e] /\ entry'[i] = e /\ \A k \in Slot \ {i} : entry'[k] = entry[k]
  BY <1>1, <1>2, <1>4, <1>7
<1>11. /\ exiting' \in [Pid -> ExitAt] /\ exiting'[p] = "returned" /\ \A q \in Pid \ {p} : exiting'[q] = exiting[q]
       /\ result' \in [Created -> Outcome] /\ result'[job[p]] = value
       /\ \A n \in Created \ {job[p]} : result'[n] = result[n]
  BY <1>1, <1>3, <1>4, <1>5 DEF ExitAt
<1>12. Phase(i, p, job[p])'
  <2>1. Alive(p)' /\ entry'[i].status # "USED" /\ entry'[i].ret = value /\ job' = job
    BY <1>1, <1>2, <1>3, <1>6, <1>9, <1>10 DEF Alive
  <2> QED BY <1>5, <1>11, <2>1 DEF Phase
<1>13. AreasAgree'
  <2>1. \A k \in Slot : entry'[k].pid = entry[k].pid /\ entry'[k].areas = entry[k].areas
                        /\ entry'[k].status = entry[k].status
    BY <1>2, <1>9, <1>10
  <2> QED BY <1>6, <2>1, SameAreas
<1>14. main.at = "cloned" => AreasOf(SlotOf(main.pid))' = AreasOf(SlotOf(main.pid))
  BY <1>1, <1>6 DEF AreasOf, SlotOf, SlotsWith
<1> QED BY <1>1, <1>2, <1>6, <1>8, <1>9, <1>10, <1>11, <1>12, <1>13, <1>14, EntryStep

LEMMA UsedKept ==
  ASSUME ThreadsInv, ThreadsInv', LibraryInv, NEW p \in User, ExitUsed(p)
  PROVE  LibraryInv'
<1>1. /\ ThreadRuns(p) /\ job[p] \in stacks /\ exiting[p] = "returned"
      /\ entry' = [entry EXCEPT ![OwnEntry(p)].status = "USED"]
      /\ exiting' = [exiting EXCEPT ![p] = "used"]
      /\ UNCHANGED <<schedVars, threadVars, num, main, job, created, tidOf, stacks, result, joined>>
  BY DEF ExitUsed, ThreadAt
<1>2. PICK i \in Taken : i \in Slot /\ entry[i].pid = p /\ entry[i].thread = job[p] /\ OwnEntry(p) = i
                         /\ entry[i].status # "USED"
  BY <1>1, RunningThread
<1>3. p \in Pid /\ Alive(p) /\ p # Main
  BY <1>1, RunningThread
<1>4. /\ entry \in [Slot -> Entry] /\ result \in [Created -> Outcome] /\ exiting \in [Pid -> ExitAt]
  BY DEF LibraryInv, TypeOK
<1>6. /\ state' = state /\ current' = current /\ isThread' = isThread /\ ticksToSleep' = ticksToSleep
      /\ slots' = slots /\ owner' = owner
  BY <1>1 DEF schedVars, threadVars
<1>7. PICK e : e = [entry[i] EXCEPT !.status = "USED"]
  OBVIOUS
<1>8. entry[i] \in Entry /\ entry[i].tid = i /\ Phase(i, p, job[p]) /\ entry[i].status = "ALIVE"
  BY <1>2, <1>4 DEF LibraryInv, EntriesInv, PhasesInv, Taken, Entry
<1>9. /\ e \in Entry /\ e.tid = i /\ e.pid = p /\ e.thread = entry[i].thread /\ e.status = "USED"
      /\ e.ret = entry[i].ret /\ e.areas = entry[i].areas
  BY <1>2, <1>7, <1>8 DEF Entry
<1>10. entry' = [entry EXCEPT ![i] = e] /\ entry'[i] = e /\ \A k \in Slot \ {i} : entry'[k] = entry[k]
  BY <1>1, <1>2, <1>4, <1>7
<1>11. exiting' \in [Pid -> ExitAt] /\ exiting'[p] = "used" /\ \A q \in Pid \ {p} : exiting'[q] = exiting[q]
  BY <1>1, <1>3, <1>4 DEF ExitAt
<1>12. Phase(i, p, job[p])'
  <2>1. state[p] # "EXITING" /\ entry'[i].status = "USED" /\ entry'[i].ret = entry[i].ret /\ job' = job
    BY <1>1, <1>3, <1>9, <1>10 DEF Alive
  <2> QED BY <1>1, <1>6, <1>8, <1>11, <2>1 DEF Phase
<1>13. AreasAgree'
  <2>1. \A k \in Slot : /\ entry'[k].pid = entry[k].pid /\ entry'[k].areas = entry[k].areas
                        /\ entry'[k].status = "ALIVE" => entry[k].status = "ALIVE"
                        /\ entry'[k].status = "UNUSED" => entry[k].status = "UNUSED"
    BY <1>2, <1>9, <1>10
  <2> QED BY <1>6, <2>1, SameAreas
<1>14. main.at = "cloned" => AreasOf(SlotOf(main.pid))' = AreasOf(SlotOf(main.pid))
  BY <1>1, <1>6 DEF AreasOf, SlotOf, SlotsWith
<1> QED BY <1>1, <1>2, <1>4, <1>6, <1>8, <1>9, <1>10, <1>11, <1>12, <1>13, <1>14, EntryStep

-------------------------------------------------------------------------------
(***************************************************************************)
(* gmalloc and gfree change the areas of the thread that runs, in its      *)
(* entry and under its slot.                                               *)
(***************************************************************************)
LEMMA AreaStepKept ==
  ASSUME ThreadsInv, ThreadsInv', LookupFindsOwnSlot, LibraryInv, NEW p \in User, ThreadRuns(p), job[p] \in stacks,
         exiting[p] = "running", NEW i \in Taken, entry[i].pid = p, NEW S \in SUBSET Area,
         entry' = [entry EXCEPT ![i].areas = S],
         UNCHANGED <<schedVars, isThread, slots>>,
         UNCHANGED <<num, main, exiting, job, created, tidOf, stacks, result, joined>>,
         AreasOf(SlotOf(p))' = S,
         \A k \in Slot \ {SlotOf(p)} : AreasOf(k)' = AreasOf(k)
  PROVE  LibraryInv'
<1>1. /\ p \in Pid /\ Alive(p) /\ p # Main
      /\ main.at \in {"cloned", "registered"} => main.pid # p
  BY RunningThread
<1>2. /\ entry \in [Slot -> Entry] /\ exiting \in [Pid -> ExitAt] /\ result \in [Created -> Outcome]
      /\ i \in Slot /\ Taken \subseteq Slot
  BY DEF LibraryInv, TypeOK, Taken
<1>3. entry[i] \in Entry /\ entry[i].tid = i /\ entry[i].thread = job[p] /\ Phase(i, p, job[p]) /\ entry[i].status = "ALIVE"
  BY <1>2 DEF LibraryInv, EntriesInv, PhasesInv, Phase, Taken, Entry
<1>4. PICK e : e = [entry[i] EXCEPT !.areas = S]
  OBVIOUS
<1>5. /\ e \in Entry /\ e.tid = i /\ e.pid = p /\ e.thread = entry[i].thread /\ e.status = "ALIVE"
      /\ e.ret = entry[i].ret /\ e.areas = S
  BY <1>3, <1>4 DEF Entry
<1>6. entry' = [entry EXCEPT ![i] = e] /\ entry'[i] = e /\ \A k \in Slot \ {i} : entry'[k] = entry[k]
  BY <1>2, <1>4
<1>7. /\ state' = state /\ current' = current /\ isThread' = isThread /\ ticksToSleep' = ticksToSleep
      /\ slots' = slots
  BY DEF schedVars
<1>8. /\ \A q : (Alive(q)' <=> Alive(q)) /\ SlotOf(q)' = SlotOf(q)
      /\ UnusedSlots' = UnusedSlots /\ SlotOf(p) \notin UnusedSlots
  <2>1. \A q : (Alive(q)' <=> Alive(q)) /\ SlotOf(q)' = SlotOf(q)
    BY <1>7 DEF Alive, SlotOf, SlotsWith
  <2> QED BY <1>1, <1>7, <2>1, SlotOfLiving DEF UnusedSlots
<1>9. \A q \in Pid \ {p} : Alive(q) => SlotOf(q) \in Slot \ {SlotOf(p)}
  BY <1>1, SlotOfLiving
<1>10. Phase(i, p, job[p])'
  <2>1. (Alive(p)' <=> Alive(p)) /\ (WaitIsOver' <=> WaitIsOver) /\ job' = job
    BY <1>8 DEF WaitIsOver
  <2> QED BY <1>3, <1>5, <1>6, <1>7, <2>1 DEF Phase
<1>11. AreasAgree'
  <2>1. ASSUME NEW k \in Slot, entry'[k].status = "ALIVE", Alive(entry[k].pid)'
        PROVE  (entry[k].areas = AreasOf(SlotOf(entry[k].pid)))'
    <3>1. CASE k = i
      <4>1. entry'[k].areas = S /\ entry'[k].pid = p
        BY <1>5, <1>6, <3>1
      <4> QED BY <4>1
    <3>2. CASE k # i
      <4>1. entry'[k] = entry[k] /\ entry[k].pid \in Pid \ {p} /\ Alive(entry[k].pid)
        <5>1. entry'[k] = entry[k] /\ k \in Taken
          BY <1>6, <2>1, <3>2 DEF Taken
        <5>2. entry[k].pid \in Pid /\ entry[k].pid # p
          BY <1>2, <3>2, <5>1, OneEntry, MainPids DEF LibraryInv, EntriesInv
        <5> QED BY <1>7, <2>1, <5>1, <5>2 DEF Alive
      <4>2. PICK q, s : q = entry[k].pid /\ s = SlotOf(q)
        OBVIOUS
      <4>3. entry[k].areas = AreasOf(s)
        BY <2>1, <4>1, <4>2 DEF LibraryInv, AreasAgree
      <4>4. AreasOf(s)' = AreasOf(s)
        BY <1>9, <4>1, <4>2
      <4>5. SlotOf(q)' = s
        BY <1>8, <4>2
      <4>6. entry'[k].pid = q
        BY <4>1, <4>2
      <4>7. AreasOf(SlotOf(entry[k].pid))' = AreasOf(s)'
        BY <4>5, <4>6
      <4> QED BY <4>1, <4>3, <4>4, <4>7
    <3> QED BY <3>1, <3>2
  <2>2. \A k \in Slot : (entry[k].status = "ALIVE" /\ Alive(entry[k].pid) => entry[k].areas = AreasOf(SlotOf(entry[k].pid)))'
    BY <2>1
  <2>3. \A k \in Slot : (entry[k].status = "UNUSED" => entry[k].areas = {})'
    BY <1>5, <1>6 DEF LibraryInv, AreasAgree
  <2>4. \A k \in UnusedSlots' : (AreasOf(k) = {})'
    BY <1>8 DEF LibraryInv, AreasAgree, UnusedSlots
  <2> QED BY <2>2, <2>3, <2>4 DEF AreasAgree
<1>12. main.at = "cloned" => AreasOf(SlotOf(main.pid))' = AreasOf(SlotOf(main.pid))
  <2>1. SUFFICES ASSUME main.at = "cloned" PROVE AreasOf(SlotOf(main.pid))' = AreasOf(SlotOf(main.pid))
    OBVIOUS
  <2>2. main.pid \in Pid \ {p} /\ Alive(main.pid)
    BY <1>1, <2>1, MainPids DEF LibraryInv, StartInv, Alive
  <2>3. PICK q, s : q = main.pid /\ s = SlotOf(q)
    OBVIOUS
  <2>4. AreasOf(s)' = AreasOf(s) /\ SlotOf(q)' = s /\ main'.pid = q
    BY <1>8, <1>9, <2>2, <2>3
  <2> QED BY <2>3, <2>4
<1>13. /\ exiting' \in [Pid -> ExitAt] /\ \A q \in Pid \ {p} : exiting'[q] = exiting[q]
       /\ result' \in [Created -> Outcome] /\ \A n \in Created \ {job[p]} : result'[n] = result[n]
  BY <1>2
<1> QED BY <1>3, <1>5, <1>6, <1>7, <1>10, <1>11, <1>12, <1>13, EntryStep

LEMMA MallocKept ==
  ASSUME ThreadsInv, ThreadsInv', LookupFindsOwnSlot, LibraryInv, NEW p \in User, NEW a \in Area, NEW flag \in Siblings,
         GMalloc(p, a, flag)
  PROVE  LibraryInv'
<1>1. /\ ThreadRuns(p) /\ job[p] \in stacks /\ exiting[p] = "running" /\ PrivateMap(p, a, flag)
      /\ entry' = [entry EXCEPT ![OwnEntry(p)].areas = @ \cup {a}]
      /\ UNCHANGED schedVars /\ UNCHANGED <<isThread, slots>>
      /\ UNCHANGED <<num, main, exiting, job, created, tidOf, stacks, result, joined>>
  BY DEF GMalloc, ThreadAt, PrivateMap
<1>2. PICK i \in Taken : i \in Slot /\ entry[i].pid = p /\ OwnEntry(p) = i /\ entry[i].status # "USED"
  BY <1>1, RunningThread
<1>3. p \in Pid /\ Alive(p)
  BY <1>1, RunningThread
<1>4. PICK s : s = SlotOf(p)
  OBVIOUS
<1>5. s \in Slot /\ owner \in [Area -> Slot \cup {NoOwner}] /\ owner[a] = NoOwner
      /\ owner' = [owner EXCEPT ![a] = s]
  BY <1>1, <1>3, <1>4, SlotOfLiving DEF PrivateMap, ThreadsInv, ThreadsTypeOK
<1>6. entry \in [Slot -> Entry] /\ entry[i].areas \in SUBSET Area /\ entry[i].areas = AreasOf(s)
  BY <1>2, <1>3, <1>4 DEF LibraryInv, TypeOK, Entry, Taken, AreasAgree
<1>7. SlotOf(p)' = s
  BY <1>1, <1>4 DEF SlotOf, SlotsWith
<1>8. AreasOf(s)' = AreasOf(s) \cup {a} /\ \A k \in Slot \ {s} : AreasOf(k)' = AreasOf(k)
  <2>1. s # NoOwner /\ \A k \in Slot : k # NoOwner
    BY <1>5, ThreadsAssumption
  <2> QED BY <1>5, <2>1 DEF AreasOf
<1>9. PICK S : S = entry[i].areas \cup {a}
  OBVIOUS
<1>10. S \in SUBSET Area /\ entry' = [entry EXCEPT ![i].areas = S] /\ AreasOf(SlotOf(p))' = S
  <2>1. S \in SUBSET Area /\ entry' = [entry EXCEPT ![i].areas = S]
    BY <1>1, <1>2, <1>6, <1>9
  <2>2. AreasOf(SlotOf(p))' = AreasOf(s)'
    BY <1>7
  <2> QED BY <1>6, <1>8, <1>9, <2>1, <2>2
<1>11. \A k \in Slot \ {SlotOf(p)} : AreasOf(k)' = AreasOf(k)
  BY <1>4, <1>8
<1> QED BY <1>1, <1>2, <1>10, <1>11, AreaStepKept

LEMMA FreeKept ==
  ASSUME ThreadsInv, ThreadsInv', LookupFindsOwnSlot, LibraryInv, NEW p \in User, NEW a \in Area, GFree(p, a)
  PROVE  LibraryInv'
<1>1. /\ ThreadRuns(p) /\ job[p] \in stacks /\ exiting[p] = "running" /\ PrivateUnmap(p, a)
      /\ entry' = [entry EXCEPT ![OwnEntry(p)].areas = @ \ {a}]
      /\ UNCHANGED schedVars /\ UNCHANGED <<isThread, slots>>
      /\ UNCHANGED <<num, main, exiting, job, created, tidOf, stacks, result, joined>>
  BY DEF GFree, ThreadAt, PrivateUnmap
<1>2. PICK i \in Taken : i \in Slot /\ entry[i].pid = p /\ OwnEntry(p) = i /\ entry[i].status # "USED"
  BY <1>1, RunningThread
<1>3. p \in Pid /\ Alive(p)
  BY <1>1, RunningThread
<1>4. PICK s : s = SlotOf(p)
  OBVIOUS
<1>5. s \in Slot /\ owner \in [Area -> Slot \cup {NoOwner}] /\ owner[a] = s
      /\ owner' = [owner EXCEPT ![a] = NoOwner]
  BY <1>1, <1>3, <1>4, SlotOfLiving DEF PrivateUnmap, ThreadsInv, ThreadsTypeOK
<1>6. entry \in [Slot -> Entry] /\ entry[i].areas \in SUBSET Area /\ entry[i].areas = AreasOf(s)
  BY <1>2, <1>3, <1>4 DEF LibraryInv, TypeOK, Entry, Taken, AreasAgree
<1>7. SlotOf(p)' = s
  BY <1>1, <1>4 DEF SlotOf, SlotsWith
<1>8. AreasOf(s)' = AreasOf(s) \ {a} /\ \A k \in Slot \ {s} : AreasOf(k)' = AreasOf(k)
  <2>1. \A k \in Slot : k # NoOwner
    BY ThreadsAssumption
  <2> QED BY <1>5, <2>1 DEF AreasOf
<1>9. PICK S : S = entry[i].areas \ {a}
  OBVIOUS
<1>10. S \in SUBSET Area /\ entry' = [entry EXCEPT ![i].areas = S] /\ AreasOf(SlotOf(p))' = S
  <2>1. S \in SUBSET Area /\ entry' = [entry EXCEPT ![i].areas = S]
    BY <1>1, <1>2, <1>6, <1>9
  <2>2. AreasOf(SlotOf(p))' = AreasOf(s)'
    BY <1>7
  <2> QED BY <1>6, <1>8, <1>9, <2>1, <2>2
<1>11. \A k \in Slot \ {SlotOf(p)} : AreasOf(k)' = AreasOf(k)
  BY <1>4, <1>8
<1> QED BY <1>1, <1>2, <1>10, <1>11, AreaStepKept

-------------------------------------------------------------------------------
(***************************************************************************)
(* A thread that leaves, by its exit call or a fault, is the one that has  *)
(* the processor; the process wakes, and the other threads are not         *)
(* disturbed.                                                              *)
(***************************************************************************)
LEMMA LeaveEffects ==
  ASSUME ThreadsInv, LookupFindsOwnSlot, NEW p \in User, ThreadRuns(p), NEW left \in Gone, ThreadLeaves(p, left)
  PROVE  /\ state'[p] = left
         /\ \A q \in User \ {Main, p} :
              state'[q] = state[q] \/ (state[q] = "READY" /\ state'[q] = "RUNNING")
         /\ \A q \in Pid : Alive(q)' <=> (Alive(q) /\ q # p)
         /\ \A q : SlotOf(q)' = SlotOf(q)
         /\ UnusedSlots' = UnusedSlots \cup {SlotOf(p)} /\ AreasOf(SlotOf(p))' = {}
         /\ \A k \in Slot \ {SlotOf(p)} : AreasOf(k)' = AreasOf(k)
         /\ isThread' = isThread /\ ticksToSleep' = ticksToSleep
         /\ slots' # slots
<1>1. /\ p \in Pid /\ current = p /\ isThread[p] /\ state[p] \in {"RUNNING", "READY"}
      /\ \A q \in Pid \ {p} : state[q] # "RUNNING"
  BY RunnerIsAwake DEF ThreadRuns
<1>2. /\ state \in [Pid -> ProcessState] /\ slots \in [Slot -> [pid : Pid, status : {"UNUSED", "WAITING"}]]
      /\ owner \in [Area -> Slot \cup {NoOwner}] /\ ~ isThread[Main] /\ ~ isThread[Swapper]
  BY DEF ThreadsInv, ThreadsTypeOK, SchedulerTypeOK, OwnSlots
<1>3. p # Main /\ Main \in Pid /\ Alive(p)
  BY <1>1, <1>2, MainPids DEF Alive
<1>4. PICK i, st, ow, pt :
        /\ i = SlotOf(p) /\ st = [state EXCEPT ![p] = left, ![Main] = "READY"]
        /\ ow = [a \in Area |-> IF owner[a] = i THEN NoOwner ELSE owner[a]]
        /\ slots' = [slots EXCEPT ![i].status = "UNUSED"] /\ owner' = ow
        /\ SwitchTo(st, ow, pt, PickNext(st, p)) /\ UNCHANGED <<ticksToSleep, isThread>>
  BY DEF ThreadLeaves, WakesProcess
<1>5. i \in Slot /\ slots[i].pid = p /\ slots[i].status = "WAITING"
  BY <1>3, <1>4, SlotOfLiving, MainPids
<1>6. /\ \A q \in Pid : st[q] = IF q = Main THEN "READY" ELSE IF q = p THEN left ELSE state[q]
      /\ st \in [Pid -> ProcessState] /\ \A q \in Pid : st[q] # "RUNNING"
  BY <1>1, <1>2, <1>3, <1>4 DEF ProcessState, Gone
<1>7. \A q \in User : state'[q] = st[q] \/ (st[q] = "READY" /\ state'[q] = "RUNNING")
  BY <1>1, <1>4, <1>6, SwitchLives
<1>8. /\ state'[p] = left
      /\ \A q \in User \ {Main, p} :
              state'[q] = state[q] \/ (state[q] = "READY" /\ state'[q] = "RUNNING")
  BY <1>3, <1>6, <1>7, MainPids DEF Gone
<1>9. \A q \in Pid : Alive(q)' <=> (Alive(q) /\ q # p)
  <2>1. SUFFICES ASSUME NEW q \in Pid, isThread[q] PROVE Alive(q)' <=> (Alive(q) /\ q # p)
    BY <1>4 DEF Alive
  <2>2. q \in User \ {Main}
    BY <1>2, <2>1 DEF User
  <2> QED BY <1>4, <1>8, <2>1, <2>2 DEF Alive, Gone
<1>10. /\ \A k \in Slot : slots'[k].pid = slots[k].pid
       /\ \A k \in Slot \ {i} : slots'[k].status = slots[k].status
       /\ slots'[i].status = "UNUSED"
  BY <1>2, <1>4, <1>5
<1>11. \A q : SlotOf(q)' = SlotOf(q)
  <2>1. \A q : SlotsWith(q)' = SlotsWith(q)
    BY <1>10 DEF SlotsWith
  <2> QED BY <2>1 DEF SlotOf
<1>12. UnusedSlots' = UnusedSlots \cup {i}
  BY <1>5, <1>10 DEF UnusedSlots
<1>13. AreasOf(i)' = {} /\ \A k \in Slot \ {i} : AreasOf(k)' = AreasOf(k)
  <2>1. \A k \in Slot : k # NoOwner
    BY ThreadsAssumption
  <2> QED BY <1>2, <1>4, <1>5, <2>1 DEF AreasOf
<1>14. AreasOf(SlotOf(p))' = {}
  <2>1. SlotOf(p)' = i
    BY <1>4, <1>11
  <2> QED BY <1>13, <2>1
<1>15. slots' # slots
  BY <1>5, <1>10
<1> QED BY <1>4, <1>8, <1>9, <1>11, <1>12, <1>13, <1>14, <1>15

LEMMA LeaveKept ==
  ASSUME ThreadsInv, ThreadsInv', LookupFindsOwnSlot, LibraryInv, NEW p \in User, ThreadRuns(p),
         NEW left \in Gone, ThreadLeaves(p, left),
         UNCHANGED <<entry, num, main, exiting, job, created, tidOf, stacks, joined>>,
         result' \in [Created -> Outcome],
         \/ /\ job[p] \in stacks /\ \A n \in Created \ {job[p]} : result'[n] = result[n]
            /\ \/ exiting[p] = "used" /\ left = "UNUSED" /\ result' = result
               \/ exiting[p] = "running" /\ left = "EXITING" /\ result'[job[p]] = Null
         \/ job[p] \notin stacks /\ left = "EXITING" /\ result' = result
  PROVE  LibraryInv'
<1>1. /\ p # Main /\ p \in Pid /\ current = p /\ Alive(p)
      /\ main.at \in {"cloned", "registered"} => main.pid # p
  BY RunnerThread
<1>2. \/ /\ job[p] \in stacks /\ job[p] \in Joinable /\ job[p] \in Created /\ main.at # "exited"
         /\ \E i \in Taken : /\ i \in Slot /\ entry[i].pid = p /\ entry[i].thread = job[p]
                             /\ \A k \in Slot : entry[k].pid = p => k = i
      \/ job[p] \notin stacks /\ p \in Overtaken /\ \A i \in Taken : entry[i].pid # p
  <2>1. CASE job[p] \in stacks
    BY <2>1, RunningThread DEF Joinable
  <2>2. CASE job[p] \notin stacks
    <3>1. p \in Overtaken
      BY <2>2, StackUnlessOvertaken
    <3> QED BY <2>2, <3>1 DEF LibraryInv, EntriesInv, Joinable, Overtaken
  <2> QED BY <2>1, <2>2
<1>3. /\ state'[p] = left
      /\ \A q \in User \ {Main, p} :
           state'[q] = state[q] \/ (state[q] = "READY" /\ state'[q] = "RUNNING")
      /\ \A q \in Pid : Alive(q)' <=> (Alive(q) /\ q # p)
      /\ \A q : SlotOf(q)' = SlotOf(q)
      /\ UnusedSlots' = UnusedSlots \cup {SlotOf(p)} /\ AreasOf(SlotOf(p))' = {}
      /\ \A k \in Slot \ {SlotOf(p)} : AreasOf(k)' = AreasOf(k)
      /\ isThread' = isThread /\ ticksToSleep' = ticksToSleep
  BY LeaveEffects
<1>4. Taken' = Taken /\ Joinable' = Joinable /\ Taken \subseteq Slot
  BY DEF Taken, Joinable
<1>5. TypeOK'
  BY DEF ThreadsInv, LibraryInv, TypeOK
<1>6. NumbersInv'
  <2>1. NumbersInv
    BY DEF LibraryInv
  <2>2. \A n \in Created : joined[n] # Pending \/ tidOf[n] = Invalid => result'[n] = result[n]
    BY <1>2 DEF Joinable
  <2>3. \A n \in Created : joined[n] # Pending => joined[n] = result'[n]
    BY <2>1, <2>2 DEF NumbersInv, JoinReturnsResult
  <2>4. \A n \in Created : tidOf[n] = Invalid => result'[n] = Pending /\ joined[n] = Pending
    BY <2>1, <2>2 DEF NumbersInv
  <2> QED BY <2>1, <2>3, <2>4 DEF NumbersInv, JoinReturnsResult
<1>7. EntriesInv'
  BY <1>3, EntriesKept
<1>8. ContextsInv'
  <2>1. ASSUME NEW q \in User \ {Main}, state'[q] # "UNUSED"
        PROVE  isThread[q] /\ (Cloning(q) \/ Left(q) \/ \E k \in Taken : entry[k].pid = q)
    <3>1. state[q] # "UNUSED"
      BY <1>1, <1>3, <2>1 DEF Alive
    <3> QED BY <3>1 DEF LibraryInv, ContextsInv
  <2> QED BY <1>3, <1>4, <2>1 DEF ContextsInv, Cloning, Left
<1>9. PhasesInv'
  <2>1. ASSUME NEW k \in Taken, entry[k].pid # p PROVE Phase(k, entry[k].pid, entry[k].thread)'
    <3>1. /\ Phase(k, entry[k].pid, entry[k].thread) /\ entry[k].pid \in User \ {Main, p} /\ entry[k].pid \in Pid
          /\ entry[k].thread \in Created /\ job[entry[k].pid] = entry[k].thread /\ k \in Slot
      BY <1>4, <2>1, MainPids DEF LibraryInv, PhasesInv, EntriesInv, Joinable
    <3>2. PICK q : q = entry[k].pid
      OBVIOUS
    <3>3. /\ (Alive(q)' <=> Alive(q)) /\ entry'[k].pid = q
          /\ state'[q] = "EXITING" <=> state[q] = "EXITING"
          /\ state'[q] = "UNUSED" <=> state[q] = "UNUSED"
      BY <1>3, <3>1, <3>2
    <3>4. result'[entry[k].thread] = result[entry[k].thread]
      <4>1. CASE job[p] \in stacks
        <5>1. PICK i \in Taken : entry[i].pid = p /\ entry[i].thread = job[p]
          BY <1>2, <4>1
        <5>2. entry[k].thread # job[p]
          BY <2>1, <5>1 DEF LibraryInv, EntriesInv
        <5> QED BY <3>1, <4>1, <5>2
      <4>2. CASE job[p] \notin stacks
        BY <4>2
      <4> QED BY <4>1, <4>2
    <3>5. Phase(k, q, entry[k].thread)'
      <4>1. WaitIsOver' <=> WaitIsOver
        BY DEF WaitIsOver
      <4> QED BY <3>1, <3>2, <3>3, <3>4, <4>1 DEF Phase
    <3> QED BY <3>3, <3>5
  <2>2. ASSUME NEW i \in Taken, entry[i].pid = p PROVE Phase(i, entry[i].pid, entry[i].thread)'
    <3>1. Phase(i, p, job[p]) /\ ~ Alive(p)' /\ entry'[i].pid = p /\ entry'[i].thread = job'[p]
      BY <1>1, <1>3, <2>2 DEF LibraryInv, PhasesInv, EntriesInv
    <3>2. Phase(i, p, job[p])'
      BY <1>1, <1>2, <1>3, <2>2, <3>1 DEF Phase
    <3> QED BY <3>1, <3>2
  <2> QED BY <1>4, <2>1, <2>2 DEF PhasesInv
<1>11. StartInv'
  <2>1. SUFFICES ASSUME main.at \in {"cloned", "registered"} PROVE StartInv'
    BY DEF StartInv
  <2>2. /\ main.pid \in User \ {Main, p} /\ main.pid \in Pid /\ state[main.pid] = "WAITING" /\ isThread[main.pid]
    BY <1>1, <2>1, MainPids DEF LibraryInv, StartInv
  <2>3. state'[main.pid] = "WAITING"
    BY <1>3, <2>2
  <2>4. PICK q, s : q = main.pid /\ s = SlotOf(q)
    OBVIOUS
  <2>5. s \in Slot \ {SlotOf(p)} /\ SlotOf(q)' = s
    BY <1>1, <1>3, <2>2, <2>4, SlotOfLiving DEF Alive
  <2>6. AreasOf(SlotOf(main.pid))' = AreasOf(SlotOf(main.pid))
    BY <1>3, <2>4, <2>5
  <2> QED BY <1>3, <2>1, <2>3, <2>6 DEF LibraryInv, StartInv
<1>12. JoinInv'
  <2>1. SUFFICES ASSUME WaitIsOver PROVE Past(entry[tidOf[main.thread]].pid)'
    BY <1>4 DEF LibraryInv, JoinInv, Joining, WaitIsOver
  <2>2. main.thread \in Joinable
    BY <2>1 DEF LibraryInv, JoinInv, Joining, WaitIsOver
  <2>3. PICK q : q = entry[tidOf[main.thread]].pid
    OBVIOUS
  <2>4. q \in User \ {Main} /\ Past(q)
    BY <2>1, <2>2, <2>3 DEF LibraryInv, JoinInv, EntriesInv
  <2>5. Past(q)'
    BY <1>1, <1>3, <2>4 DEF Past, Alive
  <2> QED BY <2>3, <2>5
<1>13. ExitedInv'
  <2>1. SUFFICES ASSUME main.at = "exited" PROVE stacks = {} /\ Taken = {} /\ p \in Overtaken'
    BY <1>4 DEF ExitedInv
  <2>2. p \in Overtaken /\ left = "EXITING"
    BY <1>2, <2>1
  <2>3. p \in Overtaken'
    BY <1>3, <2>2 DEF Overtaken
  <2> QED BY <2>1, <2>3 DEF LibraryInv, ExitedInv
<1>14. AreasAgree'
  <2>1. ASSUME NEW k \in Slot, entry'[k].status = "ALIVE", Alive(entry[k].pid)'
        PROVE  (entry[k].areas = AreasOf(SlotOf(entry[k].pid)))'
    <3>1. PICK q, s : q = entry[k].pid /\ s = SlotOf(q)
      OBVIOUS
    <3>2. q \in Pid /\ entry'[k].pid = q
      BY <2>1, <3>1, MainPids DEF LibraryInv, EntriesInv, Taken
    <3>3. Alive(q) /\ q # p
      BY <1>3, <2>1, <3>2
    <3>4. entry[k].areas = AreasOf(s)
      BY <2>1, <3>1, <3>3 DEF LibraryInv, AreasAgree
    <3>5. s \in Slot \ {SlotOf(p)} /\ SlotOf(q)' = s
      BY <1>1, <1>3, <3>1, <3>2, <3>3, SlotOfLiving
    <3>6. AreasOf(SlotOf(entry[k].pid))' = AreasOf(s)
      BY <1>3, <3>2, <3>5
    <3> QED BY <3>4, <3>6
  <2>2. \A k \in Slot : (entry[k].status = "ALIVE" /\ Alive(entry[k].pid) => entry[k].areas = AreasOf(SlotOf(entry[k].pid)))'
    BY <2>1
  <2>3. \A k \in Slot : (entry[k].status = "UNUSED" => entry[k].areas = {})'
    BY DEF LibraryInv, AreasAgree
  <2>4. PICK s : s = SlotOf(p)
    OBVIOUS
  <2>5. UnusedSlots' = UnusedSlots \cup {s} /\ AreasOf(s)' = {} /\ UnusedSlots \subseteq Slot
        /\ \A k \in Slot \ {s} : AreasOf(k)' = AreasOf(k)
    <3>1. SlotOf(p)' = s
      BY <1>3, <2>4
    <3> QED BY <1>3, <2>4, <3>1 DEF UnusedSlots
  <2>6. \A k \in UnusedSlots' : (AreasOf(k) = {})'
    BY <2>5 DEF LibraryInv, AreasAgree
  <2> QED BY <2>2, <2>3, <2>6 DEF AreasAgree
<1> QED BY <1>5, <1>6, <1>7, <1>8, <1>9, <1>11, <1>12, <1>13, <1>14 DEF LibraryInv

-------------------------------------------------------------------------------
(***************************************************************************)
(* An access to a private area brings a page fault that is answered, or    *)
(* the end of the thread.                                                  *)
(***************************************************************************)
LEMMA AccessKept ==
  ASSUME ThreadsInv, ThreadsInv', LookupFindsOwnSlot, LibraryInv,
         NEW p \in User, NEW a \in Area, NEW write \in BOOLEAN, Accesses(p, a, write)
  PROVE  LibraryInv'
<1>1. /\ Access(p, a, write) /\ (ThreadAt(p, "running") \/ p = Main)
      /\ IF owner' = owner /\ slots' = slots THEN UNCHANGED userVars ELSE Faults(p)
  BY DEF Accesses
<1>2. \/ Fixed(p, a)
      \/ isThread[p] /\ SegfaultExit(p)
  BY <1>1 DEF Access, FixPageTable, Fixed, IsPrivate
<1>3. CASE Fixed(p, a)
  <2>1. UNCHANGED userVars
    BY <1>1, <1>3 DEF Fixed
  <2> QED BY <1>3, <2>1, FixKept
<1>4. CASE isThread[p] /\ SegfaultExit(p)
  <2>1. ThreadRuns(p) /\ job[p] \in stacks /\ exiting[p] = "running" /\ ThreadLeaves(p, "EXITING")
    BY <1>1, <1>4 DEF ThreadAt, SegfaultExit, ThreadsInv, OwnSlots
  <2>2. slots' # slots
    BY <2>1, LeaveEffects DEF Gone
  <2>3. /\ result' = [result EXCEPT ![job[p]] = IF @ = Pending THEN Null ELSE @]
        /\ UNCHANGED <<entry, num, main, exiting, job, created, tidOf, stacks, joined>>
    BY <1>1, <2>2 DEF Faults
  <2>4. PICK i \in Taken : entry[i].pid = p /\ entry[i].thread = job[p]
    BY <2>1, RunningThread
  <2>5. Alive(p) /\ job[p] \in Created
    BY <2>1, RunningThread DEF Joinable
  <2>6. result[job[p]] = Pending
    BY <2>1, <2>4, <2>5 DEF LibraryInv, PhasesInv, Phase
  <2>7. result \in [Created -> Outcome]
    BY DEF LibraryInv, TypeOK
  <2>8. /\ result' \in [Created -> Outcome] /\ result'[job[p]] = Null
        /\ \A n \in Created \ {job[p]} : result'[n] = result[n]
    BY <2>3, <2>5, <2>6, <2>7 DEF Outcome
  <2> QED BY <2>1, <2>3, <2>8, LeaveKept DEF Gone
<1> QED BY <1>2, <1>3, <1>4

LEMMA ExitKept ==
  ASSUME ThreadsInv, ThreadsInv', LookupFindsOwnSlot, LibraryInv, NEW p \in User, ExitLeaves(p)
  PROVE  LibraryInv'
<1>1. /\ ThreadRuns(p) /\ job[p] \in stacks /\ exiting[p] = "used" /\ ThreadLeaves(p, "UNUSED")
      /\ UNCHANGED <<entry, num, main, exiting, job, created, tidOf, stacks, joined>> /\ result' = result
  BY DEF ExitLeaves, ThreadAt, ThreadExits, userVars
<1>2. result' \in [Created -> Outcome]
  BY <1>1 DEF LibraryInv, TypeOK
<1> QED BY <1>1, <1>2, LeaveKept DEF Gone

\* The fault of a thread that was overtaken.
LEMMA FaultKept ==
  ASSUME ThreadsInv, ThreadsInv', LookupFindsOwnSlot, LibraryInv, NEW p \in User, StackFault(p)
  PROVE  LibraryInv'
<1>1. /\ ThreadRuns(p) /\ job[p] \notin stacks /\ ThreadLeaves(p, "EXITING")
      /\ result' = [result EXCEPT ![job[p]] = IF @ = Pending THEN Null ELSE @]
      /\ UNCHANGED <<entry, num, main, exiting, job, created, tidOf, stacks, joined>>
  BY DEF StackFault, SegfaultExit, Faults
<1>2. p # Main /\ state[p] # "UNUSED" /\ ~ Cloning(p) /\ p \in Overtaken
  BY <1>1, RunnerThread, StackUnlessOvertaken DEF Alive
<1>3. Left(p)
  BY <1>2 DEF LibraryInv, ContextsInv, EntriesInv, Joinable, Left, Overtaken
<1>4. result[job[p]] # Pending /\ result \in [Created -> Outcome]
  BY <1>3 DEF LibraryInv, TypeOK, NumbersInv, JoinReturnsResult, Left
<1>5. result' = result
  BY <1>1, <1>3, <1>4 DEF Left
<1> QED BY <1>1, <1>4, <1>5, LeaveKept DEF Gone

LEMMA MainKept ==
  ASSUME ThreadsInv, ThreadsInv', LibraryInv, MainStep
  PROVE  LibraryInv'
<1>1. CASE \E ticks \in 1 .. MaxSleep : MainSleeps(ticks)
  <2>1. PICK ticks \in 1 .. MaxSleep : MainSleeps(ticks)
    BY <1>1
  <2>2. ticks \in Nat /\ Runs(Main) /\ ThreadSleeps(Main, ticks) /\ UNCHANGED userVars
    BY <2>1, GThreadAssumption DEF MainSleeps, MainIs
  <2> QED BY <2>2, MainPids, SleepKept
<1> QED BY <1>1, RegisterKept, ReadyKept, BeginKept, WaitKept, CheckKept, EndKept, MainExitKept DEF MainStep

LEMMA ThreadKept ==
  ASSUME ThreadsInv, ThreadsInv', LookupFindsOwnSlot, LibraryInv, NEW p \in User, ThreadStep(p)
  PROVE  LibraryInv'
<1>1. CASE \E ticks \in 1 .. MaxSleep : Sleeps(p, ticks)
  <2>1. PICK ticks \in 1 .. MaxSleep : Sleeps(p, ticks)
    BY <1>1
  <2>2. ticks \in Nat /\ ThreadRuns(p) /\ exiting[p] = "running" /\ ThreadSleeps(p, ticks) /\ UNCHANGED userVars
    BY <2>1, GThreadAssumption DEF Sleeps, ThreadAt
  <2> QED BY <2>2, SleepKept
<1>2. CASE \E value \in Returns(p) : ExitReturns(p, value)
  BY <1>2, ReturnKept
<1>3. CASE \E a \in Area, flag \in Siblings : GMalloc(p, a, flag)
  BY <1>3, MallocKept
<1>4. CASE \E a \in Area : GFree(p, a)
  BY <1>4, FreeKept
<1>5. CASE \E a \in Area, write \in BOOLEAN : Accesses(p, a, write)
  BY <1>5, AccessKept
<1> QED BY <1>1, <1>2, <1>3, <1>4, <1>5, UsedKept, ExitKept DEF ThreadStep

LEMMA PoliteKept ==
  ASSUME ThreadsInv, ThreadsInv', LookupFindsOwnSlot, LookupFindsOwnSlot', LibraryInv, [PoliteNext]_vars
  PROVE  LibraryInv'
<1>1. CASE MainStep
  BY <1>1, MainKept
<1>2. CASE \E p \in User : ThreadStep(p)
  BY <1>2, ThreadKept
<1>3. CASE PatientCreate
  BY <1>3, CloneKept
<1>4. CASE TimerTick
  BY <1>4, TickKept
<1>5. CASE \E p \in User : StackFault(p)
  BY <1>5, FaultKept
<1>6. CASE UNCHANGED vars
  <2>1. /\ UNCHANGED <<isThread, slots, owner>> /\ state' = state /\ ticksToSleep' = ticksToSleep
        /\ UNCHANGED userVars
    BY <1>6 DEF vars, schedVars, threadVars
  <2>2. SameLives
    BY <2>1 DEF SameLives
  <2> QED BY <2>1, <2>2, PlainKept
<1> QED BY <1>1, <1>2, <1>3, <1>4, <1>5, <1>6 DEF PoliteNext, ProgramStep, Stopped

LEMMA LibraryInit == Init => LibraryInv
<1> SUFFICES ASSUME Init PROVE LibraryInv
  OBVIOUS
<1>1. /\ \A i \in Slot : /\ entry[i].status = "UNUSED" /\ entry[i].pid = Swapper /\ entry[i].areas = {}
      /\ entry \in [Slot -> Entry] /\ num = 0 /\ created = 0 /\ stacks = {}
      /\ \A n \in Created : tidOf[n] = Invalid /\ result[n] = Pending /\ joined[n] = Pending
      /\ main.at = "idle" /\ main \in MainAt
  <2>1. entry \in [Slot -> Entry]
    <3>1. Swapper \in Pid /\ \A i \in Slot : 0 \in Slot
      BY MainPids, ThreadsAssumption DEF Slot
    <3> QED BY <3>1 DEF Init, Entry, Outcome
  <2>2. main.at = "idle" /\ main \in MainAt
    BY MainPids DEF Init, Idle, MainAt
  <2> QED BY <2>1, <2>2 DEF Init
<1>2. /\ \A p \in Pid : ~ isThread[p] /\ exiting[p] = "running"
      /\ \A p \in User \ {Main} : state[p] = "UNUSED"
      /\ \A i \in Slot : slots[i].status = "UNUSED"
      /\ \A a \in Area : owner[a] = NoOwner
  BY DEF Init, ThreadsInit, User
<1>3. Taken = {} /\ Joinable = {}
  BY <1>1 DEF Taken, Joinable
<1>4. TypeOK
  <2>1. ThreadsInv /\ MaxThreads \in Nat
    BY InitSafe, ThreadsAssumption
  <2>2. /\ exiting \in [Pid -> ExitAt] /\ job \in [Pid -> Created \cup {0}]
        /\ tidOf \in [Created -> Slot \cup {Invalid}] /\ result \in [Created -> Outcome]
        /\ joined \in [Created -> Outcome]
    BY DEF Init, ExitAt, Outcome
  <2> QED BY <1>1, <2>1, <2>2, GThreadAssumption DEF ThreadsInv, TypeOK
<1>5. NumbersInv
  <2>1. \A n \in Created : n > created /\ ~ (n <= created)
    BY <1>1 DEF Created
  <2> QED BY <1>1, <2>1 DEF NumbersInv, JoinReturnsResult
<1>6. EntriesInv
  <2>1. Cardinality(Taken) = 0
    BY <1>3, FS_EmptySet
  <2> QED BY <1>1, <1>3, <2>1, MainPids DEF EntriesInv
<1>7. ContextsInv /\ PhasesInv
  BY <1>2, <1>3, MainPids DEF ContextsInv, PhasesInv
<1>8. StartInv /\ JoinInv /\ ExitedInv
  BY <1>1 DEF StartInv, JoinInv, Joining, WaitIsOver, ExitedInv
<1>9. AreasAgree
  <2>1. \A k \in Slot : k # NoOwner
    BY ThreadsAssumption
  <2> QED BY <1>1, <1>2, <2>1 DEF AreasAgree, AreasOf, UnusedSlots
<1> QED BY <1>4, <1>5, <1>6, <1>7, <1>8, <1>9 DEF LibraryInv

LEMMA PoliteThreadsSafe == PoliteSpec => [](ThreadsInv /\ LookupFindsOwnSlot)
  BY PoliteIsSpec, ThreadsSafe, LookupCorrect, PTL

LEMMA LibrarySafe == PoliteSpec => [](ThreadsInv /\ LibraryInv)
<1>1. /\ ThreadsInv /\ LookupFindsOwnSlot /\ LibraryInv /\ [PoliteNext]_vars
      /\ (ThreadsInv /\ LookupFindsOwnSlot)'
      => LibraryInv'
  BY PoliteKept
<1> QED BY <1>1, LibraryInit, PoliteThreadsSafe, PTL DEF PoliteSpec

-------------------------------------------------------------------------------
(***************************************************************************)
(* The state of the library, and with it that of the kernel, keeps its     *)
(* type: the table is never overrun and the count of threads never         *)
(* negative (gthread.c:23, 36-60, 176-190).                                *)
(***************************************************************************)
THEOREM LibraryTypeCorrect == PoliteSpec => []TypeOK
<1>1. LibraryInv => TypeOK
  BY DEF LibraryInv
<1> QED BY <1>1, LibrarySafe, PTL

(***************************************************************************)
(* Whenever the timer ticks and whichever thread wakes the process,        *)
(* gthread_join leaves its loop only when the thread it was called for has *)
(* died or made the stores of gthread_exit (gthread.c:87-88, 113-162).     *)
(***************************************************************************)
THEOREM JoinEndsCorrect == PoliteSpec => []JoinEndsAfterStores
<1>1. ThreadsInv /\ LibraryInv => JoinEndsAfterStores
  <2>1. SUFFICES ASSUME ThreadsInv, LibraryInv, main.at = "done", NEW p \in User, Alive(p), job[p] = main.thread
                 PROVE  exiting[p] # "running"
    BY DEF JoinEndsAfterStores
  <2>2. main.thread \in Joinable /\ Past(entry[tidOf[main.thread]].pid)
    BY <2>1 DEF LibraryInv, JoinInv, Joining, WaitIsOver
  <2>3. p # Main /\ ~ Cloning(p) /\ p \notin Overtaken
    BY <2>1, <2>2 DEF ThreadsInv, OwnSlots, Alive, Cloning, Overtaken, Joinable
  <2>4. PICK i \in Taken : entry[i].pid = p /\ entry[i].thread = job[p]
    BY <2>1, <2>3, LivingHasEntry
  <2>5. tidOf[main.thread] = i
    BY <2>1, <2>4 DEF LibraryInv, EntriesInv
  <2> QED BY <2>1, <2>2, <2>4, <2>5 DEF Past, Alive
<1> QED BY <1>1, LibrarySafe, PTL

(***************************************************************************)
(* gthread_join returns what the thread gave to gthread_exit, or NULL      *)
(* after a fault (gthread.c:57-58, 87, 190).                               *)
(***************************************************************************)
THEOREM JoinResultCorrect == PoliteSpec => []JoinReturnsResult
<1>1. LibraryInv => JoinReturnsResult
  BY DEF LibraryInv, NumbersInv
<1> QED BY <1>1, LibrarySafe, PTL

(***************************************************************************)
(* The count is that of the entries in use, and every living thread that   *)
(* was not overtaken has just one (gthread.c:23, 44-60, 176-183).          *)
(***************************************************************************)
THEOREM EntriesCorrect == PoliteSpec => []EntriesAgree
<1>1. ThreadsInv /\ LibraryInv => EntriesAgree
  <2>1. SUFFICES ASSUME ThreadsInv, LibraryInv PROVE EntriesAgree
    OBVIOUS
  <2>2. num = Cardinality({i \in Slot : entry[i].status # "UNUSED"})
    BY <2>1 DEF LibraryInv, EntriesInv, Taken
  <2>3. ASSUME NEW p \in User, Alive(p), ~ (main.at = "cloned" /\ main.pid = p), p \notin Overtaken
        PROVE  Cardinality({i \in Slot : entry[i].pid = p /\ entry[i].thread = job[p]
                                          /\ (entry[i].status = "ALIVE" <=> exiting[p] # "used")}) = 1
    <3> DEFINE S == {i \in Slot : entry[i].pid = p /\ entry[i].thread = job[p]
                                  /\ (entry[i].status = "ALIVE" <=> exiting[p] # "used")}
    <3>1. p # Main /\ ~ Cloning(p)
      BY <2>1, <2>3 DEF ThreadsInv, OwnSlots, Alive, Cloning
    <3>2. PICK i \in Taken : /\ i \in Slot /\ entry[i].pid = p /\ entry[i].thread = job[p]
                             /\ \A k \in Slot : entry[k].pid = p => k = i
                             /\ entry[i].status = "USED" <=> exiting[p] = "used"
      BY <2>1, <2>3, <3>1, LivingHasEntry
    <3>3. entry[i].status \in {"ALIVE", "USED"}
      BY <2>1, <3>2 DEF LibraryInv, TypeOK, Entry, Taken
    <3>4. S = {i}
      BY <3>2, <3>3
    <3> QED BY <3>4, FS_Singleton
  <2> QED BY <2>2, <2>3 DEF EntriesAgree
<1> QED BY <1>1, LibrarySafe, PTL

(***************************************************************************)
(* A thread that runs has an entry, of its own number, until gthread_exit  *)
(* has marked it or it was overtaken (gthread.c:36-62).                    *)
(***************************************************************************)
THEOREM RegisteredCorrect == PoliteSpec => []RunsRegistered
<1>1. ThreadsInv /\ LibraryInv => RunsRegistered
  <2>1. SUFFICES ASSUME ThreadsInv, LibraryInv, isThread[current], exiting[current] # "used",
                        current \notin Overtaken
                 PROVE  EntriesOfThread(current) # {} /\ entry[OwnEntry(current)].thread = job[current]
    BY DEF RunsRegistered
  <2>2. current \in User /\ ThreadRuns(current)
    BY <2>1 DEF ThreadsInv, ThreadsTypeOK, SchedulerTypeOK, OwnSlots, OneOnProcessor, User, ThreadRuns, Runs
  <2>3. job[current] \in stacks
    BY <2>1, <2>2, StackUnlessOvertaken
  <2> QED BY <2>1, <2>2, <2>3, RunningThread
<1> QED BY <1>1, LibrarySafe, PTL

(***************************************************************************)
(* With room in the table of the library, and no thread overtaken, the     *)
(* kernel has a context and a slot for one more thread: every context and  *)
(* every slot in use belongs to an entry in use (gthread.c:23, 36;         *)
(* clone_threads.c:15, 28-33; helper.c:224-228).                           *)
(***************************************************************************)
THEOREM CloneCorrect == PoliteSpec => []CloneSucceeds
<1>1. ThreadsInv /\ LibraryInv => CloneSucceeds
  <2>1. SUFFICES ASSUME ThreadsInv, LibraryInv, main.at = "idle", num # MaxThreads, MaxProcesses >= MaxThreads + 2,
                        Overtaken = {}
                 PROVE  UnusedContexts # {} /\ UnusedSlots # {}
    BY DEF CloneSucceeds
  <2>2. /\ MaxThreads \in Nat /\ MaxProcesses \in Nat /\ Taken \subseteq Slot
        /\ IsFiniteSet(Taken) /\ Cardinality(Taken) = num /\ num < MaxThreads
    <3>1. num \in 0 .. MaxThreads /\ num = Cardinality(Taken)
      BY <2>1 DEF LibraryInv, TypeOK, EntriesInv
    <3> QED BY <2>1, <3>1, TakenFinite, ThreadsAssumption, SchedulerAssumption DEF Taken
  <2>3. \A p \in User \ {Main} : state[p] # "UNUSED" => \E i \in Taken : entry[i].pid = p
    BY <2>1 DEF LibraryInv, ContextsInv, Cloning, Left, Overtaken
  <2>4. UnusedContexts # {}
    <3>1. SUFFICES ASSUME UnusedContexts = {} PROVE FALSE
      OBVIOUS
    <3> DEFINE S == 2 .. MaxProcesses - 1
               f == [p \in S |-> CHOOSE i \in Taken : entry[i].pid = p]
    <3>2. /\ S \subseteq User \ {Main}
          /\ IsFiniteSet(S)
          /\ Cardinality(S) = MaxProcesses - 2
      <4>1. MaxThreads >= 1 /\ 2 \in Int /\ MaxProcesses - 1 \in Int /\ ~ 2 > MaxProcesses - 1
        BY <2>1, <2>2, ThreadsAssumption
      <4>2. IsFiniteSet(S) /\ Cardinality(S) = (MaxProcesses - 1) - 2 + 1
        BY <4>1, FS_Interval
      <4>3. Cardinality(S) = MaxProcesses - 2
        BY <2>2, <4>2
      <4>4. S \subseteq User \ {Main}
        BY <2>2 DEF User, Pid, Swapper, Main
      <4> QED BY <4>2, <4>3, <4>4
    <3>3. \A p \in S : \E i \in Taken : entry[i].pid = p
      BY <2>3, <3>1, <3>2 DEF UnusedContexts, User
    <3> HIDE DEF S
    <3>4. \A p \in S : f[p] \in Taken /\ entry[f[p]].pid = p
      BY <3>3
    <3>5. f \in [S -> Taken]
      BY <3>4
    <3>6. Cardinality(Taken) < Cardinality(S)
      <4>1. num \in Nat
        BY <2>1 DEF LibraryInv, TypeOK
      <4> QED BY <2>1, <2>2, <3>2, <4>1
    <3> HIDE DEF f
    <3>7. \E p, q \in S : p # q /\ f[p] = f[q]
      BY <2>2, <3>2, <3>5, <3>6, FS_PigeonHole
    <3> QED BY <3>4, <3>7
  <2>5. UnusedSlots # {}
    <3>1. SUFFICES ASSUME UnusedSlots = {} PROVE FALSE
      OBVIOUS
    <3> DEFINE f == [k \in Slot |-> CHOOSE i \in Taken : entry[i].pid = slots[k].pid]
    <3>2. \A k \in Slot : InUse(k) /\ Alive(slots[k].pid) /\ slots[k].pid \in User \ {Main}
      <4>1. \A k \in Slot : InUse(k) /\ slots[k].pid \in Pid
        BY <2>1, <3>1 DEF UnusedSlots, InUse, ThreadsInv, ThreadsTypeOK
      <4> QED BY <2>1, <4>1 DEF ThreadsInv, OwnSlots, Alive, User
    <3>3. \A k \in Slot : \E i \in Taken : entry[i].pid = slots[k].pid
      BY <2>3, <3>2 DEF Alive
    <3>4. \A k \in Slot : f[k] \in Taken /\ entry[f[k]].pid = slots[k].pid
      BY <3>3
    <3>5. f \in [Slot -> Taken]
      BY <3>4
    <3> HIDE DEF f
    <3>6. Cardinality(Taken) < Cardinality(Slot) /\ IsFiniteSet(Slot)
      BY <2>2, TakenFinite
    <3>7. \E j, k \in Slot : j # k /\ f[j] = f[k]
      BY <2>2, <3>5, <3>6, FS_PigeonHole
    <3>8. PICK j \in Slot, k \in Slot : j # k /\ f[j] = f[k]
      BY <3>7
    <3>9. slots[j].pid = slots[k].pid
      BY <3>4, <3>8
    <3> QED BY <2>1, <3>2, <3>8, <3>9 DEF ThreadsInv, OwnSlots
  <2> QED BY <2>4, <2>5
<1> QED BY <1>1, LibrarySafe, PTL

(***************************************************************************)
(* The library and the kernel agree on the private areas of each thread    *)
(* (gthread.c:186-188, 240-260, 293-311; helper.c:61-67).                  *)
(***************************************************************************)
THEOREM AreasCorrect == PoliteSpec => []AreasAgree
<1>1. LibraryInv => AreasAgree
  BY DEF LibraryInv
<1> QED BY <1>1, LibrarySafe, PTL

(***************************************************************************)
(* When the process has exited, no stack is left in use, and, if it        *)
(* overtook no thread, no context and no slot (gthread.c:94-191;           *)
(* helper.c:51-93).                                                        *)
(***************************************************************************)
THEOREM NothingLeftCorrect == PoliteSpec => []NothingLeft
<1>1. LibraryInv => NothingLeft
  BY DEF LibraryInv, ExitedInv, NothingLeft
<1> QED BY <1>1, LibrarySafe, PTL
================================================================================
