------------------------------- MODULE Scheduler -------------------------------
(***************************************************************************)
(* The scheduler of gemOS (schedule.c): round robin over an array of       *)
(* execution contexts, sleeping by timer ticks, and pid 0, the swapper,    *)
(* as the process that runs when no other can.                             *)
(*                                                                         *)
(* There is one processor, and interrupts are on only in user mode and in  *)
(* the swapper: a system call or a trap is one step, a timer tick comes    *)
(* between two steps.  No program modelled here calls alarm(), so          *)
(* ticks_to_alarm stays 0 and SIGALRM is left out.                         *)
(***************************************************************************)
EXTENDS Integers, FiniteSets

CONSTANT MaxProcesses   \* MAX_PROCESSES, the swapper included

ASSUME SchedulerAssumption == MaxProcesses \in Nat \ {0, 1}

VARIABLES state,          \* the state of each context
          ticksToSleep,   \* ticks until a sleeping process wakes
          current         \* the context that has the processor

schedVars == <<state, ticksToSleep, current>>

ProcessState == {"UNUSED", "NEW", "READY", "RUNNING", "WAITING", "EXITING"}

Swapper == 0
Pid     == 0 .. (MaxProcesses - 1)
User    == Pid \ {Swapper}

SchedulerTypeOK ==
  /\ state \in [Pid -> ProcessState]
  /\ ticksToSleep \in [Pid -> Nat]
  /\ current \in Pid

(***************************************************************************)
(* pick_next_context, turn by turn: the search of process p goes from one  *)
(* pid to the next, wraps around behind the last one, and gives up, with   *)
(* pid 0, after p itself.                                                  *)
(***************************************************************************)
FirstPid(p) == IF p + 1 = MaxProcesses THEN 1 ELSE p + 1
\* Mutant: the search that leaves the end of the array gives up.
NoWrap(p, pid) == IF pid + 1 \in {p + 1, MaxProcesses} THEN Swapper ELSE pid + 1
NextPid(p, pid) ==
  IF pid + 1 = p + 1 THEN Swapper
  ELSE IF pid + 1 # MaxProcesses THEN pid + 1
  ELSE IF p = Swapper THEN Swapper ELSE 1

PickByLoop(st, p) ==
  LET search[pid \in Pid] ==
        IF pid = Swapper \/ st[pid] = "READY" THEN pid ELSE search[NextPid(p, pid)]
  IN  search[FirstPid(p)]

(***************************************************************************)
(* The same in closed form: how many turns the search of p takes to come   *)
(* to q, and the ready process it comes to first.  The process itself is   *)
(* the last one it looks at; with none ready it is the swapper's turn.     *)
(***************************************************************************)
\* Mutant: every search starts with the first process.
FromFirst(p, q) == q
Turns(p, q)     == (q - p - 1) % (MaxProcesses - 1)
ReadyUsers(st)  == {q \in User : st[q] = "READY"}
NearestOf(p, S) == CHOOSE q \in S : \A r \in S : Turns(p, q) <= Turns(p, r)
PickNext(st, p) == IF ReadyUsers(st) = {} THEN Swapper ELSE NearestOf(p, ReadyUsers(st))

\* schedule: context q, in the states st of the others, gets the processor.
Schedule(st, q) ==
  /\ current' = q
  /\ state' = [st EXCEPT ![q] = "RUNNING"]

\* do_sleep_and_alarm_account; mutants: every waiting process is taken to
\* sleep; the process that loses the processor keeps its state.
Waits(p)    == state[p] = "WAITING"
Sleeping(p) == state[p] = "WAITING" /\ ticksToSleep[p] > 0
Account ==
  /\ ticksToSleep' = [p \in Pid |-> IF Sleeping(p) THEN ticksToSleep[p] - 1 ELSE ticksToSleep[p]]
Woken(p) == Sleeping(p) /\ ticksToSleep[p] = 1
OnlyWoken == [p \in Pid |-> IF Woken(p) THEN "READY" ELSE state[p]]
AfterTick == [p \in Pid |-> IF Woken(p) \/ p = current THEN "READY" ELSE state[p]]

(***************************************************************************)
(* handle_timer_tick.  A process that stays on the processor because no    *)
(* other is ready goes on in state READY.                                  *)
(***************************************************************************)
Tick ==
  /\ Account
  /\ LET next == PickNext(AfterTick, current) IN
     IF next = current
       THEN state' = AfterTick /\ UNCHANGED current
       ELSE Schedule(AfterTick, next)

\* do_sleep, in entry_helpers.o.
Sleep(p, ticks) ==
  /\ current = p
  /\ ticksToSleep' = [ticksToSleep EXCEPT ![p] = ticks]
  /\ LET st == [state EXCEPT ![p] = "WAITING"] IN Schedule(st, PickNext(st, p))

\* The exit of p in do_exit: its context is free, the next process runs.
Leave(st, p) == LET s == [st EXCEPT ![p] = "UNUSED"] IN Schedule(s, PickNext(s, p))

\* do_cleanup stops the machine when only the swapper is left.
Halted == \A p \in User : state[p] = "UNUSED"

(***************************************************************************)
(* The search reaches every process from every other one: it ends at the   *)
(* ready process that is nearest in turn, the searching process last, and  *)
(* at the swapper only when no process is ready (schedule.c:15-34).        *)
(***************************************************************************)
PicksNearestReady == \A p \in Pid : PickByLoop(state, p) = PickNext(state, p)

(***************************************************************************)
(* One context at a time has the processor, and it is one that may run:    *)
(* RUNNING, or READY when a tick found nothing else to run                 *)
(* (schedule.c:113-122).                                                   *)
(***************************************************************************)
OneOnProcessor ==
  \A p \in Pid : /\ state[p] = "RUNNING" => current = p
                 /\ current = p => state[p] \in {"RUNNING", "READY"}
================================================================================
