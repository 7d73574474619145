---------------------------- MODULE DebuggerProofs -----------------------------
(***************************************************************************)
(* The processor is handed between debugger and debuggee, for any number   *)
(* of processes, functions and breakpoints.                                *)
(***************************************************************************)
EXTENDS Debugger, SchedulerProofs, FiniteSetTheorems, SequenceTheorems

(***************************************************************************)
(* The inductive invariant.  That exactly one of the two waits for the     *)
(* other rests on three facts: a process that is awake has no ticks left   *)
(* (else a waiting one would seem to sleep), the second context is in use  *)
(* just while there is a debuggee, and one process has the processor.      *)
(***************************************************************************)
HandInv ==
  /\ SchedulerTypeOK /\ OneOnProcessor
  /\ isDebugger \in BOOLEAN
  /\ AwakeHasNoTicks
  /\ state[Swapper] # "WAITING"
  /\ state[Debuggee] # "UNUSED" <=> Debugging
  /\ HandOver

LEMMA Pids ==
  /\ Swapper \in Pid /\ Debugger \in Pid /\ Debuggee \in Pid /\ Debugger \in User /\ Debuggee \in User
  /\ Debugger # Debuggee /\ Swapper # Debugger /\ Swapper # Debuggee
  /\ NotForked # Debuggee /\ NoChild # Debuggee
BY DebuggerAssumption, SchedulerAssumption DEF Pid, User, Swapper, Debugger, Debuggee, NotForked, NoChild

\* A process that runs is awake, the only one that runs, and has no ticks left.
LEMMA RunnerAwake ==
  ASSUME HandInv, NEW p \in Pid, Runs(p)
  PROVE  /\ current = p /\ state[p] \in {"RUNNING", "READY"} /\ ticksToSleep[p] = 0
         /\ ~ StandsBy(p)
         /\ \A q \in Pid \ {p} : state[q] # "RUNNING"
BY DEF HandInv, Runs, OneOnProcessor, AwakeHasNoTicks, StandsBy

LEMMA InitHand == Init => HandInv
<1> SUFFICES ASSUME Init PROVE HandInv
  OBVIOUS
<1>1. /\ state \in [Pid -> ProcessState] /\ ticksToSleep \in [Pid -> Nat] /\ current = Debugger
      /\ \A p \in Pid : ticksToSleep[p] = 0
      /\ \A p \in Pid : state[p] = IF p = Debugger THEN "RUNNING" ELSE IF p = Swapper THEN "READY" ELSE "UNUSED"
      /\ ~ isDebugger
  BY DEF Init, ProcessState
<1>2. SchedulerTypeOK /\ OneOnProcessor
  BY <1>1, Pids DEF SchedulerTypeOK, OneOnProcessor
<1>3. isDebugger \in BOOLEAN
  BY DEF Init
<1> QED BY <1>1, <1>2, <1>3, Pids DEF HandInv, AwakeHasNoTicks, Debugging, HandOver

\* Steps that change neither the states nor who is the debuggee.
LEMMA QuietKeeps ==
  ASSUME HandInv, UNCHANGED <<schedVars, isDebugger>>, Debugging' <=> Debugging
  PROVE  HandInv'
<1>1. UNCHANGED state /\ UNCHANGED ticksToSleep /\ UNCHANGED current /\ UNCHANGED isDebugger
  BY DEF schedVars
<1> QED BY <1>1 DEF HandInv, SchedulerTypeOK, OneOnProcessor, AwakeHasNoTicks, HandOver, StandsBy

LEMMA BecomeKeeps == ASSUME HandInv, BecomeDebugger PROVE HandInv'
<1>1. UNCHANGED state /\ UNCHANGED ticksToSleep /\ UNCHANGED current /\ ~ isDebugger /\ isDebugger' = TRUE
      /\ cpid' # Debuggee
  BY Pids DEF BecomeDebugger, schedVars
<1>2. ~ Debugging /\ ~ Debugging'
  BY <1>1 DEF Debugging
<1> QED BY <1>1, <1>2 DEF HandInv, SchedulerTypeOK, OneOnProcessor, AwakeHasNoTicks, HandOver

\* do_fork with debugger_on_fork: the child waits, the debugger runs.
LEMMA ForkKeeps == ASSUME HandInv, Fork PROVE HandInv'
<1>1. Runs(Debugger) /\ isDebugger /\ cpid' = Debuggee /\ isDebugger' = isDebugger /\ current' = current
  BY DEF Fork, Debugs
<1>2. ticksToSleep[Debugger] = 0 /\ current = Debugger /\ state[Debugger] \in {"RUNNING", "READY"}
  BY <1>1, RunnerAwake, Pids
<1>3. /\ state' = [state EXCEPT ![Debuggee] = "WAITING"]
      /\ ticksToSleep' = [ticksToSleep EXCEPT ![Debuggee] = 0]
  BY <1>2 DEF Fork, ChildState
<1>4. /\ \A p \in Pid : state'[p] = IF p = Debuggee THEN "WAITING" ELSE state[p]
      /\ \A p \in Pid : ticksToSleep'[p] = IF p = Debuggee THEN 0 ELSE ticksToSleep[p]
      /\ state' \in [Pid -> ProcessState] /\ ticksToSleep' \in [Pid -> Nat]
  BY <1>3 DEF HandInv, SchedulerTypeOK, ProcessState
<1>5. SchedulerTypeOK' /\ OneOnProcessor'
  BY <1>1, <1>2, <1>4, Pids DEF HandInv, SchedulerTypeOK, OneOnProcessor
<1>6. StandsBy(Debuggee)' /\ ~ StandsBy(Debugger)' /\ Debugging'
  BY <1>1, <1>2, <1>4, Pids DEF StandsBy, Debugging
<1> QED BY <1>1, <1>4, <1>5, <1>6, Pids DEF HandInv, AwakeHasNoTicks, HandOver

\* do_wait_and_continue: the debugger waits, the debuggee runs.
LEMMA WaitKeeps == ASSUME HandInv, WaitAndContinue PROVE HandInv'
<1>1. Runs(Debugger) /\ isDebugger /\ isDebugger' = isDebugger /\ cpid' = cpid
  BY DEF WaitAndContinue, Debugs
<1>2. CASE cpid = NoChild
  <2>1. UNCHANGED schedVars /\ (Debugging' <=> Debugging)
    BY <1>1, <1>2, Pids DEF WaitAndContinue, Debugging
  <2> QED BY <1>1, <2>1, QuietKeeps
<1>3. CASE cpid = Debuggee
  <2> DEFINE st == [state EXCEPT ![Debugger] = "WAITING"]
  <2>1. Schedule(st, Debuggee) /\ ticksToSleep' = ticksToSleep
    BY <1>3, Pids DEF WaitAndContinue
  <2>2. Debugging /\ Debugging' /\ ticksToSleep[Debugger] = 0 /\ ~ StandsBy(Debugger)
    BY <1>1, <1>3, RunnerAwake, Pids DEF Debugging
  <2>3. StandsBy(Debuggee) /\ ticksToSleep[Debuggee] = 0
    BY <2>2 DEF HandInv, HandOver, StandsBy
  <2>4. /\ st \in [Pid -> ProcessState] /\ \A p \in Pid : st[p] = IF p = Debugger THEN "WAITING" ELSE state[p]
        /\ \A p \in Pid : st[p] # "RUNNING"
    BY <1>1, RunnerAwake, Pids DEF HandInv, SchedulerTypeOK, ProcessState
  <2> HIDE DEF st
  <2>5. /\ state' \in [Pid -> ProcessState] /\ current' \in Pid /\ OneOnProcessor'
        /\ state' = [st EXCEPT ![Debuggee] = "RUNNING"]
    BY <2>1, <2>4, ScheduleKeeps, Pids
  <2>6. \A p \in Pid : state'[p] = IF p = Debuggee THEN "RUNNING" ELSE IF p = Debugger THEN "WAITING" ELSE state[p]
    BY <2>4, <2>5
  <2>7. StandsBy(Debugger)' /\ ~ StandsBy(Debuggee)'
    BY <2>1, <2>2, <2>6, Pids DEF StandsBy
  <2>8. SchedulerTypeOK' /\ AwakeHasNoTicks' /\ state'[Swapper] # "WAITING"
    BY <2>1, <2>2, <2>3, <2>5, <2>6, Pids DEF HandInv, SchedulerTypeOK, AwakeHasNoTicks
  <2> QED BY <1>1, <2>2, <2>5, <2>6, <2>7, <2>8, Pids DEF HandInv, HandOver
<1> QED BY <1>2, <1>3 DEF WaitAndContinue

\* do_sleep, by either of the two.
LEMMA SleepKeeps ==
  ASSUME HandInv, NEW p \in {Debugger, Debuggee}, NEW ticks \in 1 .. MaxSleep,
         Runs(p), Sleep(p, ticks), UNCHANGED <<isDebugger, cpid>>
  PROVE  HandInv'
<1> DEFINE st == [state EXCEPT ![p] = "WAITING"]
<1>1. p \in Pid /\ p # Swapper /\ p \in User /\ ticks \in Nat /\ ticks # 0
  BY Pids, DebuggerAssumption
<1>2. /\ st \in [Pid -> ProcessState] /\ \A q \in Pid : st[q] = IF q = p THEN "WAITING" ELSE state[q]
      /\ \A q \in Pid : st[q] # "RUNNING"
  BY <1>1, RunnerAwake DEF HandInv, SchedulerTypeOK, ProcessState
<1>3. Schedule(st, PickNext(st, p)) /\ ticksToSleep' = [ticksToSleep EXCEPT ![p] = ticks]
  BY DEF Sleep
<1> HIDE DEF st
<1>4. /\ state' \in [Pid -> ProcessState] /\ current' \in Pid /\ OneOnProcessor'
      /\ \A q \in Pid : \/ state'[q] = st[q]
                        \/ (st[q] = "READY" \/ q = Swapper) /\ state'[q] = "RUNNING"
  BY <1>1, <1>2, <1>3, SchedulePick
<1>5. /\ ticksToSleep' \in [Pid -> Nat]
      /\ \A q \in Pid : ticksToSleep'[q] = IF q = p THEN ticks ELSE ticksToSleep[q]
  BY <1>1, <1>3 DEF HandInv, SchedulerTypeOK
<1>6. /\ state'[p] = "WAITING" /\ ~ StandsBy(p) /\ ~ StandsBy(p)'
      /\ \A q \in User \ {p} : StandsBy(q)' <=> StandsBy(q)
  BY <1>1, <1>2, <1>4, <1>5, RunnerAwake DEF StandsBy, User
<1>7. Debugging' <=> Debugging
  BY DEF Debugging
<1>8. HandOver'
  BY <1>6, <1>7, Pids DEF HandInv, HandOver
<1>9. state[Debuggee] # "UNUSED" <=> state'[Debuggee] # "UNUSED"
  BY <1>1, <1>2, <1>4, RunnerAwake, Pids
<1>10. AwakeHasNoTicks' /\ state'[Swapper] # "WAITING"
  BY <1>1, <1>2, <1>4, <1>5, <1>6, Pids DEF HandInv, AwakeHasNoTicks
<1> QED BY <1>4, <1>5, <1>7, <1>8, <1>9, <1>10 DEF HandInv, SchedulerTypeOK

\* do_exit of the debugger, without a debuggee.
LEMMA DebuggerExitKeeps == ASSUME HandInv, DebuggerExits PROVE HandInv'
<1> DEFINE st == [state EXCEPT ![Debugger] = "UNUSED"]
<1>1. Runs(Debugger) /\ cpid # Debuggee /\ cpid' = cpid /\ isDebugger' = FALSE /\ ticksToSleep' = ticksToSleep
  BY DEF DebuggerExits, Debugs
<1>2. Schedule(st, PickNext(st, Debugger))
  BY DEF DebuggerExits, Leave
<1>3. /\ st \in [Pid -> ProcessState] /\ \A q \in Pid : st[q] = IF q = Debugger THEN "UNUSED" ELSE state[q]
      /\ \A q \in Pid : st[q] # "RUNNING"
  BY <1>1, RunnerAwake, Pids DEF HandInv, SchedulerTypeOK, ProcessState
<1> HIDE DEF st
<1>4. /\ state' \in [Pid -> ProcessState] /\ current' \in Pid /\ OneOnProcessor'
      /\ \A q \in Pid : \/ state'[q] = st[q]
                        \/ (st[q] = "READY" \/ q = Swapper) /\ state'[q] = "RUNNING"
  BY <1>2, <1>3, SchedulePick, Pids
<1>5. ~ Debugging /\ ~ Debugging'
  BY <1>1 DEF Debugging
<1>6. ticksToSleep[Debugger] = 0
  BY <1>1, RunnerAwake, Pids
<1>7. AwakeHasNoTicks' /\ state'[Swapper] # "WAITING" /\ state'[Debuggee] = "UNUSED"
  BY <1>1, <1>3, <1>4, <1>5, <1>6, Pids DEF HandInv, AwakeHasNoTicks
<1> QED BY <1>1, <1>4, <1>5, <1>7 DEF HandInv, SchedulerTypeOK, HandOver

LEMMA DebuggerGone == ASSUME HandInv, DebuggerExits PROVE state'[Debugger] = "UNUSED"
<1> DEFINE st == [state EXCEPT ![Debugger] = "UNUSED"]
<1>1. Runs(Debugger) /\ Schedule(st, PickNext(st, Debugger))
  BY DEF DebuggerExits, Debugs, Leave
<1>2. /\ st \in [Pid -> ProcessState] /\ st[Debugger] = "UNUSED"
      /\ \A q \in Pid : st[q] # "RUNNING"
  BY <1>1, RunnerAwake, Pids DEF HandInv, SchedulerTypeOK, ProcessState
<1> HIDE DEF st
<1> QED BY <1>1, <1>2, SchedulePick, Pids

\* While the debuggee runs, the debugger waits for it.
LEMMA DebuggeeRuns ==
  ASSUME HandInv, Runs(Debuggee)
  PROVE  Debugging /\ StandsBy(Debugger) /\ ticksToSleep[Debugger] = 0
BY RunnerAwake, Pids DEF HandInv, HandOver, Runs, StandsBy

\* int3_handler hands over to the debugger.
LEMMA StopKeeps ==
  ASSUME HandInv, Runs(Debuggee), NEW entry, NEW fr, NEW cs, Stop(entry, fr, cs),
         UNCHANGED <<ticksToSleep, isDebugger, cpid>>
  PROVE  HandInv'
<1> DEFINE st == [DebuggerAwake(state) EXCEPT ![Debuggee] = "WAITING"]
<1>1. Schedule(st, Debugger)
  BY DEF Stop
<1>2. /\ st \in [Pid -> ProcessState]
      /\ \A p \in Pid : st[p] = IF p = Debuggee THEN "WAITING" ELSE IF p = Debugger THEN "READY" ELSE state[p]
      /\ \A p \in Pid : st[p] # "RUNNING"
  BY RunnerAwake, Pids DEF HandInv, SchedulerTypeOK, ProcessState, DebuggerAwake
<1> HIDE DEF st
<1>3. /\ state' \in [Pid -> ProcessState] /\ current' \in Pid /\ OneOnProcessor'
      /\ state' = [st EXCEPT ![Debugger] = "RUNNING"]
  BY <1>1, <1>2, ScheduleKeeps, Pids
<1>4. \A p \in Pid : state'[p] = IF p = Debugger THEN "RUNNING" ELSE IF p = Debuggee THEN "WAITING" ELSE state[p]
  BY <1>2, <1>3, Pids
<1>5. Debugging /\ ticksToSleep[Debugger] = 0 /\ ticksToSleep[Debuggee] = 0
  BY DebuggeeRuns, RunnerAwake, Pids
<1>6. Debugging' /\ StandsBy(Debuggee)' /\ ~ StandsBy(Debugger)'
  BY <1>4, <1>5, Pids DEF Debugging, StandsBy
<1>7. SchedulerTypeOK' /\ AwakeHasNoTicks' /\ state'[Swapper] # "WAITING"
  BY <1>3, <1>4, <1>5, Pids DEF HandInv, SchedulerTypeOK, AwakeHasNoTicks
<1> QED BY <1>3, <1>4, <1>6, <1>7, Pids DEF HandInv, HandOver

\* debugger_on_exit of the debuggee makes the debugger ready.
LEMMA DebuggeeExitKeeps == ASSUME HandInv, DebuggeeExits PROVE HandInv'
<1> DEFINE st == [DebuggerAwake(state) EXCEPT ![Debuggee] = "UNUSED"]
<1>1. Runs(Debuggee) /\ cpid' = NoChild /\ isDebugger' = isDebugger /\ ticksToSleep' = ticksToSleep
  BY DEF DebuggeeExits, Debugged, DebuggeeLeaves
<1>2. Schedule(st, PickNext(st, Debuggee))
  BY DEF DebuggeeExits, DebuggeeLeaves, Leave
<1>3. /\ st \in [Pid -> ProcessState]
      /\ \A p \in Pid : st[p] = IF p = Debuggee THEN "UNUSED" ELSE IF p = Debugger THEN "READY" ELSE state[p]
      /\ \A p \in Pid : st[p] # "RUNNING"
  BY <1>1, RunnerAwake, Pids DEF HandInv, SchedulerTypeOK, ProcessState, DebuggerAwake
<1> HIDE DEF st
<1>4. /\ state' \in [Pid -> ProcessState] /\ current' \in Pid /\ OneOnProcessor'
      /\ \A q \in Pid : \/ state'[q] = st[q]
                        \/ (st[q] = "READY" \/ q = Swapper) /\ state'[q] = "RUNNING"
  BY <1>2, <1>3, SchedulePick, Pids
<1>5. ~ Debugging'
  BY <1>1, Pids DEF Debugging
<1>6. ticksToSleep[Debugger] = 0 /\ ticksToSleep[Debuggee] = 0
  BY <1>1, DebuggeeRuns, RunnerAwake, Pids
<1>7. AwakeHasNoTicks' /\ state'[Swapper] # "WAITING" /\ state'[Debuggee] = "UNUSED"
  BY <1>1, <1>3, <1>4, <1>6, Pids DEF HandInv, AwakeHasNoTicks
<1> QED BY <1>1, <1>4, <1>5, <1>7 DEF HandInv, SchedulerTypeOK, HandOver

\* A tick wakes sleepers, never one that stands by.
LEMMA TimerStands ==
  ASSUME HandInv, TimerTick, NEW p \in User
  PROVE  /\ StandsBy(p)' <=> StandsBy(p)
         /\ state[p] = "UNUSED" <=> state'[p] = "UNUSED"
<1>1. Account /\ SchedulerTypeOK /\ OneOnProcessor /\ Tick /\ p \in Pid
  BY DEF TimerTick, Tick, HandInv, User
<1>2. /\ state'[p] \in {state[p], "READY", "RUNNING"}
      /\ ~ (Woken(p) \/ state[p] \in {"READY", "RUNNING"}) => state'[p] = state[p]
      /\ Woken(p) => state'[p] # "WAITING"
      /\ state[p] \in {"READY", "RUNNING"} => state'[p] \in {"READY", "RUNNING"}
  BY <1>1, TickKeeps
<1>3. /\ ticksToSleep'[p] = IF Sleeping(p) THEN ticksToSleep[p] - 1 ELSE ticksToSleep[p]
      /\ ticksToSleep[p] \in Nat
  BY <1>1, AccountType DEF SchedulerTypeOK
<1>4. CASE StandsBy(p)
  BY <1>2, <1>3, <1>4 DEF StandsBy, Woken, Sleeping
<1>5. CASE ~ StandsBy(p)
  BY <1>2, <1>3, <1>5 DEF StandsBy, Woken, Sleeping
<1> QED BY <1>4, <1>5

LEMMA TimerKeeps == ASSUME HandInv, TimerTick PROVE HandInv'
<1>1. Tick /\ UNCHANGED <<isDebugger, cpid>> /\ Account
  BY DEF TimerTick, Tick, debugVars
<1>2. SchedulerTypeOK /\ OneOnProcessor
  BY DEF HandInv
<1>3. /\ SchedulerTypeOK' /\ OneOnProcessor'
      /\ \A p \in Pid : state'[p] \in {state[p], "READY", "RUNNING"}
      /\ \A p \in Pid : state[p] \in {"READY", "RUNNING"} => state'[p] \in {"READY", "RUNNING"}
      /\ \A p \in User : ~ (Woken(p) \/ state[p] \in {"READY", "RUNNING"}) => state'[p] = state[p]
      /\ \A p \in Pid : Woken(p) => state'[p] # "WAITING"
  BY <1>1, <1>2, TickKeeps
<1>4. \A p \in Pid : /\ ticksToSleep'[p] = IF Sleeping(p) THEN ticksToSleep[p] - 1 ELSE ticksToSleep[p]
                     /\ ticksToSleep[p] \in Nat
  BY <1>1, <1>2, AccountType DEF SchedulerTypeOK
<1>5. \A p \in User : StandsBy(p) <=> StandsBy(p)'
  BY TimerStands
<1>6. Debugging' <=> Debugging
  BY <1>1 DEF Debugging
<1>7. AwakeHasNoTicks'
  <2> SUFFICES ASSUME NEW p \in Pid, state'[p] # "WAITING" PROVE ticksToSleep'[p] = 0
    BY DEF AwakeHasNoTicks
  <2>1. CASE state[p] # "WAITING"
    BY <1>4, <2>1 DEF HandInv, AwakeHasNoTicks, Sleeping
  <2>2. CASE state[p] = "WAITING"
    <3>1. p \in User
      BY <2>2 DEF HandInv, User
    <3>2. Woken(p)
      BY <1>3, <2>2, <3>1
    <3> QED BY <1>4, <3>2 DEF Woken
  <2> QED BY <2>1, <2>2
<1>8. state'[Swapper] # "WAITING" /\ (state[Debuggee] # "UNUSED" <=> state'[Debuggee] # "UNUSED")
  BY <1>3, Pids DEF HandInv, Woken, Sleeping
<1> QED BY <1>1, <1>3, <1>5, <1>6, <1>7, <1>8, Pids DEF HandInv, HandOver

LEMMA CallKeeps == ASSUME HandInv, NEW f \in Func, Call(f) PROVE HandInv'
<1>1. Runs(Debuggee) /\ UNCHANGED <<ticksToSleep, isDebugger, cpid>>
  BY DEF Call, Executes, Debugged
<1>2. CASE HasInt3(f)
  BY <1>1, <1>2, StopKeeps DEF Call, StopAtStart
<1>3. CASE ~ HasInt3(f)
  <2>1. UNCHANGED schedVars /\ (Debugging' <=> Debugging)
    BY <1>1, <1>3 DEF Call, schedVars, Debugging
  <2> QED BY <1>1, <2>1, QuietKeeps
<1> QED BY <1>2, <1>3

LEMMA ReturnKeeps == ASSUME HandInv, Return PROVE HandInv'
<1>1. Runs(Debuggee) /\ UNCHANGED <<ticksToSleep, isDebugger, cpid>>
  BY DEF Return, Executes, Debugged
<1>2. CASE Head(frames).ret = EndHandler
  BY <1>1, <1>2, StopKeeps DEF Return, StopAtEnd
<1>3. CASE Head(frames).ret # EndHandler
  <2>1. UNCHANGED schedVars /\ (Debugging' <=> Debugging)
    BY <1>1, <1>3 DEF Return, schedVars, Debugging
  <2> QED BY <1>1, <2>1, QuietKeeps
<1> QED BY <1>2, <1>3

LEMMA NextHand == ASSUME HandInv, [Next]_vars PROVE HandInv'
<1>1. ASSUME DebuggerStep PROVE HandInv'
  <2>1. ASSUME NEW f \in Func, NEW end \in BOOLEAN, SetBreakpoint(f, end) PROVE HandInv'
    BY <2>1, QuietKeeps DEF SetBreakpoint, Debugging
  <2>2. ASSUME NEW f \in Func, RemoveBreakpoint(f) PROVE HandInv'
    BY <2>2, QuietKeeps DEF RemoveBreakpoint, Debugging
  <2>3. ASSUME NEW ticks \in 1 .. MaxSleep, DebuggerSleeps(ticks) PROVE HandInv'
    BY <2>3, SleepKeeps DEF DebuggerSleeps, Debugs, debugVars
  <2> QED BY <1>1, <2>1, <2>2, <2>3, BecomeKeeps, ForkKeeps, WaitKeeps, DebuggerExitKeeps DEF DebuggerStep
<1>2. ASSUME DebuggeeStep PROVE HandInv'
  <2>1. ASSUME NEW ticks \in 1 .. MaxSleep, DebuggeeSleeps(ticks) PROVE HandInv'
    BY <2>1, SleepKeeps DEF DebuggeeSleeps, Executes, Debugged, debugVars
  <2> QED BY <1>2, <2>1, CallKeeps, ReturnKeeps, DebuggeeExitKeeps DEF DebuggeeStep
<1>3. ASSUME UNCHANGED vars PROVE HandInv'
  BY <1>3, QuietKeeps DEF vars, debugVars, Debugging
<1> QED BY <1>1, <1>2, <1>3, TimerKeeps DEF Next, Stopped

LEMMA HandInvariant == Spec => []HandInv
BY InitHand, NextHand, PTL DEF Spec

(***************************************************************************)
(* While there is a debuggee exactly one of the two waits for the other    *)
(* (debug.c:93-100, 210-214, 239-240, 441-443).                            *)
(***************************************************************************)
THEOREM HandOverCorrect == Spec => []HandOver
<1>1. HandInv => HandOver
  BY DEF HandInv
<1> QED BY <1>1, HandInvariant, PTL

\* One process has the processor, and it may run (schedule.c:75-152).
THEOREM OneRuns == Spec => []OneOnProcessor
<1>1. HandInv => OneOnProcessor
  BY DEF HandInv
<1> QED BY <1>1, HandInvariant, PTL

-------------------------------------------------------------------------------
(***************************************************************************)
(* The breakpoint list and the code: one breakpoint per function, numbered *)
(* upwards, and int3 just where there is one.  A process that is no        *)
(* debugger yet finds the code as the compiler left it.                    *)
(***************************************************************************)
ListInv ==
  /\ isDebugger =>
       /\ breakpointCount = Len(head)
       /\ \A i, j \in DOMAIN head : head[i].addr = head[j].addr => i = j
       /\ \A i, j \in DOMAIN head : i < j => head[i].num < head[j].num
       /\ \A i \in DOMAIN head : head[i].num <= lastId
       /\ \A f \in Func : HasInt3(f) <=> HasBreakpoint(f)
  /\ ~ isDebugger /\ state[Debugger] # "UNUSED" => code = [f \in Code |-> "intact"]

(***************************************************************************)
(* A stop: its function is on top of the call stack.  The function still   *)
(* has its breakpoint, unless it has been removed from under the debuggee, *)
(* which then has destroyed code in front of it.                           *)
(***************************************************************************)
StopInv ==
  AtBreakpoint =>
    /\ callStack # <<>> /\ callStack[1].addr = frames[1].fn
    /\ frames[1].sound => frames[1].fn = EndHandler \/ HasBreakpoint(frames[1].fn)

(***************************************************************************)
(* A function whose return address is replaced has an entry on the call    *)
(* stack, and so neither do_set_breakpoint switches its end off nor        *)
(* do_remove_breakpoint takes its breakpoint away.                         *)
(***************************************************************************)
EndsInv ==
  Debugging =>
    \A i \in DOMAIN frames :
      frames[i].ret = EndHandler =>
        /\ frames[i].fn # EndHandler
        /\ IsOnStack(frames[i].fn) /\ EndEnabled(frames[i].fn)

(***************************************************************************)
(* The stack of the debuggee: it starts with main, end_handler is nowhere  *)
(* but on top, and every frame returns to its caller, with the entries     *)
(* that the call stack will have when the debuggee goes on.  A debuggee    *)
(* with destroyed code in front of it does not return any more, and the    *)
(* call stack may keep an entry too many for it.                           *)
(***************************************************************************)
Coming == IF AtBreakpoint /\ PopsTop THEN Tail(callStack) ELSE callStack
Linked(fr, cs) ==
  /\ fr # <<>>
  /\ fr[Len(fr)] = [fn |-> Main, ret |-> EndAddr, sound |-> TRUE]
  /\ \A i \in 1 .. Len(fr) : fr[i].fn = EndHandler => i = 1 /\ fr[i].ret # EndHandler
  /\ \A i \in 1 .. Len(fr) - 1 : EndsAtCaller(fr, cs, i)
FramesInv == Debugging => frames # <<>> /\ (frames[1].sound => Linked(frames, Coming))

DebugInv == TypeOK /\ HandInv /\ ListInv /\ StopInv /\ EndsInv /\ FramesInv /\ BacktraceIsCallChain

-------------------------------------------------------------------------------
LEMMA Names ==
  /\ Main # EndHandler /\ Main # EndAddr /\ EndHandler # EndAddr
  /\ Main \notin Func /\ EndHandler \notin Func /\ EndAddr \notin Func
<1>1. \A x, y : IsFiniteSet({x, y}) /\ Cardinality({x, y}) \in {1, 2}
  <2> TAKE x, y
  <2>1. IsFiniteSet({x}) /\ Cardinality({x}) = 1
    BY FS_Singleton
  <2>2. {x, y} = {x} \cup {y}
    OBVIOUS
  <2>3. /\ IsFiniteSet({x} \cup {y})
        /\ Cardinality({x} \cup {y}) = IF y \in {x} THEN Cardinality({x}) ELSE Cardinality({x}) + 1
    BY <2>1, FS_AddElement
  <2> QED BY <2>1, <2>2, <2>3
<1>2. /\ Main = EndHandler => {Main, EndHandler, EndAddr} = {EndHandler, EndAddr}
      /\ Main = EndAddr => {Main, EndHandler, EndAddr} = {EndHandler, EndAddr}
      /\ EndHandler = EndAddr => {Main, EndHandler, EndAddr} = {Main, EndAddr}
  OBVIOUS
<1>3. Cardinality({Main, EndHandler, EndAddr}) = 3 /\ {Main, EndHandler, EndAddr} \cap Func = {}
  BY DebuggerAssumption
<1>4. Cardinality({EndHandler, EndAddr}) # 3 /\ Cardinality({Main, EndAddr}) # 3
  <2>1. \A x, y : Cardinality({x, y}) # 3
    BY <1>1
  <2> QED BY <2>1, Zenon
<1>5. Main # EndHandler /\ Main # EndAddr /\ EndHandler # EndAddr
  BY <1>2, <1>3, <1>4, Zenon
<1> QED BY <1>3, <1>5

LEMMA Elements ==
  ASSUME NEW S, NEW s \in Seq(S)
  PROVE  /\ Len(s) \in Nat /\ DOMAIN s = 1 .. Len(s) /\ s # <<>> => Len(s) # 0
         /\ \A i \in 1 .. Len(s) : s[i] \in S
BY LenProperties, ElementOfSeq, EmptySeq

\* t is s with one element more in front.
Extends(t, s) == Len(t) = Len(s) + 1 /\ \A i \in 1 .. Len(s) : t[i + 1] = s[i]

LEMMA Pushed ==
  ASSUME NEW S, NEW x \in S, NEW s \in Seq(S)
  PROVE  LET t == <<x>> \o s
         IN  /\ t \in Seq(S) /\ t # <<>> /\ Extends(t, s) /\ t[1] = x
             /\ Head(t) = x /\ Tail(t) = s
BY DEF Extends

LEMMA Popped ==
  ASSUME NEW S, NEW t \in Seq(S), t # <<>>
  PROVE  /\ Tail(t) \in Seq(S) /\ Extends(t, Tail(t)) /\ t[1] = Head(t) /\ Head(t) \in S
         /\ Len(Tail(t)) = Len(t) - 1
BY HeadTailProperties DEF Extends

LEMMA AboveOf ==
  ASSUME NEW S, NEW s \in Seq(S), NEW t \in Seq(S), Extends(t, s)
  PROVE  \A i \in DOMAIN t : i = 1 \/ (i - 1 \in DOMAIN s /\ t[i] = s[i - 1])
<1>1. DOMAIN t = 1 .. Len(t) /\ DOMAIN s = 1 .. Len(s) /\ Len(s) \in Nat /\ Len(t) = Len(s) + 1
  BY Elements DEF Extends
<1> SUFFICES ASSUME NEW i \in DOMAIN t, i # 1 PROVE i - 1 \in DOMAIN s /\ t[i] = s[i - 1]
  OBVIOUS
<1>2. i - 1 \in 1 .. Len(s) /\ (i - 1) + 1 = i
  BY <1>1
<1> QED BY <1>1, <1>2 DEF Extends

\* Two sets whose elements correspond one to one have as many.
LEMMA SameSize ==
  ASSUME NEW S, NEW T, NEW f \in [S -> T], IsFiniteSet(S),
         \A i, j \in S : f[i] = f[j] => i = j,
         \A y \in T : \E i \in S : f[i] = y
  PROVE  IsFiniteSet(T) /\ Cardinality(T) = Cardinality(S)
<1>1. f \in Injection(S, T)
  BY DEF Injection, IsInjective
<1>2. f \in Surjection(S, T)
  BY DEF Surjection
<1>3. ExistsBijection(S, T)
  BY <1>1, <1>2 DEF ExistsBijection, Bijection
<1> QED BY <1>3, FS_Bijection

\* Hijacked counts one frame more when the new top returns to end_handler.
LEMMA HijackedBelow ==
  ASSUME NEW s \in Seq(Frame), NEW t \in Seq(Frame), Extends(t, s), NEW n \in 0 .. Len(s)
  PROVE  /\ Hijacked(s, n) \in Nat
         /\ Hijacked(t, n + 1) = Hijacked(s, n) + (IF t[1].ret = EndHandler THEN 1 ELSE 0)
<1> DEFINE A == {j \in 1 .. n : s[j].ret = EndHandler}
           B == {j \in 2 .. n + 1 : t[j].ret = EndHandler}
           C == {j \in 1 .. n + 1 : t[j].ret = EndHandler}
           f == [j \in A |-> j + 1]
<1>1. IsFiniteSet(A) /\ Cardinality(A) \in Nat
  <2>1. IsFiniteSet(1 .. n)
    BY FS_Interval
  <2>2. A \in SUBSET (1 .. n)
    OBVIOUS
  <2>3. IsFiniteSet(A)
    BY <2>1, <2>2, FS_Subset
  <2> QED BY <2>3, FS_CardinalityType
<1>2. \A j \in 1 .. n : t[j + 1] = s[j]
  BY DEF Extends
<1>3. /\ \A j \in A : j + 1 \in B
      /\ \A j \in B : j - 1 \in A /\ (j - 1) + 1 = j
      /\ \A i, j \in A : i + 1 = j + 1 => i = j
      /\ 1 \notin B
      /\ C = IF t[1].ret = EndHandler THEN B \cup {1} ELSE B
  BY <1>2
<1> HIDE DEF A, B, C
<1>4. f \in [A -> B] /\ (\A i, j \in A : f[i] = f[j] => i = j) /\ \A j \in B : \E i \in A : f[i] = j
  BY <1>3
<1> HIDE DEF f
<1>5. IsFiniteSet(B) /\ Cardinality(B) = Cardinality(A)
  BY <1>1, <1>4, SameSize
<1>6. Cardinality(B \cup {1}) = Cardinality(B) + 1
  BY <1>3, <1>5, FS_AddElement
<1>7. Cardinality(C) = Cardinality(A) + (IF t[1].ret = EndHandler THEN 1 ELSE 0)
  BY <1>1, <1>3, <1>5, <1>6
<1> QED BY <1>1, <1>7 DEF Hijacked, A, C

LEMMA HijackedNone == ASSUME NEW s PROVE Hijacked(s, 0) = 0
<1>1. {j \in 1 .. 0 : s[j].ret = EndHandler} = {}
  OBVIOUS
<1> QED BY <1>1, FS_EmptySet DEF Hijacked

LEMMA HijackedOwn ==
  ASSUME NEW s \in Seq(Frame), NEW i \in 1 .. Len(s), s[i].ret = EndHandler
  PROVE  Hijacked(s, i) \in Nat \ {0}
<1> DEFINE A == {j \in 1 .. i : s[j].ret = EndHandler}
<1>1. IsFiniteSet(1 .. i)
  BY FS_Interval
<1>2. A \in SUBSET (1 .. i) /\ A # {}
  OBVIOUS
<1> HIDE DEF A
<1>3. IsFiniteSet(A)
  BY <1>1, <1>2, FS_Subset
<1>4. Cardinality(A) \in Nat /\ Cardinality(A) # 0
  BY <1>2, <1>3, FS_CardinalityType, FS_EmptySet
<1> QED BY <1>4 DEF Hijacked, A

\* How many entries of the call stack the frame on top of t needs.
Own(t) == IF t[1].ret = EndHandler THEN 1 ELSE 0

\* A frame put on top: the entries of the others move down by its own.
LEMMA LinkedAbove ==
  ASSUME NEW s \in Seq(Frame), NEW t \in Seq(Frame), Extends(t, s),
         NEW cs \in Seq(StackEntry), NEW ds \in Seq(StackEntry), Linked(s, cs), s[1].fn # EndHandler,
         \A k \in DOMAIN cs : k + Own(t) \in DOMAIN ds /\ ds[k + Own(t)] = cs[k],
         \/ t[1].ret # EndHandler /\ t[1].ret = s[1].fn
         \/ /\ t[1].ret = EndHandler /\ t[1].fn # EndHandler
            /\ 1 \in DOMAIN ds /\ ds[1] = [addr |-> t[1].fn, ret |-> s[1].fn]
  PROVE  Linked(t, ds)
<1>1. /\ Len(s) \in Nat \ {0} /\ Len(t) = Len(s) + 1 /\ \A i \in 1 .. Len(s) : t[i + 1] = s[i]
      /\ s[Len(s)] = [fn |-> Main, ret |-> EndAddr, sound |-> TRUE]
  BY DEF Extends, Linked
<1>2. t # <<>> /\ t[Len(t)] = [fn |-> Main, ret |-> EndAddr, sound |-> TRUE] /\ t[2] = s[1]
  BY <1>1
<1>3. ASSUME NEW i \in 1 .. Len(t), t[i].fn = EndHandler PROVE i = 1 /\ t[i].ret # EndHandler
  <2>1. CASE i = 1
    BY <1>3, <2>1
  <2>2. CASE i # 1
    <3>0. i - 1 \in 1 .. Len(s) /\ (i - 1) + 1 = i
      BY <1>1, <2>2
    <3>1. i - 1 \in 1 .. Len(s) /\ t[i] = s[i - 1]
      BY <1>1, <3>0
    <3> QED BY <1>3, <3>1 DEF Linked
  <2> QED BY <2>1, <2>2
<1>4. EndsAtCaller(t, ds, 1)
  <2>1. Hijacked(t, 1) = Own(t)
    <3>1. Hijacked(t, 0 + 1) = 0 + Own(t)
      BY HijackedBelow, HijackedNone, <1>1 DEF Own
    <3> QED BY <3>1 DEF Own
  <2> QED BY <1>2, <2>1 DEF EndsAtCaller, Own
<1>5. ASSUME NEW i \in 1 .. Len(s) - 1 PROVE EndsAtCaller(t, ds, i + 1)
  <2>1. EndsAtCaller(s, cs, i) /\ t[i + 1] = s[i] /\ t[(i + 1) + 1] = s[i + 1] /\ i \in 0 .. Len(s)
    BY <1>1 DEF Linked
  <2>2. Hijacked(t, i + 1) = Hijacked(s, i) + Own(t)
    BY <2>1, HijackedBelow DEF Own
  <2> QED BY <2>1, <2>2 DEF EndsAtCaller
<1>6. \A i \in 1 .. Len(t) - 1 : EndsAtCaller(t, ds, i)
  <2> TAKE i \in 1 .. Len(t) - 1
  <2>1. CASE i = 1
    BY <1>4, <2>1
  <2>2. CASE i # 1
    <3>1. i - 1 \in 1 .. Len(s) - 1 /\ (i - 1) + 1 = i
      BY <1>1, <2>2
    <3> QED BY <1>5, <3>1
  <2> QED BY <2>1, <2>2
<1> QED BY <1>2, <1>3, <1>6 DEF Linked

\* The frame on top goes, and its entry with it.
LEMMA LinkedBelow ==
  ASSUME NEW s \in Seq(Frame), NEW t \in Seq(Frame), Extends(t, s), s # <<>>,
         NEW cs \in Seq(StackEntry), NEW ds \in Seq(StackEntry), Linked(t, ds),
         \A k \in Nat \ {0} : k + Own(t) \in DOMAIN ds => k \in DOMAIN cs /\ cs[k] = ds[k + Own(t)]
  PROVE  /\ Linked(s, cs) /\ s[1].fn # EndHandler
         /\ \/ t[1].ret # EndHandler /\ t[1].ret = s[1].fn
            \/ /\ t[1].ret = EndHandler /\ t[1].fn # EndHandler
               /\ 1 \in DOMAIN ds /\ ds[1] = [addr |-> t[1].fn, ret |-> s[1].fn]
<1>1. /\ Len(s) \in Nat \ {0} /\ Len(t) = Len(s) + 1 /\ \A i \in 1 .. Len(s) : t[i + 1] = s[i]
      /\ t[Len(t)] = [fn |-> Main, ret |-> EndAddr, sound |-> TRUE]
  BY EmptySeq DEF Extends, Linked
<1>2. /\ s[Len(s)] = [fn |-> Main, ret |-> EndAddr, sound |-> TRUE] /\ t[2] = s[1]
      /\ 1 \in 1 .. Len(t) - 1 /\ 2 \in 1 .. Len(t)
  BY <1>1
<1>3. \A i \in 1 .. Len(s) : s[i].fn # EndHandler
  <2> TAKE i \in 1 .. Len(s)
  <2>1. i + 1 \in 1 .. Len(t) /\ t[i + 1] = s[i] /\ i + 1 # 1
    BY <1>1
  <2> QED BY <2>1 DEF Linked
<1>4. EndsAtCaller(t, ds, 1) /\ Hijacked(t, 1) = Own(t)
  <2>1. Hijacked(t, 0 + 1) = 0 + Own(t)
    BY HijackedBelow, HijackedNone, <1>1 DEF Own
  <2> QED BY <1>2, <2>1 DEF Own, Linked
<1>5. \/ t[1].ret # EndHandler /\ t[1].ret = s[1].fn
      \/ /\ t[1].ret = EndHandler /\ t[1].fn # EndHandler
         /\ 1 \in DOMAIN ds /\ ds[1] = [addr |-> t[1].fn, ret |-> s[1].fn]
  <2>1. t[1].fn = EndHandler => t[1].ret # EndHandler
    BY <1>2 DEF Linked
  <2> QED BY <1>2, <1>4, <2>1 DEF EndsAtCaller, Own
<1>6. ASSUME NEW i \in 1 .. Len(s) - 1 PROVE EndsAtCaller(s, cs, i)
  <2>1. i + 1 \in 1 .. Len(t) - 1 /\ i \in 1 .. Len(s) /\ i \in 0 .. Len(s)
        /\ t[i + 1] = s[i] /\ t[(i + 1) + 1] = s[i + 1]
    BY <1>1
  <2>2. EndsAtCaller(t, ds, i + 1)
    BY <2>1 DEF Linked
  <2>3. Hijacked(t, i + 1) = Hijacked(s, i) + Own(t) /\ Hijacked(s, i) \in Nat
    BY <2>1, HijackedBelow DEF Own
  <2>4. s[i].ret = EndHandler => Hijacked(s, i) \in Nat \ {0}
    BY <2>1, HijackedOwn
  <2> QED BY <2>1, <2>2, <2>3, <2>4 DEF EndsAtCaller
<1> QED BY <1>1, <1>2, <1>3, <1>5, <1>6 DEF Linked

\* int3_handler's walk along the frames finds the functions that are active.
LEMMA WalkFinds ==
  ASSUME NEW fr \in Seq(Frame), NEW cs \in Seq(StackEntry), NEW entry \in Code, fr # <<>>,
         Len(fr) > 1, fr[1].fn = entry, Linked(fr, OwnEntries(entry, cs))
  PROVE  LET active == IF entry = EndHandler THEN Tail(fr) ELSE fr
             shown  == IF Len(active) < MaxBacktrace THEN Len(active) ELSE MaxBacktrace
             found  == WalkStack(entry, fr, cs)
         IN  /\ \A i \in DOMAIN active : active[i].fn # EndHandler
             /\ found \in Seq(Address) /\ Len(found) = shown
             /\ \A i \in 1 .. shown : found[i] = active[i].fn
<1> DEFINE own    == OwnEntries(entry, cs)
           rets   == [i \in 1 .. Len(fr) - 1 |->
                        IF fr[i].ret = EndHandler THEN own[Hijacked(fr, i)].ret ELSE fr[i].ret]
           all    == IF entry = EndHandler THEN rets ELSE <<entry>> \o rets
           active == IF entry = EndHandler THEN Tail(fr) ELSE fr
           shown  == IF Len(active) < MaxBacktrace THEN Len(active) ELSE MaxBacktrace
<1>1. Len(fr) \in Nat /\ Tail(fr) \in Seq(Frame) /\ Len(Tail(fr)) = Len(fr) - 1
      /\ \A i \in 1 .. Len(fr) - 1 : Tail(fr)[i] = fr[i + 1]
  BY HeadTailProperties, Elements
<1>a. \A i \in 1 .. Len(fr) : fr[i].fn \in Address
  <2> TAKE i \in 1 .. Len(fr)
  <2>1. fr[i] \in Frame
    BY Elements
  <2> QED BY <2>1 DEF Frame, Address
<1>2. \A i \in 1 .. Len(fr) - 1 : rets[i] = fr[i + 1].fn
  <2> TAKE i \in 1 .. Len(fr) - 1
  <2>1. EndsAtCaller(fr, own, i)
    BY DEF Linked
  <2> HIDE DEF own
  <2> QED BY <2>1 DEF EndsAtCaller
<1>3. \A i \in 1 .. Len(fr) : fr[i].fn = EndHandler => i = 1
  BY DEF Linked
<1> HIDE DEF own
<1>4. rets \in Seq(Address) /\ Len(rets) = Len(fr) - 1
  <2>1. \A i \in 1 .. Len(fr) - 1 : rets[i] \in Address
    BY <1>1, <1>a, <1>2
  <2>2. rets \in [1 .. Len(fr) - 1 -> Address] /\ Len(fr) - 1 \in Nat
    BY <1>1, <2>1
  <2> QED BY <2>2, SeqDef
<1> HIDE DEF rets
<1>5. /\ all \in Seq(Address) /\ Len(all) = Len(active)
      /\ \A i \in 1 .. Len(active) : all[i] = active[i].fn
      /\ active \in Seq(Frame)
  <2>1. CASE entry = EndHandler
    BY <1>1, <1>2, <1>4, <2>1
  <2>2. CASE entry # EndHandler
    <3>1. entry \in Address /\ all = <<entry>> \o rets /\ active = fr
      BY <2>2 DEF Address
    <3> HIDE DEF all, active
    <3>2. /\ all \in Seq(Address) /\ Len(all) = Len(fr) /\ all[1] = entry
          /\ \A i \in 2 .. Len(fr) : all[i] = rets[i - 1]
      <4> DEFINE al == <<entry>> \o rets
      <4>1. /\ al \in Seq(Address) /\ al # <<>> /\ Extends(al, rets) /\ al[1] = entry
        BY <1>4, <3>1, Pushed
      <4>2. \A i \in 2 .. Len(fr) : i - 1 \in 1 .. Len(rets) /\ (i - 1) + 1 = i
        BY <1>1, <1>4
      <4> HIDE DEF al
      <4>3. all = al
        BY <3>1 DEF al
      <4> QED BY <1>1, <1>4, <4>1, <4>2, <4>3 DEF Extends
    <3>3. \A i \in 2 .. Len(fr) : all[i] = fr[i].fn
      <4> TAKE i \in 2 .. Len(fr)
      <4>1. i - 1 \in 1 .. Len(fr) - 1 /\ (i - 1) + 1 = i
        BY <1>1
      <4> QED BY <1>2, <3>2, <4>1
    <3>4. \A i \in 1 .. Len(fr) : all[i] = fr[i].fn
      BY <1>1, <3>2, <3>3
    <3> QED BY <1>1, <3>1, <3>2, <3>4
  <2> QED BY <2>1, <2>2
<1>6. \A i \in DOMAIN active : active[i].fn # EndHandler
  BY <1>1, <1>3
<1>7. WalkStack(entry, fr, cs) = SubSeq(all, 1, shown)
  BY <1>5 DEF WalkStack, own, rets
<1> HIDE DEF all, active
<1>8. shown \in Nat /\ shown <= Len(all)
  BY <1>5, DebuggerAssumption
<1>9. /\ SubSeq(all, 1, shown) \in Seq(Address) /\ Len(SubSeq(all, 1, shown)) = shown
      /\ \A i \in 1 .. shown : SubSeq(all, 1, shown)[i] = all[i]
  BY <1>5, <1>8
<1>10. /\ \A i \in DOMAIN active : active[i].fn # EndHandler
       /\ WalkStack(entry, fr, cs) \in Seq(Address) /\ Len(WalkStack(entry, fr, cs)) = shown
       /\ \A i \in 1 .. shown : WalkStack(entry, fr, cs)[i] = active[i].fn
  BY <1>5, <1>6, <1>7, <1>8, <1>9
<1> QED BY <1>10 DEF active

\* The list holds one breakpoint for each function whose code has int3.
LEMMA ListAgrees == ASSUME DebugInv PROVE BreakpointsAgree
<1> SUFFICES ASSUME isDebugger PROVE BreakpointsAgree
  BY DEF BreakpointsAgree
<1>1. /\ breakpointCount = Len(head)
      /\ \A i, j \in DOMAIN head : head[i].addr = head[j].addr => i = j
      /\ \A i, j \in DOMAIN head : i < j => head[i].num < head[j].num
      /\ \A i \in DOMAIN head : head[i].num <= lastId
      /\ \A f \in Func : HasInt3(f) <=> HasBreakpoint(f)
  BY DEF DebugInv, ListInv
<1>2. head \in Seq(Breakpoint) /\ Len(head) \in Nat /\ DOMAIN head = 1 .. Len(head)
      /\ \A i \in DOMAIN head : head[i].addr \in Func
  <2>1. head \in Seq(Breakpoint)
    BY DEF DebugInv, TypeOK
  <2>2. Len(head) \in Nat /\ DOMAIN head = 1 .. Len(head) /\ \A i \in 1 .. Len(head) : head[i] \in Breakpoint
    BY <2>1, Elements
  <2> QED BY <2>1, <2>2 DEF Breakpoint
<1>3. InfoBreakpoints = (IF head = <<>> THEN -1 ELSE head)
  <2>1. SubSeq(head, 1, Len(head)) = head
    BY <1>2, SubSeqFull
  <2>2. ~ (Len(head) < breakpointCount) /\ SubSeq(head, 1, breakpointCount) = head
    BY <1>1, <1>2, <2>1
  <2> QED BY <2>2, Zenon DEF InfoBreakpoints
<1>4. breakpointCount = Cardinality({f \in Func : HasInt3(f)})
  <2> DEFINE S == 1 .. Len(head)
             T == {f \in Func : HasInt3(f)}
             g == [i \in S |-> head[i].addr]
  <2>1. IsFiniteSet(S) /\ Cardinality(S) = Len(head)
    <3>1. IsFiniteSet(1 .. Len(head)) /\ Cardinality(1 .. Len(head)) = IF 1 > Len(head) THEN 0 ELSE Len(head) - 1 + 1
      BY <1>2, FS_Interval
    <3> QED BY <1>2, <3>1
  <2>2. g \in [S -> T] /\ (\A i, j \in S : g[i] = g[j] => i = j) /\ \A f \in T : \E i \in S : g[i] = f
    <3>1. \A i \in S : head[i].addr \in T
      BY <1>1, <1>2 DEF HasBreakpoint
    <3>2. \A f \in T : \E i \in S : head[i].addr = f
      BY <1>1, <1>2 DEF HasBreakpoint
    <3>3. \A i, j \in S : head[i].addr = head[j].addr => i = j
      BY <1>1, <1>2
    <3> HIDE DEF S, T
    <3> QED BY <3>1, <3>2, <3>3
  <2> HIDE DEF S, T, g
  <2>3. Cardinality(T) = Cardinality(S)
    BY <2>1, <2>2, SameSize
  <2> QED BY <1>1, <2>1, <2>3 DEF T
<1>5. \A i \in DOMAIN head : HasInt3(head[i].addr)
  BY <1>1, <1>2 DEF HasBreakpoint
<1> QED BY <1>1, <1>3, <1>4, <1>5 DEF BreakpointsAgree

LEMMA EndsKept == ASSUME DebugInv PROVE EndsKeptEnabled
BY DEF DebugInv, EndsInv, EndsKeptEnabled

\* While the debuggee runs, the entries of the call stack are those its frames need.
LEMMA RunningFrames ==
  ASSUME DebugInv, Debugging, StandsBy(Debugger)
  PROVE  /\ isDebugger /\ ~ AtBreakpoint /\ frames # <<>> /\ Head(frames) = frames[1]
         /\ frames[1].sound => Linked(frames, callStack)
<1>1. isDebugger /\ ~ AtBreakpoint
  BY DEF DebugInv, HandInv, HandOver, AtBreakpoint, Debugging
<1>2. frames # <<>> /\ (frames[1].sound => Linked(frames, callStack))
  BY <1>1, Zenon DEF DebugInv, FramesInv, Coming
<1>3. frames \in Seq(Frame)
  BY DEF DebugInv, TypeOK
<1> QED BY <1>1, <1>2, <1>3, Popped

LEMMA RunningLinked == ASSUME DebugInv PROVE ReturnsHome
<1> SUFFICES ASSUME DebuggeesTurn, Head(frames).sound PROVE ReturnsHome
  BY DEF ReturnsHome
<1>1. Linked(frames, callStack)
  BY RunningFrames DEF DebuggeesTurn
<1>2. frames[Len(frames)].ret # EndHandler
  BY <1>1, Names DEF Linked
<1>3. \A i \in 1 .. Len(frames) - 1 : EndsAtCaller(frames, callStack, i)
  BY <1>1 DEF Linked
<1> QED BY <1>2, <1>3 DEF ReturnsHome

\* A frame that returns to end_handler is of a function on the call stack.
LEMMA LinkedOnStack ==
  ASSUME NEW fr \in Seq(Frame), NEW cs, Linked(fr, cs), NEW i \in DOMAIN fr, fr[i].ret = EndHandler
  PROVE  fr[i].fn # EndHandler /\ \E k \in DOMAIN cs : cs[k].addr = fr[i].fn
<1>1. DOMAIN fr = 1 .. Len(fr) /\ Len(fr) \in Nat
  BY Elements
<1>2. i \in 1 .. Len(fr) - 1 /\ fr[i].fn # EndHandler
  BY <1>1, Names DEF Linked
<1>3. EndsAtCaller(fr, cs, i)
  BY <1>2 DEF Linked
<1> QED BY <1>2, <1>3 DEF EndsAtCaller

-------------------------------------------------------------------------------
LEMMA InitDebug == Init => DebugInv
<1> SUFFICES ASSUME Init PROVE DebugInv
  OBVIOUS
<1>1. HandInv
  BY InitHand
<1>2. /\ isDebugger = FALSE /\ breakpointCount = 0 /\ lastId = 0 /\ steps = 0 /\ forks = 0
      /\ head = <<>> /\ callStack = <<>> /\ backtrace = <<>> /\ frames = <<>>
      /\ cpid = NotForked /\ code = [f \in Code |-> "intact"]
  BY DEF Init
<1>3. TypeOK
  BY <1>1, <1>2, EmptySeq, DebuggerAssumption DEF TypeOK, HandInv, Instructions
<1> QED BY <1>1, <1>2, <1>3 DEF DebugInv, ListInv, StopInv, EndsInv, FramesInv,
                                BacktraceIsCallChain, AtBreakpoint, Debugging

\* get_breakpoint_info on a list of breakpoints.
Known(bps, f) == \E i \in DOMAIN bps : bps[i].addr = f
Ends(bps, f)  == \E i \in DOMAIN bps : bps[i].addr = f /\ bps[i].end

\* is_on_stack on a call stack.
OnStack(cs, f) == \E i \in DOMAIN cs : cs[i].addr = f

LEMMA OfHead ==
  /\ \A f : HasBreakpoint(f) <=> Known(head, f)
  /\ \A f : EndEnabled(f) <=> Ends(head, f)
  /\ \A f : IsOnStack(f) <=> OnStack(callStack, f)
  /\ StopInv <=> (AtBreakpoint =>
                     /\ callStack # <<>> /\ callStack[1].addr = frames[1].fn
                     /\ frames[1].sound => frames[1].fn = EndHandler \/ Known(head, frames[1].fn))
  /\ EndsInv <=> (Debugging => \A i \in DOMAIN frames : frames[i].ret = EndHandler =>
                     /\ frames[i].fn # EndHandler
                     /\ OnStack(callStack, frames[i].fn) /\ Ends(head, frames[i].fn))
  /\ PopsTop <=> /\ callStack # <<>>
                 /\ Head(callStack).addr = EndHandler \/ ~ Ends(head, Head(callStack).addr)
BY DEF HasBreakpoint, EndEnabled, IsOnStack, Known, Ends, OnStack, StopInv, EndsInv, PopsTop

LEMMA OfHeadNext ==
  /\ StopInv' <=> (AtBreakpoint' =>
                     /\ callStack' # <<>> /\ callStack'[1].addr = frames'[1].fn
                     /\ frames'[1].sound => frames'[1].fn = EndHandler \/ Known(head', frames'[1].fn))
  /\ EndsInv' <=> (Debugging' => \A i \in DOMAIN frames' : frames'[i].ret = EndHandler =>
                     /\ frames'[i].fn # EndHandler
                     /\ OnStack(callStack', frames'[i].fn) /\ Ends(head', frames'[i].fn))
  /\ PopsTop' <=> /\ callStack' # <<>>
                  /\ Head(callStack').addr = EndHandler \/ ~ Ends(head', Head(callStack').addr)
BY DEF HasBreakpoint, EndEnabled, IsOnStack, Known, Ends, OnStack, StopInv, EndsInv, PopsTop

\* A step that leaves the two stacks, and what is known of the functions on them, as they are,
\* but may destroy the code in front of the debuggee.
LEMMA StackKept ==
  ASSUME DebugInv, UNCHANGED <<isDebugger, cpid, callStack, backtrace>>, AtBreakpoint' <=> AtBreakpoint,
         frames' \in Seq(Frame), Len(frames') = Len(frames), frames' = frames \/ ~ frames'[1].sound,
         \A i \in 1 .. Len(frames) : frames'[i].fn = frames[i].fn /\ frames'[i].ret = frames[i].ret,
         \A g : OnStack(callStack, g) /\ Ends(head, g) => Ends(head', g),
         AtBreakpoint /\ frames'[1].sound =>
           /\ Known(head, frames[1].fn) => Known(head', frames[1].fn)
           /\ Ends(head', frames[1].fn) <=> Ends(head, frames[1].fn)
  PROVE  StopInv' /\ EndsInv' /\ FramesInv' /\ BacktraceIsCallChain'
<1>1. /\ frames \in Seq(Frame) /\ callStack \in Seq(StackEntry) /\ (Debugging' <=> Debugging)
      /\ DOMAIN frames = 1 .. Len(frames) /\ DOMAIN frames' = 1 .. Len(frames) /\ Len(frames) \in Nat
      /\ AtBreakpoint => Debugging /\ Len(frames) > 1 /\ frames # <<>> /\ frames' # <<>>
      /\ frames # <<>> => frames' # <<>>
  <2>1. frames \in Seq(Frame) /\ callStack \in Seq(StackEntry) /\ (Debugging' <=> Debugging)
    BY DEF DebugInv, TypeOK, Debugging
  <2>2. DOMAIN frames = 1 .. Len(frames) /\ DOMAIN frames' = 1 .. Len(frames) /\ Len(frames) \in Nat
    BY <2>1, Elements
  <2>3. (frames = <<>> <=> Len(frames) = 0) /\ (frames' = <<>> <=> Len(frames) = 0)
    BY <2>1, EmptySeq
  <2>4. AtBreakpoint => Debugging /\ Len(frames) > 1
    BY DEF AtBreakpoint
  <2> QED BY <2>1, <2>2, <2>3, <2>4
<1>2. StopInv'
  <2>1. AtBreakpoint =>
          /\ callStack # <<>> /\ callStack[1].addr = frames[1].fn
          /\ frames[1].sound => frames[1].fn = EndHandler \/ Known(head, frames[1].fn)
    BY OfHead DEF DebugInv
  <2>2. AtBreakpoint' =>
          /\ callStack' # <<>> /\ callStack'[1].addr = frames'[1].fn
          /\ frames'[1].sound => frames'[1].fn = EndHandler \/ Known(head', frames'[1].fn)
    BY <1>1, <2>1
  <2> QED BY <2>2, OfHeadNext, Zenon
<1>3. EndsInv'
  <2>1. Debugging => \A i \in DOMAIN frames : frames[i].ret = EndHandler =>
           frames[i].fn # EndHandler /\ OnStack(callStack, frames[i].fn) /\ Ends(head, frames[i].fn)
    BY OfHead DEF DebugInv
  <2>2. Debugging' => \A i \in DOMAIN frames' : frames'[i].ret = EndHandler =>
           frames'[i].fn # EndHandler /\ OnStack(callStack', frames'[i].fn) /\ Ends(head', frames'[i].fn)
    BY <1>1, <2>1
  <2> QED BY <2>2, OfHeadNext, Zenon
<1>4. FramesInv'
  <2>1. CASE ~ Debugging \/ ~ frames'[1].sound
    BY <1>1, <2>1 DEF DebugInv, FramesInv
  <2>2. CASE Debugging /\ frames'[1].sound
    <3>1. frames' = frames /\ Linked(frames, Coming)
      BY <2>2 DEF DebugInv, FramesInv
    <3>2. AtBreakpoint => (PopsTop' <=> PopsTop)
      <4> SUFFICES ASSUME AtBreakpoint PROVE PopsTop' <=> PopsTop
        OBVIOUS
      <4>1. Head(callStack).addr = frames[1].fn
        BY <1>1, Popped DEF DebugInv, StopInv
      <4>2. Ends(head', Head(callStack).addr) <=> Ends(head, Head(callStack).addr)
        BY <2>2, <4>1
      <4>3. callStack' = callStack
        OBVIOUS
      <4> QED BY <4>2, <4>3, OfHead, OfHeadNext, Zenon
    <3>3. Coming' = Coming
      BY <3>2, Zenon DEF Coming
    <3> QED BY <1>1, <3>1, <3>3 DEF DebugInv, FramesInv
  <2> QED BY <2>1, <2>2
<1>5. BacktraceIsCallChain'
  <2>1. CASE frames' = frames
    BY <2>1 DEF DebugInv, BacktraceIsCallChain, Backtrace
  <2>2. CASE AtBreakpoint
    <3> DEFINE act(fr) == IF Head(fr).fn = EndHandler THEN Tail(fr) ELSE fr
    <3>1. /\ Head(frames).fn = Head(frames').fn
          /\ Tail(frames) \in Seq(Frame) /\ Tail(frames') \in Seq(Frame) /\ Len(Tail(frames')) = Len(Tail(frames))
          /\ \A i \in 1 .. Len(Tail(frames)) : Tail(frames')[i].fn = Tail(frames)[i].fn
      <4>1. /\ Head(frames) = frames[1] /\ Head(frames') = frames'[1]
            /\ Extends(frames, Tail(frames)) /\ Extends(frames', Tail(frames'))
            /\ Tail(frames) \in Seq(Frame) /\ Tail(frames') \in Seq(Frame)
            /\ Len(Tail(frames)) = Len(frames) - 1 /\ Len(Tail(frames')) = Len(frames) - 1
        BY <1>1, <2>2, Popped
      <4>2. \A i \in 1 .. Len(frames) - 1 : i + 1 \in 1 .. Len(frames)
        BY <1>1
      <4> QED BY <1>1, <2>2, <4>1, <4>2 DEF Extends
    <3>2. /\ act(frames) \in Seq(Frame) /\ act(frames') \in Seq(Frame) /\ Len(act(frames')) = Len(act(frames))
          /\ \A i \in 1 .. Len(act(frames)) : act(frames')[i].fn = act(frames)[i].fn
      BY <1>1, <3>1
    <3> DEFINE n(fr) == IF Len(act(fr)) < MaxBacktrace THEN Len(act(fr)) ELSE MaxBacktrace
    <3>3. (\A i \in DOMAIN act(frames) : act(frames)[i].fn # EndHandler) /\ Backtrace = [i \in 1 .. n(frames) |-> act(frames)[i].fn]
      BY <2>2 DEF DebugInv, BacktraceIsCallChain
    <3> HIDE DEF act
    <3>4. /\ DOMAIN act(frames) = 1 .. Len(act(frames)) /\ DOMAIN act(frames') = 1 .. Len(act(frames))
          /\ Len(act(frames)) \in Nat
      BY <3>2, Elements
    <3>5. n(frames') = n(frames) /\ \A i \in 1 .. n(frames) : i \in 1 .. Len(act(frames))
      BY <3>2, <3>4, DebuggerAssumption
    <3>6. Backtrace' = Backtrace
      BY DEF Backtrace
    <3>7. /\ \A i \in DOMAIN act(frames') : act(frames')[i].fn # EndHandler
          /\ Backtrace' = [i \in 1 .. n(frames') |-> act(frames')[i].fn]
      <4> HIDE DEF n
      <4> QED BY <3>2, <3>3, <3>4, <3>5, <3>6
    <3> QED BY <3>7 DEF BacktraceIsCallChain, act
  <2>3. CASE ~ AtBreakpoint
    BY <2>3 DEF BacktraceIsCallChain
  <2> QED BY <2>2, <2>3
<1> QED BY <1>2, <1>3, <1>4, <1>5

\* A step that leaves the list and the stacks as they are.
LEMMA NothingTouched ==
  ASSUME DebugInv, UNCHANGED <<isDebugger, cpid, head, callStack, backtrace, frames>>, AtBreakpoint' <=> AtBreakpoint
  PROVE  StopInv' /\ EndsInv' /\ FramesInv' /\ BacktraceIsCallChain'
<1>1. frames' \in Seq(Frame)
  BY DEF DebugInv, TypeOK
<1> QED BY <1>1, StackKept

\* The list is not touched either.
LEMMA AllKept ==
  ASSUME DebugInv, HandInv', UNCHANGED <<debugVars, code, frames>>, AtBreakpoint' <=> AtBreakpoint,
         steps' \in 0 .. MaxSteps, forks' = forks,
         ~ isDebugger /\ state'[Debugger] # "UNUSED" => state[Debugger] # "UNUSED"
  PROVE  DebugInv'
<1>1. UNCHANGED <<isDebugger, breakpointCount, head, lastId, cpid, callStack, backtrace>>
  BY DEF debugVars, listVars, stackVars
<1>2. TypeOK'
  BY <1>1 DEF DebugInv, HandInv, TypeOK
<1>3. ListInv'
  BY <1>1 DEF DebugInv, ListInv, HasInt3, HasBreakpoint
<1> QED BY <1>1, <1>2, <1>3, NothingTouched DEF DebugInv

LEMMA TickDebug == ASSUME DebugInv, TimerTick PROVE DebugInv'
<1>1. HandInv /\ HandInv'
  BY TimerKeeps DEF DebugInv
<1>2. (AtBreakpoint' <=> AtBreakpoint) /\ (state'[Debugger] # "UNUSED" => state[Debugger] # "UNUSED")
  BY <1>1, TimerStands, Pids DEF AtBreakpoint, Debugging, TimerTick, debugVars
<1> QED BY <1>1, <1>2, AllKept DEF TimerTick, boundVars, DebugInv, TypeOK

LEMMA DebuggerSleepDebug ==
  ASSUME DebugInv, NEW ticks \in 1 .. MaxSleep, DebuggerSleeps(ticks) PROVE DebugInv'
<1>1. HandInv /\ HandInv' /\ Runs(Debugger) /\ isDebugger /\ Sleep(Debugger, ticks)
  BY SleepKeeps DEF DebugInv, DebuggerSleeps, Debugs, debugVars
<1>2. ~ StandsBy(Debugger) /\ ~ StandsBy(Debugger)'
  <2>1. ticksToSleep'[Debugger] = ticks /\ ticks # 0
    BY <1>1, Pids, DebuggerAssumption DEF Sleep, HandInv, SchedulerTypeOK
  <2> QED BY <1>1, <2>1, RunnerAwake, Pids DEF StandsBy
<1>3. AtBreakpoint' <=> AtBreakpoint
  BY <1>1, <1>2 DEF HandInv, HandOver, AtBreakpoint, DebuggerSleeps, debugVars, Debugging
<1> QED BY <1>1, <1>3, AllKept DEF DebuggerSleeps, boundVars, DebugInv, TypeOK

LEMMA DebuggeeSleepDebug ==
  ASSUME DebugInv, NEW ticks \in 1 .. MaxSleep, DebuggeeSleeps(ticks) PROVE DebugInv'
<1>1. HandInv /\ HandInv' /\ Runs(Debuggee) /\ Sleep(Debuggee, ticks)
  BY SleepKeeps DEF DebugInv, DebuggeeSleeps, Executes, Debugged, debugVars
<1>2. ~ StandsBy(Debuggee) /\ ~ StandsBy(Debuggee)' /\ isDebugger
  <2>1. ticksToSleep'[Debuggee] = ticks /\ ticks # 0
    BY <1>1, Pids, DebuggerAssumption DEF Sleep, HandInv, SchedulerTypeOK
  <2> QED BY <1>1, <2>1, RunnerAwake, DebuggeeRuns, Pids DEF StandsBy, Debugging
<1>3. steps' \in 0 .. MaxSteps
  BY DebuggerAssumption DEF DebuggeeSleeps, DebugInv, TypeOK
<1> QED BY <1>1, <1>2, <1>3, AllKept DEF DebuggeeSleeps, AtBreakpoint

LEMMA ListKept ==
  ASSUME DebugInv, isDebugger, UNCHANGED <<isDebugger, breakpointCount, head, lastId, code>>
  PROVE  ListInv'
<1>1. \A f \in Func : HasInt3(f)' <=> HasBreakpoint(f)'
  <2>1. \A f \in Func : HasInt3(f)' <=> Known(head', f)
    BY OfHead DEF DebugInv, ListInv, HasInt3
  <2> QED BY <2>1 DEF Known, HasBreakpoint
<1> QED BY <1>1 DEF DebugInv, ListInv

LEMMA BecomeDebug == ASSUME DebugInv, BecomeDebugger PROVE DebugInv'
<1>1. HandInv'
  BY BecomeKeeps DEF DebugInv
<1>2. /\ isDebugger' = TRUE /\ breakpointCount' = 0 /\ head' = <<>> /\ lastId' = 0 /\ cpid' = NotForked
      /\ callStack' = <<>> /\ backtrace' = <<>> /\ code' = [code EXCEPT ![EndHandler] = WithInt3(@)]
      /\ frames' = frames /\ steps' = steps /\ forks' = forks
  BY DEF BecomeDebugger, boundVars
<1>3. code = [f \in Code |-> "intact"]
  BY DEF DebugInv, ListInv, BecomeDebugger, Runs
<1>4. code' \in [Code -> Instructions] /\ \A f \in Func : code'[f] = "intact"
  BY <1>2, <1>3, Names DEF WithInt3, Zeroed, Instructions, Code
<1>5. TypeOK'
  BY <1>1, <1>2, <1>4, EmptySeq, DebuggerAssumption DEF DebugInv, TypeOK, HandInv
<1>6. ListInv'
  <2>1. DOMAIN head' = {} /\ Len(head') = 0
    BY <1>2
  <2>2. \A f \in Func : ~ HasInt3(f)' /\ ~ HasBreakpoint(f)'
    BY <1>4, <2>1 DEF HasInt3, HasBreakpoint
  <2> QED BY <1>2, <2>1, <2>2 DEF ListInv
<1>7. ~ Debugging'
  BY <1>2, Pids DEF Debugging
<1> QED BY <1>1, <1>2, <1>5, <1>6, <1>7 DEF DebugInv, StopInv, EndsInv, FramesInv, BacktraceIsCallChain, AtBreakpoint

\* A new debuggee has called nothing yet, whatever the last one left on the call stack.
LEMMA ForkDebug == ASSUME DebugInv, Fork PROVE DebugInv'
<1>1. HandInv' /\ isDebugger /\ ~ AtBreakpoint
  BY ForkKeeps DEF DebugInv, Fork, Debugs, AtBreakpoint, Debugging
<1>2. /\ UNCHANGED <<isDebugger, breakpointCount, head, lastId, callStack, backtrace, code>>
      /\ cpid' = Debuggee /\ frames' = <<[fn |-> Main, ret |-> EndAddr, sound |-> TRUE]>>
      /\ steps' = MaxSteps /\ forks' = forks + 1 /\ forks < MaxForks
  BY DEF Fork, listVars, stackVars
<1>3. [fn |-> Main, ret |-> EndAddr, sound |-> TRUE] \in Frame
  BY DEF Frame, Address
<1>4. frames' \in Seq(Frame) /\ frames' # <<>> /\ Len(frames') = 1
      /\ frames'[1] = [fn |-> Main, ret |-> EndAddr, sound |-> TRUE]
  <2> HIDE DEF Frame
  <2> QED BY <1>2, <1>3
<1>5. TypeOK'
  BY <1>1, <1>2, <1>4, DebuggerAssumption DEF DebugInv, TypeOK, HandInv
<1>6. ListInv'
  BY <1>1, <1>2, ListKept
<1>7. EndsInv'
  <2>1. \A i \in DOMAIN frames' : frames'[i].ret # EndHandler
    BY <1>4, Names, Elements
  <2> QED BY <2>1 DEF EndsInv
<1>8. Linked(frames', Coming')
  BY <1>4, Names DEF Linked
<1>9. ~ AtBreakpoint'
  BY <1>4 DEF AtBreakpoint
<1> QED BY <1>1, <1>4, <1>5, <1>6, <1>7, <1>8, <1>9 DEF DebugInv, StopInv, FramesInv, BacktraceIsCallChain

LEMMA BreakpointTyped ==
  ASSUME DebugInv, NEW i \in DOMAIN head
  PROVE  head[i] \in Breakpoint /\ head[i].num \in 1 .. MaxSetups /\ head[i].addr \in Func /\ head[i].end \in BOOLEAN
<1>1. head[i] \in Breakpoint
  BY Elements DEF DebugInv, TypeOK
<1> QED BY <1>1 DEF Breakpoint

LEMMA WaitDebug == ASSUME DebugInv, WaitAndContinue PROVE DebugInv'
<1>1. HandInv' /\ isDebugger /\ Runs(Debugger)
  BY WaitKeeps DEF DebugInv, WaitAndContinue, Debugs
<1>2. /\ UNCHANGED <<isDebugger, breakpointCount, head, lastId, cpid, backtrace, code, frames, steps, forks>>
  BY DEF WaitAndContinue, listVars, boundVars
<1>3. ListInv'
  BY <1>1, <1>2, ListKept
<1>4. CASE cpid = NoChild
  <2>1. callStack' = callStack /\ (AtBreakpoint' <=> AtBreakpoint)
    BY <1>2, <1>4, Pids DEF WaitAndContinue, AtBreakpoint, Debugging
  <2>2. TypeOK'
    BY <1>1, <1>2, <2>1 DEF DebugInv, TypeOK, HandInv
  <2>3. StopInv' /\ EndsInv' /\ FramesInv' /\ BacktraceIsCallChain'
    BY <1>2, <2>1, NothingTouched
  <2> QED BY <1>1, <1>3, <2>2, <2>3 DEF DebugInv
<1>5. CASE cpid = Debuggee
  <2>1. /\ callStack' = (IF PopsTop THEN Tail(callStack) ELSE callStack) \/ (LooksUpNull /\ callStack' = callStack)
        /\ Debugging /\ Debugging'
    BY <1>1, <1>2, <1>5, Pids DEF WaitAndContinue, Debugging
  <2>2. /\ StandsBy(Debugger)' /\ ~ StandsBy(Debuggee)'
        /\ ~ StandsBy(Debugger) /\ StandsBy(Debuggee)
    <3>1. ticksToSleep' = ticksToSleep /\ ticksToSleep[Debugger] = 0 /\ ~ StandsBy(Debugger)
      BY <1>1, <1>5, Pids, RunnerAwake DEF WaitAndContinue, DebugInv
    <3>2. state' = [[state EXCEPT ![Debugger] = "WAITING"] EXCEPT ![Debuggee] = "RUNNING"]
      BY <1>5, Pids DEF WaitAndContinue, Schedule
    <3>3. state'[Debugger] = "WAITING"
      BY <3>2, Pids DEF DebugInv, HandInv, SchedulerTypeOK
    <3>4. StandsBy(Debuggee)
      BY <2>1, <3>1 DEF DebugInv, HandInv, HandOver
    <3> QED BY <1>1, <2>1, <3>1, <3>3, <3>4 DEF StandsBy, HandInv, HandOver
  <2>3. ~ AtBreakpoint'
    BY <2>2 DEF AtBreakpoint
  <2>4. /\ callStack \in Seq(StackEntry) /\ DOMAIN callStack = 1 .. Len(callStack)
        /\ frames \in Seq(Frame) /\ Len(frames) \in Nat /\ frames # <<>> /\ Len(frames) # 0
        /\ frames[1].sound => Linked(frames, Coming)
    <3>1. callStack \in Seq(StackEntry) /\ frames \in Seq(Frame)
      BY DEF DebugInv, TypeOK
    <3>2. frames # <<>> /\ (frames[1].sound => Linked(frames, Coming))
      BY <2>1 DEF DebugInv, FramesInv
    <3> QED BY <3>1, <3>2, Elements
  <2>5. callStack # <<>> =>
          /\ Tail(callStack) \in Seq(StackEntry) /\ Head(callStack) = callStack[1]
          /\ \A k \in DOMAIN callStack :
                k # 1 => k - 1 \in DOMAIN Tail(callStack) /\ Tail(callStack)[k - 1] = callStack[k]
    <3> SUFFICES ASSUME callStack # <<>>
                 PROVE  /\ Tail(callStack) \in Seq(StackEntry) /\ Head(callStack) = callStack[1]
                        /\ \A k \in DOMAIN callStack :
                             k # 1 => k - 1 \in DOMAIN Tail(callStack) /\ Tail(callStack)[k - 1] = callStack[k]
      OBVIOUS
    <3>1. /\ Tail(callStack) \in Seq(StackEntry) /\ Extends(callStack, Tail(callStack)) /\ Head(callStack) = callStack[1]
          /\ Len(Tail(callStack)) = Len(callStack) - 1 /\ DOMAIN Tail(callStack) = 1 .. Len(Tail(callStack))
          /\ Len(callStack) \in Nat
      BY <2>4, Popped, Elements
    <3>2. \A k \in DOMAIN callStack : k # 1 => k - 1 \in 1 .. Len(Tail(callStack)) /\ (k - 1) + 1 = k
      BY <2>4, <3>1
    <3>3. ASSUME NEW k \in DOMAIN callStack, k # 1
          PROVE  k - 1 \in DOMAIN Tail(callStack) /\ Tail(callStack)[k - 1] = callStack[k]
      BY <3>1, <3>2, <3>3 DEF Extends
    <3> QED BY <3>1, <3>3
  <2>6. callStack' \in Seq(StackEntry)
    <3>1. PopsTop => callStack # <<>>
      BY DEF PopsTop
    <3> QED BY <2>1, <2>4, <2>5, <3>1
  <2>7. EndsInv'
    <3>1. \A i \in DOMAIN frames : frames[i].ret = EndHandler =>
             frames[i].fn # EndHandler /\ OnStack(callStack, frames[i].fn) /\ Ends(head, frames[i].fn)
      BY <2>1, OfHead DEF DebugInv
    <3>2. ASSUME NEW g, g # EndHandler, OnStack(callStack, g), Ends(head, g) PROVE OnStack(callStack', g)
      <4>1. CASE callStack' = callStack
        BY <3>2, <4>1
      <4>2. CASE callStack' # callStack
        <5>1. PopsTop /\ callStack' = Tail(callStack)
          BY <2>1, <4>2
        <5>2. callStack # <<>> /\ (callStack[1].addr = EndHandler \/ ~ Ends(head, callStack[1].addr))
          BY <2>5, <5>1, OfHead
        <5>3. PICK k \in DOMAIN callStack : callStack[k].addr = g
          BY <3>2 DEF OnStack
        <5>4. k # 1
          BY <3>2, <5>2, <5>3
        <5> QED BY <2>5, <5>1, <5>2, <5>3, <5>4 DEF OnStack
      <4> QED BY <4>1, <4>2
    <3>3. \A i \in DOMAIN frames' : frames'[i].ret = EndHandler =>
             frames'[i].fn # EndHandler /\ OnStack(callStack', frames'[i].fn) /\ Ends(head', frames'[i].fn)
      BY <1>2, <3>1, <3>2
    <3> QED BY <3>3, OfHeadNext, Zenon
  <2>8. FramesInv'
    <3> SUFFICES ASSUME frames[1].sound PROVE Linked(frames, callStack')
      BY <1>2, <2>3, <2>4 DEF FramesInv, Coming
    <3>1. CASE Len(frames) = 1
      BY <2>4, <3>1 DEF Linked
    <3>2. CASE Len(frames) # 1
      <4>1. AtBreakpoint
        <5>1. Len(frames) > 1
          <6>1. Len(frames) \in Nat /\ Len(frames) # 0 /\ Len(frames) # 1
            BY <2>4, <3>2, Zenon
          <6> QED BY <6>1
        <5>2. Debugging /\ StandsBy(Debuggee)
          BY <2>1, <2>2, Zenon
        <5> QED BY <5>1, <5>2 DEF AtBreakpoint
      <4>2. ~ LooksUpNull
        BY <2>5, <4>1 DEF DebugInv, StopInv, LooksUpNull
      <4>3. callStack' = Coming
        BY <2>1, <4>1, <4>2 DEF Coming
      <4> QED BY <2>4, <4>3
    <3> QED BY <3>1, <3>2
  <2>9. TypeOK'
    BY <1>1, <1>2, <2>6 DEF DebugInv, TypeOK, HandInv
  <2> QED BY <1>1, <1>3, <2>3, <2>7, <2>8, <2>9 DEF DebugInv, StopInv, BacktraceIsCallChain
<1> QED BY <1>4, <1>5 DEF WaitAndContinue

\* do_exit of the debugger: its list is not looked at again.
LEMMA DebuggerExitDebug == ASSUME DebugInv, DebuggerExits PROVE DebugInv'
<1>1. HandInv' /\ HandInv
  BY DebuggerExitKeeps DEF DebugInv
<1>2. /\ UNCHANGED <<breakpointCount, head, lastId, cpid, callStack, backtrace, frames, steps, forks>>
      /\ isDebugger' = FALSE /\ code' = [code EXCEPT ![EndHandler] = "intact"]
  BY DEF DebuggerExits, listVars, stackVars, boundVars
<1>3. TypeOK'
  BY <1>1, <1>2 DEF DebugInv, TypeOK, HandInv, Instructions, Code
<1>4. state'[Debugger] = "UNUSED"
  BY <1>1, DebuggerGone
<1>5. ~ Debugging'
  BY <1>2 DEF Debugging
<1> QED BY <1>1, <1>2, <1>3, <1>4, <1>5
        DEF DebugInv, ListInv, StopInv, EndsInv, FramesInv, BacktraceIsCallChain, AtBreakpoint

\* do_set_breakpoint on a function that has one: the list keeps its shape.
LEMMA Switched ==
  ASSUME DebugInv, NEW f \in Func, NEW end \in BOOLEAN,
         head' = [i \in DOMAIN head |-> IF head[i].addr = f THEN [head[i] EXCEPT !.end = end] ELSE head[i]]
  PROVE  /\ head' \in Seq(Breakpoint) /\ Len(head') = Len(head) /\ DOMAIN head' = DOMAIN head
         /\ \A i \in DOMAIN head : /\ head'[i].num = head[i].num /\ head'[i].addr = head[i].addr
                                  /\ head'[i].end = IF head[i].addr = f THEN end ELSE head[i].end
<1>1. head \in Seq(Breakpoint) /\ Len(head) \in Nat /\ DOMAIN head = 1 .. Len(head)
  BY Elements DEF DebugInv, TypeOK
<1>2. \A i \in DOMAIN head : head[i] \in Breakpoint
  BY BreakpointTyped
<1>3. \A b \in Breakpoint :
         /\ [b EXCEPT !.end = end] \in Breakpoint
         /\ [b EXCEPT !.end = end].num = b.num /\ [b EXCEPT !.end = end].addr = b.addr
         /\ [b EXCEPT !.end = end].end = end
  BY DEF Breakpoint
<1>4. \A i \in DOMAIN head : head'[i] = IF head[i].addr = f THEN [head[i] EXCEPT !.end = end] ELSE head[i]
  OBVIOUS
<1>5. \A i \in DOMAIN head :
          /\ head'[i] \in Breakpoint
          /\ head'[i].num = head[i].num /\ head'[i].addr = head[i].addr
          /\ head'[i].end = IF head[i].addr = f THEN end ELSE head[i].end
  BY <1>2, <1>3, <1>4
<1>6. head' \in [1 .. Len(head) -> Breakpoint]
  BY <1>1, <1>5
<1>7. head' \in Seq(Breakpoint) /\ Len(head') = Len(head) /\ DOMAIN head' = DOMAIN head
  BY <1>1, <1>6, SeqDef
<1> QED BY <1>5, <1>7

LEMMA StopOnStack == ASSUME DebugInv PROVE AtBreakpoint => OnStack(callStack, frames[1].fn)
<1>1. callStack \in Seq(StackEntry)
  BY DEF DebugInv, TypeOK
<1>2. callStack # <<>> => 1 \in DOMAIN callStack
  BY <1>1, EmptySeq, Elements
<1> QED BY <1>2 DEF DebugInv, StopInv, OnStack

LEMMA SetBreakpointDebug ==
  ASSUME DebugInv, NEW f \in Func, NEW end \in BOOLEAN, SetBreakpoint(f, end) PROVE DebugInv'
<1>1. HandInv' /\ isDebugger
  BY QuietKeeps DEF SetBreakpoint, Debugging, Debugs, DebugInv
<1>2. UNCHANGED <<isDebugger, cpid, callStack, backtrace, frames, steps, forks>> /\ (AtBreakpoint' <=> AtBreakpoint)
  BY DEF SetBreakpoint, stackVars, boundVars, schedVars, AtBreakpoint, Debugging, StandsBy
<1>3. /\ breakpointCount = Len(head)
      /\ \A i, j \in DOMAIN head : head[i].addr = head[j].addr => i = j
      /\ \A i, j \in DOMAIN head : i < j => head[i].num < head[j].num
      /\ \A i \in DOMAIN head : head[i].num <= lastId
      /\ \A g \in Func : HasInt3(g) <=> HasBreakpoint(g)
  BY <1>1 DEF DebugInv, ListInv
<1>4. CASE UNCHANGED <<listVars, code>>
  <2>1. UNCHANGED <<breakpointCount, head, lastId, code>>
    BY <1>4 DEF listVars
  <2>2. TypeOK' /\ ListInv'
    BY <1>1, <1>2, <2>1, ListKept DEF DebugInv, TypeOK, HandInv
  <2> QED BY <1>1, <1>2, <2>1, <2>2, NothingTouched DEF DebugInv
<1>5. CASE /\ HasBreakpoint(f) /\ ~ (EndEnabled(f) # end /\ IsOnStack(f))
           /\ head' = [i \in DOMAIN head |-> IF head[i].addr = f THEN [head[i] EXCEPT !.end = end] ELSE head[i]]
           /\ UNCHANGED <<breakpointCount, lastId, code>>
  <2>1. /\ head' \in Seq(Breakpoint) /\ Len(head') = Len(head) /\ DOMAIN head' = DOMAIN head
        /\ \A i \in DOMAIN head : /\ head'[i].num = head[i].num /\ head'[i].addr = head[i].addr
                                 /\ head'[i].end = IF head[i].addr = f THEN end ELSE head[i].end
    BY <1>5, Switched
  <2>2. TypeOK'
    BY <1>1, <1>2, <1>5, <2>1 DEF DebugInv, TypeOK, HandInv
  <2>3. \A g : Known(head', g) <=> Known(head, g)
    BY <2>1 DEF Known
  <2>4. \A g \in Func : HasInt3(g)' <=> HasBreakpoint(g)'
    <3>1. \A g \in Func : HasInt3(g)' <=> HasInt3(g)
      BY <1>5 DEF HasInt3
    <3>2. \A g \in Func : HasInt3(g)' <=> Known(head', g)
      BY <1>3, <2>3, <3>1, OfHead
    <3> QED BY <3>2 DEF Known, HasBreakpoint
  <2>5. ListInv'
    BY <1>1, <1>2, <1>3, <1>5, <2>1, <2>4 DEF ListInv
  <2>6. \A g : g # f => (Ends(head', g) <=> Ends(head, g))
    BY <2>1 DEF Ends
  <2>7. Ends(head', f) <=> end
    BY <1>5, <2>1 DEF Ends, HasBreakpoint
  <2>8. OnStack(callStack, f) => (end <=> Ends(head, f))
    BY <1>5, OfHead
  <2>9. \A g : OnStack(callStack, g) => (Ends(head', g) <=> Ends(head, g))
    BY <2>6, <2>7, <2>8
  <2>10. AtBreakpoint => OnStack(callStack, frames[1].fn)
    BY StopOnStack
  <2>11. StopInv' /\ EndsInv' /\ FramesInv' /\ BacktraceIsCallChain'
    BY <1>2, <2>2, <2>3, <2>9, <2>10, StackKept DEF TypeOK
  <2> QED BY <1>1, <2>2, <2>5, <2>11 DEF DebugInv
<1>6. CASE /\ ~ HasBreakpoint(f) /\ breakpointCount # MaxBreakpoints /\ lastId < MaxSetups
           /\ breakpointCount' = breakpointCount + 1 /\ lastId' = lastId + 1
           /\ head' = Append(head, [num |-> lastId + 1, addr |-> f, end |-> end])
           /\ code' = [code EXCEPT ![f] = WithInt3(@)]
  <2> DEFINE b == [num |-> lastId + 1, addr |-> f, end |-> end]
  <2>1. /\ head \in Seq(Breakpoint) /\ Len(head) \in Nat /\ DOMAIN head = 1 .. Len(head)
        /\ lastId \in 0 .. MaxSetups /\ breakpointCount \in 0 .. MaxBreakpoints /\ code \in [Code -> Instructions]
    BY Elements DEF DebugInv, TypeOK
  <2>2. b \in Breakpoint
    BY <1>6, <2>1, DebuggerAssumption DEF Breakpoint
  <2>3. /\ head' \in Seq(Breakpoint) /\ Len(head') = Len(head) + 1 /\ head'[Len(head) + 1] = b
        /\ \A i \in DOMAIN head : head'[i] = head[i]
        /\ DOMAIN head' = 1 .. Len(head) + 1
    BY <1>6, <2>1, <2>2, AppendProperties, Elements
  <2>4. /\ code' \in [Code -> Instructions] /\ f \in Code
        /\ \A g \in Func : HasInt3(g)' <=> HasInt3(g) \/ g = f
    BY <1>6, <2>1 DEF Code, WithInt3, Zeroed, Instructions, HasInt3
  <2>5. TypeOK'
    BY <1>1, <1>2, <1>6, <2>1, <2>3, <2>4, DebuggerAssumption DEF DebugInv, TypeOK, HandInv
  <2>6. \A g : Known(head', g) <=> Known(head, g) \/ g = f
    <3>1. \A g : Known(head', g) => Known(head, g) \/ g = f
      BY <2>1, <2>3 DEF Known
    <3>2. \A g : Known(head, g) => Known(head', g)
      BY <2>1, <2>3 DEF Known
    <3>3. Known(head', f)
      BY <2>1, <2>3 DEF Known
    <3> QED BY <3>1, <3>2, <3>3
  <2>7. \A g : g # f => (Ends(head', g) <=> Ends(head, g))
    BY <2>1, <2>3 DEF Ends
  <2>8. ~ Known(head, f) /\ ~ Ends(head, f)
    BY <1>6, OfHead DEF Known, Ends
  <2>9. ListInv'
    <3>1. \A g \in Func : HasInt3(g)' <=> HasBreakpoint(g)'
      <4>1. \A g \in Func : HasInt3(g)' <=> Known(head', g)
        BY <1>3, <2>4, <2>6, OfHead
      <4> QED BY <4>1 DEF Known, HasBreakpoint
    <3>2. \A i \in DOMAIN head : head[i].addr # f /\ head[i].num <= lastId /\ head[i].num \in Int
      BY <1>3, <1>6, BreakpointTyped DEF HasBreakpoint
    <3>3. \A i \in DOMAIN head' : i \in DOMAIN head \/ i = Len(head) + 1
      BY <2>1, <2>3
    <3>4. b.num = lastId + 1 /\ b.addr = f
      OBVIOUS
    <3> HIDE DEF b
    <3>5. \A i, j \in DOMAIN head' : head'[i].addr = head'[j].addr => i = j
      BY <1>3, <2>3, <3>2, <3>3, <3>4
    <3>6. \A i, j \in DOMAIN head' : i < j => head'[i].num < head'[j].num
      BY <1>3, <2>1, <2>3, <3>2, <3>3, <3>4
    <3>7. \A i \in DOMAIN head' : head'[i].num <= lastId'
      BY <1>6, <2>1, <2>3, <3>2, <3>3, <3>4
    <3> QED BY <1>1, <1>2, <1>3, <1>6, <2>3, <3>1, <3>5, <3>6, <3>7 DEF ListInv
  <2>10. AtBreakpoint /\ frames[1].sound => frames[1].fn # f
    BY <2>8, OfHead, Names DEF DebugInv
  <2>11. \A g : Ends(head, g) => Ends(head', g)
    BY <2>7, <2>8
  <2>12. StopInv' /\ EndsInv' /\ FramesInv' /\ BacktraceIsCallChain'
    BY <1>2, <2>5, <2>6, <2>7, <2>10, <2>11, StackKept DEF TypeOK
  <2> QED BY <1>1, <2>5, <2>9, <2>12 DEF DebugInv
<1> QED BY <1>4, <1>5, <1>6 DEF SetBreakpoint

\* An element taken out of a sequence.
LEMMA Without ==
  ASSUME NEW S, NEW s \in Seq(S), NEW k \in 1 .. Len(s)
  PROVE  /\ RemoveAt(s, k) \in Seq(S) /\ Len(RemoveAt(s, k)) = Len(s) - 1
         /\ \A i \in 1 .. Len(s) - 1 : RemoveAt(s, k)[i] = s[IF i < k THEN i ELSE i + 1]
<1> DEFINE a == SubSeq(s, 1, k - 1)
           b == SubSeq(s, k + 1, Len(s))
<1>1. Len(s) \in Nat /\ \A i \in 1 .. Len(s) : s[i] \in S
  BY Elements
<1>2. a \in Seq(S) /\ Len(a) = k - 1 /\ \A i \in 1 .. k - 1 : a[i] = s[i]
  BY <1>1, SubSeqProperties
<1>3. b \in Seq(S) /\ Len(b) = Len(s) - k /\ \A i \in 1 .. Len(s) - k : b[i] = s[k + i]
  BY <1>1, SubSeqProperties
<1> HIDE DEF a, b
<1>4. /\ a \o b \in Seq(S) /\ Len(a \o b) = Len(s) - 1
      /\ \A i \in 1 .. Len(s) - 1 : (a \o b)[i] = IF i <= k - 1 THEN a[i] ELSE b[i - (k - 1)]
  BY <1>1, <1>2, <1>3, ConcatProperties
<1>5. \A i \in 1 .. Len(s) - 1 : (a \o b)[i] = s[IF i < k THEN i ELSE i + 1]
  <2> TAKE i \in 1 .. Len(s) - 1
  <2>1. CASE i < k
    BY <1>1, <1>2, <1>4, <2>1
  <2>2. CASE ~ (i < k)
    <3>1. i - (k - 1) \in 1 .. Len(s) - k /\ k + (i - (k - 1)) = i + 1 /\ ~ (i <= k - 1)
      BY <1>1, <2>2
    <3> QED BY <1>3, <1>4, <2>2, <3>1
  <2> QED BY <2>1, <2>2
<1> QED BY <1>4, <1>5 DEF RemoveAt, a, b

\* do_remove_breakpoint: a function whose end is still to come keeps its breakpoint, and a
\* debuggee that has stopped at the start of f has no code any more.
LEMMA RemoveBreakpointDebug ==
  ASSUME DebugInv, NEW f \in Func, RemoveBreakpoint(f) PROVE DebugInv'
<1>1. HandInv' /\ isDebugger
  BY QuietKeeps DEF RemoveBreakpoint, Debugging, Debugs, DebugInv
<1>a. /\ frames' \in Seq(Frame) /\ Len(frames') = Len(frames) /\ (frames' = frames \/ ~ frames'[1].sound)
      /\ \A i \in 1 .. Len(frames) : frames'[i].fn = frames[i].fn /\ frames'[i].ret = frames[i].ret
  <2>1. frames \in Seq(Frame)
    BY DEF DebugInv, TypeOK
  <2>2. CASE frames' = frames
    BY <2>1, <2>2
  <2>3. CASE frames # <<>> /\ frames' = [frames EXCEPT ![1].sound = FALSE]
    <3>1. /\ Len(frames) \in Nat \ {0} /\ DOMAIN frames = 1 .. Len(frames) /\ frames \in [1 .. Len(frames) -> Frame]
          /\ \A i \in 1 .. Len(frames) : frames[i] \in Frame
      BY <2>1, <2>3, Elements
    <3>2. \A x \in Frame : LET y == [x EXCEPT !.sound = FALSE]
                            IN  y \in Frame /\ y.fn = x.fn /\ y.ret = x.ret /\ y.sound = FALSE
      BY DEF Frame
    <3>3. /\ DOMAIN frames' = 1 .. Len(frames)
          /\ \A i \in 1 .. Len(frames) : frames'[i] = IF i = 1 THEN [frames[1] EXCEPT !.sound = FALSE] ELSE frames[i]
      BY <2>3, <3>1
    <3>4. 1 \in 1 .. Len(frames)
      BY <3>1
    <3>5. \A i \in 1 .. Len(frames) : frames'[i] \in Frame
      BY <3>1, <3>2, <3>3, <3>4
    <3>6. frames' \in [1 .. Len(frames) -> Frame]
      BY <2>3, <3>1, <3>3, <3>5
    <3>7. frames' \in Seq(Frame) /\ Len(frames') = Len(frames)
      BY <3>1, <3>6, SeqDef
    <3>8. ~ frames'[1].sound
      BY <3>1, <3>2, <3>3, <3>4
    <3> QED BY <3>1, <3>2, <3>3, <3>4, <3>7, <3>8
  <2> QED BY <2>2, <2>3 DEF RemoveBreakpoint
<1>2. /\ UNCHANGED <<isDebugger, cpid, callStack, backtrace, steps, forks, lastId>>
      /\ AtBreakpoint' <=> AtBreakpoint
  BY <1>a DEF RemoveBreakpoint, stackVars, boundVars, schedVars, listVars, AtBreakpoint, Debugging, StandsBy
<1>3. /\ breakpointCount = Len(head)
      /\ \A i, j \in DOMAIN head : head[i].addr = head[j].addr => i = j
      /\ \A i, j \in DOMAIN head : i < j => head[i].num < head[j].num
      /\ \A i \in DOMAIN head : head[i].num <= lastId
      /\ \A g \in Func : HasInt3(g) <=> HasBreakpoint(g)
  BY <1>1 DEF DebugInv, ListInv
<1>4. CASE UNCHANGED <<listVars, code, frames>>
  <2>1. UNCHANGED <<breakpointCount, head, lastId, code, frames>>
    BY <1>4 DEF listVars
  <2>2. TypeOK'
    BY <1>1, <1>2, <2>1 DEF DebugInv, TypeOK, HandInv
  <2>3. ListInv'
    BY <1>1, <1>2, <2>1, ListKept
  <2> QED BY <1>1, <1>2, <2>1, <2>2, <2>3, NothingTouched DEF DebugInv
<1>5. CASE /\ HasBreakpoint(f) /\ ~ RefusesRemoval(f)
           /\ breakpointCount' = breakpointCount - 1 /\ head' = WithoutBreakpoint(f)
           /\ code' = [code EXCEPT ![f] = "zeroed"]
           /\ frames' = IF frames # <<>> /\ Head(frames).fn = f
                        THEN [frames EXCEPT ![1].sound = FALSE] ELSE frames
  <2> DEFINE k == PositionOf(f)
             up(i) == IF i < k THEN i ELSE i + 1
  <2>1. /\ head \in Seq(Breakpoint) /\ Len(head) \in Nat /\ DOMAIN head = 1 .. Len(head)
        /\ breakpointCount \in 0 .. MaxBreakpoints /\ code \in [Code -> Instructions]
    BY Elements DEF DebugInv, TypeOK
  <2>2. k \in 1 .. Len(head) /\ head[k].addr = f
    <3>1. \E i \in DOMAIN head : head[i].addr = f
      BY <1>5 DEF HasBreakpoint
    <3> QED BY <2>1, <3>1 DEF PositionOf
  <2> HIDE DEF k
  <2>3. head' = RemoveAt(head, k)
    BY <1>5 DEF WithoutBreakpoint, k
  <2>4. /\ head' \in Seq(Breakpoint) /\ Len(head') = Len(head) - 1
        /\ \A i \in 1 .. Len(head) - 1 : head'[i] = head[up(i)]
    BY <2>1, <2>2, <2>3, Without
  <2>5. DOMAIN head' = 1 .. Len(head) - 1
    BY <2>4, Elements
  <2>6. /\ \A i \in DOMAIN head' : up(i) \in DOMAIN head /\ up(i) # k /\ head'[i] = head[up(i)]
        /\ \A i, j \in DOMAIN head' : (up(i) = up(j) => i = j) /\ (i < j => up(i) < up(j))
        /\ \A j \in DOMAIN head : j # k => \E i \in DOMAIN head' : up(i) = j
    <3>1. \A i \in DOMAIN head' : up(i) \in DOMAIN head /\ up(i) # k /\ head'[i] = head[up(i)]
      BY <2>1, <2>2, <2>4, <2>5
    <3>2. \A i, j \in DOMAIN head' : (up(i) = up(j) => i = j) /\ (i < j => up(i) < up(j))
      BY <2>1, <2>2, <2>5
    <3>3. ASSUME NEW j \in DOMAIN head, j # k PROVE \E i \in DOMAIN head' : up(i) = j
      <4>1. CASE j < k
        <5>1. j \in DOMAIN head' /\ up(j) = j
          BY <2>1, <2>2, <2>5, <4>1
        <5> QED BY <5>1
      <4>2. CASE ~ (j < k)
        <5>1. j - 1 \in DOMAIN head' /\ up(j - 1) = j
          BY <2>1, <2>2, <2>5, <3>3, <4>2
        <5> QED BY <5>1
      <4> QED BY <4>1, <4>2
    <3> QED BY <3>1, <3>2, <3>3
  <2> HIDE DEF up
  <2>7. \A j \in DOMAIN head : head[j].addr = f <=> j = k
    BY <1>3, <2>1, <2>2
  <2>8. \A g : Known(head', g) <=> Known(head, g) /\ g # f
    <3>1. \A g : Known(head', g) => Known(head, g) /\ g # f
      BY <2>6, <2>7 DEF Known
    <3>2. ASSUME NEW g, Known(head, g), g # f PROVE Known(head', g)
      <4>1. PICK j \in DOMAIN head : head[j].addr = g
        BY <3>2 DEF Known
      <4>2. PICK i \in DOMAIN head' : up(i) = j
        BY <2>6, <2>7, <3>2, <4>1
      <4> QED BY <2>6, <4>1, <4>2 DEF Known
    <3> QED BY <3>1, <3>2
  <2>9. \A g : g # f => (Ends(head', g) <=> Ends(head, g))
    <3>1. \A g : Ends(head', g) => Ends(head, g)
      BY <2>6 DEF Ends
    <3>2. ASSUME NEW g, Ends(head, g), g # f PROVE Ends(head', g)
      <4>1. PICK j \in DOMAIN head : head[j].addr = g /\ head[j].end
        BY <3>2 DEF Ends
      <4>2. PICK i \in DOMAIN head' : up(i) = j
        BY <2>6, <2>7, <3>2, <4>1
      <4> QED BY <2>6, <4>1, <4>2 DEF Ends
    <3> QED BY <3>1, <3>2
  <2>10. /\ \A g : OnStack(callStack, g) /\ Ends(head, g) => Ends(head', g)
         /\ AtBreakpoint /\ frames'[1].sound => frames[1].fn # f
    <3>1. ~ (OnStack(callStack, f) /\ Ends(head, f))
      BY <1>5, OfHead DEF RefusesRemoval
    <3>2. \A g : OnStack(callStack, g) /\ Ends(head, g) => Ends(head', g)
      BY <2>9, <3>1
    <3>3. ASSUME AtBreakpoint, frames[1].fn = f PROVE ~ frames'[1].sound
      <4>1. frames \in Seq(Frame) /\ Len(frames) > 1
        BY <3>3 DEF DebugInv, TypeOK, AtBreakpoint
      <4>2. frames # <<>> /\ Head(frames) = frames[1] /\ frames[1] \in Frame /\ 1 \in DOMAIN frames
        BY <4>1, EmptySeq, Popped, Elements
      <4>3. frames' = [frames EXCEPT ![1].sound = FALSE]
        BY <1>5, <3>3, <4>2
      <4> QED BY <4>2, <4>3 DEF Frame
    <3> QED BY <3>2, <3>3
  <2>11. /\ code' \in [Code -> Instructions]
         /\ \A g \in Func : HasInt3(g)' <=> HasInt3(g) /\ g # f
    BY <1>5, <2>1 DEF Code, Instructions, HasInt3
  <2>12. TypeOK'
    <3>1. breakpointCount' \in 0 .. MaxBreakpoints
      BY <1>3, <1>5, <2>1, <2>2, DebuggerAssumption
    <3> QED BY <1>1, <1>2, <1>a, <2>4, <2>11, <3>1 DEF DebugInv, TypeOK, HandInv
  <2>13. ListInv'
    <3>1. \A g \in Func : HasInt3(g)' <=> HasBreakpoint(g)'
      <4>1. \A g \in Func : HasInt3(g)' <=> Known(head', g)
        BY <1>3, <2>8, <2>11, OfHead
      <4> QED BY <4>1 DEF Known, HasBreakpoint
    <3>2. \A i, j \in DOMAIN head' : head'[i].addr = head'[j].addr => i = j
      <4> TAKE i, j \in DOMAIN head'
      <4>1. up(i) \in DOMAIN head /\ up(j) \in DOMAIN head /\ head'[i] = head[up(i)] /\ head'[j] = head[up(j)]
        BY <2>6
      <4>2. up(i) = up(j) => i = j
        BY <2>6
      <4> QED BY <1>3, <4>1, <4>2
    <3>3. \A i, j \in DOMAIN head' : i < j => head'[i].num < head'[j].num
      <4> TAKE i, j \in DOMAIN head'
      <4>1. up(i) \in DOMAIN head /\ up(j) \in DOMAIN head /\ head'[i] = head[up(i)] /\ head'[j] = head[up(j)]
        BY <2>6
      <4>2. i < j => up(i) < up(j)
        BY <2>6
      <4> QED BY <1>3, <4>1, <4>2
    <3>4. \A i \in DOMAIN head' : head'[i].num <= lastId'
      BY <1>2, <1>3, <2>6
    <3> QED BY <1>1, <1>2, <1>3, <1>5, <2>4, <3>1, <3>2, <3>3, <3>4 DEF ListInv
  <2>14. StopInv' /\ EndsInv' /\ FramesInv' /\ BacktraceIsCallChain'
    BY <1>2, <1>a, <2>8, <2>9, <2>10, StackKept
  <2> QED BY <1>1, <2>12, <2>13, <2>14 DEF DebugInv
<1> QED BY <1>4, <1>5 DEF RemoveBreakpoint, listVars

LEMMA DebuggeeExitDebug == ASSUME DebugInv, DebuggeeExits PROVE DebugInv'
<1>1. HandInv /\ HandInv' /\ Runs(Debuggee)
  BY DebuggeeExitKeeps DEF DebugInv, DebuggeeExits, Debugged
<1>2. isDebugger
  BY <1>1, DebuggeeRuns DEF Debugging
<1>3. /\ UNCHANGED <<isDebugger, breakpointCount, head, lastId, callStack, backtrace, code, steps, forks>>
      /\ cpid' = NoChild /\ frames' = <<>>
  BY DEF DebuggeeExits, DebuggeeLeaves, listVars, stackVars, boundVars
<1>4. TypeOK' /\ ListInv'
  BY <1>1, <1>2, <1>3, ListKept, EmptySeq DEF DebugInv, TypeOK, HandInv
<1>5. ~ Debugging'
  BY <1>3, Pids DEF Debugging
<1> QED BY <1>1, <1>4, <1>5 DEF DebugInv, StopInv, EndsInv, FramesInv, BacktraceIsCallChain, AtBreakpoint

\* int3_handler: fr and cs are the stacks it leaves.
LEMMA StopDebug ==
  ASSUME DebugInv, Runs(Debuggee), HandInv',
         UNCHANGED <<ticksToSleep, isDebugger, listVars, cpid, code, forks>>, steps' \in 0 .. MaxSteps,
         NEW entry \in Code, NEW fr \in Seq(Frame), NEW cs \in Seq(StackEntry), Stop(entry, fr, cs),
         Len(fr) > 1, fr[1].fn = entry, cs # <<>>, cs[1].addr = entry,
         entry = EndHandler \/ HasBreakpoint(entry),
         \A i \in DOMAIN fr : fr[i].ret = EndHandler => Ends(head, fr[i].fn),
         Linked(fr, OwnEntries(entry, cs))
  PROVE  DebugInv'
<1>1. Debugging /\ isDebugger /\ HandInv /\ StandsBy(Debugger)
  BY DebuggeeRuns DEF DebugInv, Debugging
<1>2. /\ UNCHANGED <<isDebugger, breakpointCount, head, lastId, cpid, code, forks>>
      /\ frames' = fr /\ callStack' = cs /\ backtrace' = WalkStack(entry, fr, cs)
  BY DEF listVars, Stop
<1>3. ListInv'
  BY <1>1, <1>2, ListKept
<1>4. AtBreakpoint'
  <2>1. ~ StandsBy(Debugger)'
    <3>1. state' = [[DebuggerAwake(state) EXCEPT ![Debuggee] = "WAITING"] EXCEPT ![Debugger] = "RUNNING"]
      BY Pids DEF Stop, Schedule
    <3>2. state'[Debugger] = "RUNNING"
      BY <1>1, <3>1, Pids DEF HandInv, SchedulerTypeOK, DebuggerAwake
    <3> QED BY <3>2 DEF StandsBy
  <2>2. Debugging'
    BY <1>1, <1>2 DEF Debugging
  <2> QED BY <1>2, <2>1, <2>2 DEF AtBreakpoint, HandInv, HandOver
<1>5. Head(cs) = cs[1] /\ Head(fr) = fr[1] /\ fr # <<>> /\ 1 \in DOMAIN cs /\ DOMAIN cs = 1 .. Len(cs)
  <2>1. fr # <<>>
    BY EmptySeq
  <2> QED BY <2>1, Popped, Elements
<1>6. StopInv'
  <2>1. entry = EndHandler \/ Known(head, entry)
    BY OfHead
  <2> QED BY <1>2, <1>5, <2>1, OfHeadNext
<1>7. (PopsTop' /\ OwnEntries(entry, cs) = Tail(cs)) \/ (~ PopsTop' /\ OwnEntries(entry, cs) = cs)
  <2>1. PopsTop' <=> entry = EndHandler \/ ~ Ends(head, entry)
    BY <1>2, <1>5, OfHeadNext
  <2>2. OwnEntries(entry, cs) = IF entry = EndHandler \/ ~ Ends(head, entry) THEN Tail(cs) ELSE cs
    BY OfHead DEF OwnEntries
  <2> QED BY <2>1, <2>2
<1>a. Coming' = OwnEntries(entry, cs)
  BY <1>2, <1>4, <1>7, Zenon DEF Coming
<1>8. FramesInv'
  BY <1>2, <1>5, <1>a DEF FramesInv
<1>b. EndsInv'
  <2> DEFINE own == OwnEntries(entry, cs)
  <2>1. \A k \in DOMAIN own : \E j \in DOMAIN cs : cs[j] = own[k]
    <3>1. CASE own = cs
      BY <3>1
    <3>2. CASE own = Tail(cs)
      <4>1. /\ Extends(cs, Tail(cs)) /\ DOMAIN Tail(cs) = 1 .. Len(Tail(cs)) /\ Len(Tail(cs)) \in Nat
            /\ DOMAIN cs = 1 .. Len(cs)
        BY Popped, Elements
      <4>2. \A k \in DOMAIN Tail(cs) : k + 1 \in DOMAIN cs /\ cs[k + 1] = Tail(cs)[k]
        BY <4>1 DEF Extends
      <4> QED BY <3>2, <4>2
    <3> QED BY <1>7, <3>1, <3>2
  <2>2. Linked(fr, own)
    OBVIOUS
  <2> HIDE DEF own
  <2>3. ASSUME NEW i \in DOMAIN fr, fr[i].ret = EndHandler
        PROVE  fr[i].fn # EndHandler /\ OnStack(cs, fr[i].fn) /\ Ends(head, fr[i].fn)
    <3>1. fr[i].fn # EndHandler /\ \E k \in DOMAIN own : own[k].addr = fr[i].fn
      BY <2>2, <2>3, LinkedOnStack
    <3>2. PICK k \in DOMAIN own : own[k].addr = fr[i].fn
      BY <3>1
    <3> QED BY <2>1, <2>3, <3>1, <3>2 DEF OnStack
  <2> QED BY <1>2, <2>3, OfHeadNext
<1> DEFINE active == IF entry = EndHandler THEN Tail(fr) ELSE fr
           shown  == IF Len(active) < MaxBacktrace THEN Len(active) ELSE MaxBacktrace
<1>9. /\ \A i \in DOMAIN active : active[i].fn # EndHandler
      /\ backtrace' \in Seq(Address) /\ Len(backtrace') = shown
      /\ \A i \in 1 .. shown : backtrace'[i] = active[i].fn
  <2>1. LET a == IF entry = EndHandler THEN Tail(fr) ELSE fr
             n == IF Len(a) < MaxBacktrace THEN Len(a) ELSE MaxBacktrace
             w == WalkStack(entry, fr, cs)
         IN  /\ \A i \in DOMAIN a : a[i].fn # EndHandler
             /\ w \in Seq(Address) /\ Len(w) = n
             /\ \A i \in 1 .. n : w[i] = a[i].fn
    BY <1>5, WalkFinds
  <2> QED BY <1>2, <2>1, Zenon
<1>10. Len(active) \in Nat
  BY <1>5, Popped, Elements
<1> HIDE DEF active
<1>11. Backtrace' = [i \in 1 .. shown |-> active[i].fn]
  <2>1. shown <= MaxBacktrace
    BY <1>10, DebuggerAssumption
  <2>2. Backtrace' = SubSeq(backtrace', 1, Len(backtrace'))
    BY <1>9, <1>10, <2>1, DebuggerAssumption DEF Backtrace
  <2>3. Backtrace' = backtrace'
    BY <1>9, <2>2, SubSeqFull
  <2>4. backtrace' \in [1 .. shown -> Address]
    BY <1>9, LenProperties
  <2> QED BY <1>9, <2>3, <2>4
<1>12. BacktraceIsCallChain'
  <2>1. Head(frames').fn = entry /\ frames' = fr
    BY <1>2, <1>5
  <2> QED BY <1>9, <1>11, <2>1 DEF BacktraceIsCallChain, active
<1>13. TypeOK'
  BY <1>1, <1>2, <1>9 DEF DebugInv, TypeOK, HandInv
<1> QED BY <1>3, <1>6, <1>8, <1>b, <1>12, <1>13 DEF DebugInv

\* The debuggee goes on by itself, with another stack.
LEMMA StackMoves ==
  ASSUME DebugInv, Runs(Debuggee), HandInv',
         UNCHANGED <<isDebugger, listVars, stackVars, cpid, code, forks>>, steps' \in 0 .. MaxSteps,
         UNCHANGED <<state, ticksToSleep>>, frames' \in Seq(Frame), Linked(frames', callStack),
         \A i \in DOMAIN frames' : frames'[i].ret = EndHandler => Ends(head, frames'[i].fn)
  PROVE  DebugInv'
<1>1. HandInv /\ isDebugger /\ Debugging /\ StandsBy(Debugger) /\ ~ StandsBy(Debuggee)
  BY DebuggeeRuns DEF DebugInv, HandInv, HandOver, Debugging
<1>2. UNCHANGED <<isDebugger, breakpointCount, head, lastId, cpid, callStack, backtrace, code, forks>>
  BY DEF listVars, stackVars
<1>3. ListInv' /\ TypeOK'
  BY <1>1, <1>2, ListKept DEF DebugInv, TypeOK, HandInv
<1>4. ~ AtBreakpoint'
  BY <1>1 DEF AtBreakpoint, StandsBy
<1>5. EndsInv'
  <2>1. \A i \in DOMAIN frames' : frames'[i].ret = EndHandler =>
           frames'[i].fn # EndHandler /\ OnStack(callStack, frames'[i].fn) /\ Ends(head, frames'[i].fn)
    BY LinkedOnStack DEF OnStack
  <2> QED BY <1>2, <2>1, OfHeadNext
<1>6. FramesInv'
  BY <1>2, <1>4 DEF FramesInv, Coming, Linked
<1> QED BY <1>3, <1>4, <1>5, <1>6 DEF DebugInv, StopInv, BacktraceIsCallChain

\* While the debuggee executes, its code is sound.
LEMMA Executing ==
  ASSUME DebugInv, Runs(Debuggee), Head(frames).sound
  PROVE  /\ frames \in Seq(Frame) /\ callStack \in Seq(StackEntry) /\ Linked(frames, callStack) /\ isDebugger
         /\ \A i \in DOMAIN frames : frames[i].ret = EndHandler => Ends(head, frames[i].fn)
<1>1. Debugging /\ StandsBy(Debugger) /\ isDebugger
  BY DebuggeeRuns DEF DebugInv, Debugging
<1>2. Linked(frames, callStack)
  BY <1>1, RunningFrames
<1>3. \A i \in DOMAIN frames : frames[i].ret = EndHandler => Ends(head, frames[i].fn)
  BY <1>1, OfHead DEF DebugInv
<1> QED BY <1>1, <1>2, <1>3 DEF DebugInv, TypeOK

LEMMA CallDebug == ASSUME DebugInv, NEW f \in Func, Call(f) PROVE DebugInv'
<1> DEFINE ret == Head(frames).fn
<1>1. /\ Runs(Debuggee) /\ Head(frames).sound /\ ret \in Func \cup {Main} /\ steps' = steps - 1 /\ steps > 0
      /\ UNCHANGED <<ticksToSleep, isDebugger, listVars, cpid, code, forks>>
  BY DEF Call, Executes, Debugged
<1>2. HandInv /\ HandInv' /\ steps' \in 0 .. MaxSteps
  BY <1>1, CallKeeps, DebuggerAssumption DEF DebugInv, TypeOK
<1>3. /\ frames \in Seq(Frame) /\ callStack \in Seq(StackEntry) /\ Linked(frames, callStack) /\ isDebugger
      /\ \A i \in DOMAIN frames : frames[i].ret = EndHandler => Ends(head, frames[i].fn)
  BY <1>1, Executing
<1>4. frames # <<>> /\ ret = frames[1].fn /\ ret # EndHandler /\ ret \in Address /\ f \in Code /\ f # EndHandler
  <2>1. frames # <<>>
    BY <1>3 DEF Linked
  <2> QED BY <1>1, <1>3, <2>1, Popped, Names DEF Address, Code
<1> HIDE DEF ret
<1>5. CASE HasInt3(f)
  <2> DEFINE kept  == IF EndEnabled(f) THEN EndHandler ELSE ret
             top   == [fn |-> f, ret |-> kept, sound |-> code[f] = "int3"]
             entry == [addr |-> f, ret |-> ret]
             fr    == <<top>> \o frames
             cs    == <<entry>> \o callStack
  <2>1. Stop(f, fr, cs)
    BY <1>5 DEF Call, StopAtStart, ret
  <2>2. top \in Frame /\ top.fn = f /\ top.ret = kept
    BY <1>4 DEF Frame, Code, Address
  <2>3. entry \in StackEntry /\ entry.addr = f /\ entry.ret = ret
    BY <1>4 DEF StackEntry
  <2>4. HasBreakpoint(f)
    BY <1>3, <1>5 DEF DebugInv, ListInv
  <2> HIDE DEF top
  <2>5. fr \in Seq(Frame) /\ fr # <<>> /\ Extends(fr, frames) /\ fr[1] = top /\ Len(frames) \in Nat \ {0}
    BY <1>3, <1>4, <2>2, Pushed, Elements
  <2>6. cs \in Seq(StackEntry) /\ cs # <<>> /\ Extends(cs, callStack) /\ cs[1] = entry /\ Tail(cs) = callStack
        /\ DOMAIN cs = 1 .. Len(cs) /\ DOMAIN callStack = 1 .. Len(callStack) /\ Len(callStack) \in Nat
    <3> HIDE DEF entry
    <3>1. cs \in Seq(StackEntry) /\ cs # <<>> /\ Extends(cs, callStack) /\ cs[1] = entry /\ Tail(cs) = callStack
      BY <1>3, <2>3, Pushed
    <3> QED BY <1>3, <3>1, Elements
  <2> HIDE DEF fr, cs
  <2>7. \A i \in DOMAIN fr : fr[i].ret = EndHandler => Ends(head, fr[i].fn)
    <3>1. \A i \in DOMAIN fr : i = 1 \/ (i - 1 \in DOMAIN frames /\ fr[i] = frames[i - 1])
      BY <1>3, <2>5, AboveOf
    <3>2. top.ret = EndHandler => Ends(head, top.fn)
      BY <1>4, <2>2, OfHead
    <3> QED BY <1>3, <2>5, <3>1, <3>2
  <2>8. Linked(fr, OwnEntries(f, cs))
    <3>1. CASE EndEnabled(f)
      <4>1. OwnEntries(f, cs) = cs /\ fr[1].ret = EndHandler /\ fr[1].fn # EndHandler /\ Own(fr) = 1
        BY <1>4, <2>2, <2>5, <3>1 DEF OwnEntries, Own
      <4>2. 1 \in DOMAIN cs /\ cs[1] = [addr |-> fr[1].fn, ret |-> frames[1].fn]
        BY <1>4, <2>2, <2>5, <2>6 DEF Extends
      <4>3. \A k \in DOMAIN callStack : k + Own(fr) \in DOMAIN cs /\ cs[k + Own(fr)] = callStack[k]
        BY <2>6, <4>1 DEF Extends
      <4>4. Linked(fr, cs)
        <5> HIDE DEF entry
        <5> QED BY <1>3, <1>4, <2>5, <2>6, <4>1, <4>2, <4>3, LinkedAbove
      <4> QED BY <4>1, <4>4
    <3>2. CASE ~ EndEnabled(f)
      <4>1. OwnEntries(f, cs) = callStack /\ fr[1].ret # EndHandler /\ fr[1].ret = frames[1].fn /\ Own(fr) = 0
        BY <1>4, <2>2, <2>5, <2>6, <3>2 DEF OwnEntries, Own
      <4>2. \A k \in DOMAIN callStack : k + 0 \in DOMAIN callStack /\ callStack[k + 0] = callStack[k]
        BY <2>6
      <4> QED BY <1>3, <1>4, <2>5, <4>1, <4>2, LinkedAbove
    <3> QED BY <3>1, <3>2
  <2>9. Len(fr) > 1 /\ fr[1].fn = f /\ cs[1].addr = f
    BY <2>2, <2>3, <2>5, <2>6 DEF Extends
  <2> HIDE DEF entry
  <2> QED BY <1>1, <1>2, <1>4, <2>1, <2>4, <2>5, <2>6, <2>7, <2>8, <2>9, StopDebug
<1>6. CASE ~ HasInt3(f)
  <2> DEFINE top == [fn |-> f, ret |-> ret, sound |-> TRUE]
  <2>1. frames' = <<top>> \o frames /\ UNCHANGED <<state, ticksToSleep, stackVars>>
    BY <1>6 DEF Call, ret
  <2>2. top \in Frame /\ top.ret = ret
    BY <1>4 DEF Frame, Code, Address
  <2> HIDE DEF top
  <2>3. frames' \in Seq(Frame) /\ Extends(frames', frames) /\ frames'[1] = top
    BY <1>3, <2>1, <2>2, Pushed
  <2>4. Own(frames') = 0 /\ frames'[1].ret # EndHandler /\ frames'[1].ret = frames[1].fn
    BY <1>4, <2>2, <2>3 DEF Own
  <2>5. \A k \in DOMAIN callStack : k + 0 \in DOMAIN callStack /\ callStack[k + 0] = callStack[k]
    BY <1>3, Elements
  <2>6. Linked(frames', callStack)
    BY <1>3, <1>4, <2>3, <2>4, <2>5, LinkedAbove
  <2>7. \A i \in DOMAIN frames' : frames'[i].ret = EndHandler => Ends(head, frames'[i].fn)
    <3>1. \A i \in DOMAIN frames' : i = 1 \/ (i - 1 \in DOMAIN frames /\ frames'[i] = frames[i - 1])
      BY <1>3, <2>3, AboveOf
    <3> QED BY <1>3, <2>4, <3>1
  <2> QED BY <1>1, <1>2, <2>1, <2>3, <2>6, <2>7, StackMoves
<1> QED BY <1>5, <1>6

LEMMA ReturnDebug == ASSUME DebugInv, Return PROVE DebugInv'
<1> DEFINE rest == Tail(frames)
<1>1. /\ Runs(Debuggee) /\ Head(frames).sound /\ Head(frames).fn \in Code
      /\ UNCHANGED <<ticksToSleep, isDebugger, listVars, cpid, code, forks, steps>>
  BY DEF Return, Executes, Debugged, boundVars
<1>2. HandInv /\ HandInv' /\ steps' \in 0 .. MaxSteps
  BY <1>1, ReturnKeeps DEF DebugInv, TypeOK
<1>3. /\ frames \in Seq(Frame) /\ callStack \in Seq(StackEntry) /\ Linked(frames, callStack) /\ isDebugger
      /\ \A i \in DOMAIN frames : frames[i].ret = EndHandler => Ends(head, frames[i].fn)
  BY <1>1, Executing
<1>4. frames # <<>> /\ frames[Len(frames)].fn = Main
  BY <1>3 DEF Linked
<1>5. /\ rest \in Seq(Frame) /\ Extends(frames, rest) /\ Head(frames) = frames[1] /\ Len(rest) = Len(frames) - 1
      /\ Len(frames) \in Nat
  BY <1>3, <1>4, Popped, Elements
<1>6. rest # <<>> /\ Len(rest) \in Nat \ {0}
  <2>1. Len(frames) # 1
    BY <1>1, <1>4, <1>5, Names DEF Code
  <2>2. Len(rest) # 0 /\ Len(rest) \in Nat
    BY <1>5, <2>1, EmptySeq, Elements
  <2> QED BY <2>2, EmptySeq
<1> HIDE DEF rest
<1>9. \A i \in DOMAIN rest : rest[i].ret = EndHandler => Ends(head, rest[i].fn)
  <2>1. \A i \in DOMAIN rest : i + 1 \in DOMAIN frames /\ frames[i + 1] = rest[i]
    BY <1>3, <1>5, <1>6, Elements DEF Extends
  <2> QED BY <1>3, <2>1
<1>7. CASE Head(frames).ret = EndHandler
  <2> DEFINE back  == Head(callStack).ret
             top   == [fn |-> EndHandler, ret |-> back, sound |-> TRUE]
             entry == [addr |-> EndHandler, ret |-> back]
             below == Tail(callStack)
             fr    == <<top>> \o rest
             cs    == <<entry>> \o below
  <2>1. Stop(EndHandler, fr, cs)
    BY <1>7 DEF Return, StopAtEnd, rest
  <2>2. callStack # <<>>
    <3>1. EndsAtCaller(frames, callStack, 1)
      BY <1>3, <1>5, <1>6 DEF Linked
    <3>2. DOMAIN callStack # {}
      BY <1>5, <1>7, <3>1 DEF EndsAtCaller
    <3> QED BY <3>2
  <2>3. /\ below \in Seq(StackEntry) /\ Extends(callStack, below) /\ Head(callStack) = callStack[1]
        /\ DOMAIN callStack = 1 .. Len(callStack) /\ DOMAIN below = 1 .. Len(below)
        /\ Len(below) \in Nat /\ Len(callStack) \in Nat
    BY <1>3, <2>2, Popped, Elements
  <2> HIDE DEF below
  <2>4. Own(frames) = 1
    BY <1>5, <1>7 DEF Own
  <2>5. \A k \in Nat \ {0} : k + Own(frames) \in DOMAIN callStack
                             => k \in DOMAIN below /\ below[k] = callStack[k + Own(frames)]
    BY <2>3, <2>4 DEF Extends
  <2>6. /\ Linked(rest, below) /\ rest[1].fn # EndHandler
        /\ callStack[1] = [addr |-> frames[1].fn, ret |-> rest[1].fn]
    <3>1. frames[1].ret = EndHandler
      BY <1>5, <1>7
    <3> HIDE DEF back, top, entry, fr, cs
    <3>2. /\ Linked(rest, below) /\ rest[1].fn # EndHandler
          /\ \/ frames[1].ret # EndHandler /\ frames[1].ret = rest[1].fn
             \/ /\ frames[1].ret = EndHandler /\ frames[1].fn # EndHandler
                /\ 1 \in DOMAIN callStack /\ callStack[1] = [addr |-> frames[1].fn, ret |-> rest[1].fn]
      <4>1. /\ rest \in Seq(Frame) /\ frames \in Seq(Frame) /\ Extends(frames, rest) /\ rest # <<>>
            /\ below \in Seq(StackEntry) /\ callStack \in Seq(StackEntry) /\ Linked(frames, callStack)
        BY <1>3, <1>5, <1>6, <2>3
      <4> QED BY <4>1, <2>5, LinkedBelow
    <3> QED BY <3>1, <3>2
  <2>7. back = rest[1].fn /\ back \in Address /\ back # EndHandler
    <3>1. back = rest[1].fn /\ rest[1] \in Frame
      BY <1>5, <1>6, <2>3, <2>6, Elements
    <3> QED BY <2>6, <3>1 DEF Frame, Address
  <2> HIDE DEF back
  <2>8. top \in Frame /\ top.fn = EndHandler /\ top.ret = back
    BY <2>7 DEF Frame, Code
  <2>9. entry \in StackEntry /\ entry.addr = EndHandler
    BY <2>7 DEF StackEntry, Code
  <2> HIDE DEF top, entry
  <2>10. fr \in Seq(Frame) /\ fr # <<>> /\ Extends(fr, rest) /\ fr[1] = top
    BY <1>5, <2>8, Pushed
  <2>11. /\ cs \in Seq(StackEntry) /\ cs # <<>> /\ Extends(cs, below) /\ cs[1] = entry /\ Tail(cs) = below
         /\ DOMAIN cs = 1 .. Len(cs)
    BY <2>3, <2>9, Pushed, Elements
  <2> HIDE DEF fr, cs
  <2>12. Len(fr) > 1 /\ fr[1].fn = EndHandler /\ cs[1].addr = EndHandler
    BY <1>6, <2>8, <2>9, <2>10, <2>11 DEF Extends
  <2>13. \A i \in DOMAIN fr : fr[i].ret = EndHandler => Ends(head, fr[i].fn)
    <3>1. \A i \in DOMAIN fr : i = 1 \/ (i - 1 \in DOMAIN rest /\ fr[i] = rest[i - 1])
      BY <1>5, <2>10, AboveOf
    <3>2. top.ret # EndHandler
      BY <2>7, <2>8
    <3> QED BY <1>9, <2>10, <3>1, <3>2
  <2>14. Linked(fr, OwnEntries(EndHandler, cs))
    <3>1. OwnEntries(EndHandler, cs) = below
      BY <2>11 DEF OwnEntries
    <3>2. Own(fr) = 0 /\ fr[1].ret # EndHandler /\ fr[1].ret = rest[1].fn
      BY <2>7, <2>8, <2>10 DEF Own
    <3>3. \A k \in DOMAIN below : k + 0 \in DOMAIN below /\ below[k + 0] = below[k]
      BY <2>3
    <3> QED BY <1>5, <2>3, <2>6, <2>10, <3>1, <3>2, <3>3, LinkedAbove
  <2>15. EndHandler \in Code
    BY DEF Code
  <2> QED BY <1>1, <1>2, <2>1, <2>10, <2>11, <2>12, <2>13, <2>14, <2>15, StopDebug
<1>8. CASE Head(frames).ret # EndHandler
  <2>1. frames' = rest /\ UNCHANGED <<state, ticksToSleep, stackVars>>
    BY <1>8 DEF Return, rest
  <2>2. Own(frames) = 0
    BY <1>5, <1>8 DEF Own
  <2>3. \A k \in Nat \ {0} : k + 0 \in DOMAIN callStack => k \in DOMAIN callStack /\ callStack[k] = callStack[k + 0]
    OBVIOUS
  <2>4. Linked(rest, callStack)
    BY <1>3, <1>5, <1>6, <2>2, <2>3, LinkedBelow
  <2> QED BY <1>1, <1>2, <1>5, <1>9, <2>1, <2>4, StackMoves
<1> QED BY <1>7, <1>8

LEMMA NextDebug == ASSUME DebugInv, [Next]_vars PROVE DebugInv'
<1>1. ASSUME DebuggerStep PROVE DebugInv'
  <2>1. ASSUME NEW f \in Func, NEW end \in BOOLEAN, SetBreakpoint(f, end) PROVE DebugInv'
    BY <2>1, SetBreakpointDebug
  <2>2. ASSUME NEW f \in Func, RemoveBreakpoint(f) PROVE DebugInv'
    BY <2>2, RemoveBreakpointDebug
  <2>3. ASSUME NEW ticks \in 1 .. MaxSleep, DebuggerSleeps(ticks) PROVE DebugInv'
    BY <2>3, DebuggerSleepDebug
  <2> QED BY <1>1, <2>1, <2>2, <2>3, BecomeDebug, ForkDebug, WaitDebug, DebuggerExitDebug DEF DebuggerStep
<1>2. ASSUME DebuggeeStep PROVE DebugInv'
  <2>1. ASSUME NEW f \in Func, Call(f) PROVE DebugInv'
    BY <2>1, CallDebug
  <2>2. ASSUME NEW ticks \in 1 .. MaxSleep, DebuggeeSleeps(ticks) PROVE DebugInv'
    BY <2>2, DebuggeeSleepDebug
  <2> QED BY <1>2, <2>1, <2>2, ReturnDebug, DebuggeeExitDebug DEF DebuggeeStep
<1>3. ASSUME UNCHANGED vars PROVE DebugInv'
  <2>1. UNCHANGED <<debugVars, code, frames, state, ticksToSleep, isDebugger, cpid, steps, forks>>
    BY <1>3 DEF vars, schedVars, boundVars, debugVars
  <2>2. HandInv' /\ steps' \in 0 .. MaxSteps
    BY <1>3, <2>1, NextHand DEF DebugInv, TypeOK
  <2>3. AtBreakpoint' <=> AtBreakpoint
    BY <2>1 DEF AtBreakpoint, Debugging, StandsBy
  <2> QED BY <2>1, <2>2, <2>3, AllKept
<1> QED BY <1>1, <1>2, <1>3, TickDebug DEF Next, Stopped

LEMMA DebugInvariant == Spec => []DebugInv
BY InitDebug, NextDebug, PTL DEF Spec

\* Every variable keeps its type, counters and stacks included.
THEOREM DebuggerTypeCorrect == Spec => []TypeOK
<1>1. DebugInv => TypeOK
  BY DEF DebugInv
<1> QED BY <1>1, DebugInvariant, PTL

(***************************************************************************)
(* While the debuggee runs, each of its frames returns to its caller: by   *)
(* itself, or through end_handler and the entry of the call stack at its   *)
(* place (debug.c:154-183, 421-436).                                       *)
(***************************************************************************)
THEOREM ReturnsHomeCorrect == Spec => []ReturnsHome
BY RunningLinked, DebugInvariant, PTL

(***************************************************************************)
(* At every stop the backtrace is the chain of the functions that are      *)
(* active, as far as it has room (debug.c:185-208, 392-401).               *)
(***************************************************************************)
THEOREM BacktraceCorrect == Spec => []BacktraceIsCallChain
<1>1. DebugInv => BacktraceIsCallChain
  BY DEF DebugInv
<1> QED BY <1>1, DebugInvariant, PTL

(***************************************************************************)
(* List, count, numbers and int3 instructions agree whatever is set and    *)
(* removed (debug.c:269-365).                                              *)
(***************************************************************************)
THEOREM BreakpointsCorrect == Spec => []BreakpointsAgree
BY ListAgrees, DebugInvariant, PTL

(***************************************************************************)
(* A function whose return address has been replaced keeps its breakpoint, *)
(* end enabled, until it has returned, whatever the debugger sets, removes *)
(* and forgets at the stops in between (debug.c:170-176, 192, 291-295,     *)
(* 331-333, 421-436).                                                      *)
(***************************************************************************)
THEOREM EndsKeptCorrect == Spec => []EndsKeptEnabled
BY EndsKept, DebugInvariant, PTL
===============================================================================
