-------------------------------- MODULE Debugger -------------------------------
(***************************************************************************)
(* The debugger of gemOS (debug.c and its callers in entry.c).  A process  *)
(* becomes a debugger, forks a debuggee, sets breakpoints in the code the  *)
(* two share, and hands the processor to the debuggee and back: one of     *)
(* them waits while the other runs.                                        *)
(*                                                                         *)
(* A breakpoint replaces the push %rbp a function starts with by int3.     *)
(* With its end enabled, int3_handler also replaces the return address in  *)
(* the debuggee's stack by the address of end_handler, which starts with   *)
(* int3 too, and keeps the real one on a call stack of its own.            *)
(*                                                                         *)
(* A return address is known by the function it lies in: frames is the     *)
(* stack of the debuggee, top first, with the return addresses that are    *)
(* really stored there.                                                    *)
(***************************************************************************)
EXTENDS Scheduler, Sequences, SequencesExt

CONSTANTS Func,            \* the functions breakpoints are set on
          Main,            \* the function that forks the debuggee
          EndHandler,      \* the debugger's end_handler
          EndAddr,         \* END_ADDR, where main returns to
          CallGraph,       \* the calls in the debuggee's code, <<caller, callee>>
          MaxBreakpoints,  \* MAX_BREAKPOINTS
          MaxBacktrace,    \* MAX_BACKTRACE
          MaxSteps,        \* bound: calls and sleeps of one debuggee
          MaxSetups,       \* bound: breakpoints ever set, last_id
          MaxForks,        \* bound: debuggees
          MaxSleep         \* bound: ticks of a sleep

Debugger == 1
Debuggee == 2
Code     == Func \cup {EndHandler}
Address  == Code \cup {Main, EndAddr}

ASSUME DebuggerAssumption ==
  /\ Debuggee \in User
  /\ CallGraph \subseteq (Func \cup {Main}) \X Func
  /\ Cardinality({Main, EndHandler, EndAddr}) = 3
  /\ {Main, EndHandler, EndAddr} \cap Func = {}
  /\ MaxBreakpoints \in Nat /\ MaxBacktrace \in Nat \ {0}
  /\ MaxSteps \in Nat /\ MaxSetups \in Nat /\ MaxForks \in Nat /\ MaxSleep \in Nat

ChildExit == 0      \* CHILD_EXIT
NoChild   == -1     \* cpid after the debuggee's exit
NotForked == 0      \* cpid in the zeroed debug_info
StaleRax  == -2     \* what wait returns when the debuggee exits: rax as it was at the call

VARIABLES isDebugger,        \* dbg is not NULL; its members are the next six
          breakpointCount,   \* number of breakpoints
          head,              \* the list of breakpoints
          lastId,            \* the number of the newest one
          cpid,              \* the debuggee
          callStack,         \* functions with an end to come, newest first
          backtrace,         \* taken at the last stop
          code,              \* the first instructions of each function
          frames,            \* the debuggee's stack
          steps,             \* calls and sleeps it may still make
          forks,             \* debuggees so far
          reply              \* the result of the debugger's last system call

listVars  == <<breakpointCount, head, lastId>>
stackVars == <<callStack, backtrace>>
boundVars == <<steps, forks>>
debugVars == <<isDebugger, listVars, cpid, stackVars>>
vars      == <<schedVars, debugVars, code, frames, boundVars, reply>>

\* breakpoint_info, stack_func_info and a frame of the stack; a frame is not
\* sound when the rest of the function's prologue is destroyed.
\* end_breakpoint_enable is an int that programs give 0 or 1, hence a BOOLEAN:
\* another value would count as enabled at debug.c:170, but not at 192 and 432.
Breakpoint == [num : 1 .. MaxSetups, addr : Func, end : BOOLEAN]
StackEntry == [addr : Code, ret : Address]
Frame      == [fn : Code \cup {Main}, ret : Address, sound : BOOLEAN]
Instructions == {"intact", "int3", "zeroed", "int3 zeroed"}

TypeOK ==
  /\ SchedulerTypeOK
  /\ isDebugger \in BOOLEAN
  /\ breakpointCount \in 0 .. MaxBreakpoints /\ lastId \in 0 .. MaxSetups
  /\ head \in Seq(Breakpoint)
  /\ cpid \in {NotForked, Debuggee, NoChild}
  /\ callStack \in Seq(StackEntry) /\ backtrace \in Seq(Address)
  /\ code \in [Code -> Instructions]
  /\ frames \in Seq(Frame)
  /\ steps \in 0 .. MaxSteps /\ forks \in 0 .. MaxForks

Init ==
  /\ state = [p \in Pid |-> IF p = Debugger THEN "RUNNING"
                            ELSE IF p = Swapper THEN "READY" ELSE "UNUSED"]
  /\ ticksToSleep = [p \in Pid |-> 0]
  /\ current = Debugger
  /\ isDebugger = FALSE
  /\ breakpointCount = 0 /\ head = <<>> /\ lastId = 0 /\ cpid = NotForked
  /\ callStack = <<>> /\ backtrace = <<>>
  /\ code = [f \in Code |-> "intact"]
  /\ frames = <<>> /\ steps = 0 /\ forks = 0 /\ reply = 0

Runs(p) == current = p /\ state[p] # "UNUSED"

\* p is a running debugger.
Debugs == Runs(Debugger) /\ isDebugger

Zeroed(c)   == c \in {"zeroed", "int3 zeroed"}
WithInt3(c) == IF Zeroed(c) THEN "int3 zeroed" ELSE "int3"
HasInt3(f)  == code[f] \in {"int3", "int3 zeroed"}

(***************************************************************************)
(* get_breakpoint_info and is_on_stack.                                    *)
(***************************************************************************)
HasBreakpoint(f) == \E i \in DOMAIN head : head[i].addr = f
EndEnabled(f)    == \E i \in DOMAIN head : head[i].addr = f /\ head[i].end
\* Mutant: only the current function is looked at.
IsOnTop(f)   == callStack # <<>> /\ Head(callStack).addr = f
IsOnStack(f) == \E i \in DOMAIN callStack : callStack[i].addr = f

(***************************************************************************)
(* do_become_debugger; a program does it once.                             *)
(***************************************************************************)
BecomeDebugger ==
  /\ Runs(Debugger) /\ ~ isDebugger
  /\ isDebugger' = TRUE
  /\ breakpointCount' = 0 /\ head' = <<>> /\ lastId' = 0 /\ cpid' = NotForked
  /\ callStack' = <<>> /\ backtrace' = <<>>
  /\ code' = [code EXCEPT ![EndHandler] = WithInt3(@)]
  /\ reply' = 0
  /\ UNCHANGED <<schedVars, frames, boundVars>>

(***************************************************************************)
(* do_fork with debugger_on_fork: the child waits for the debugger to let  *)
(* it run.  A second fork while a debuggee exists would overwrite cpid     *)
(* (debug.c:99); a program forks again only when the last one has exited.  *)
(***************************************************************************)
\* Mutant: the child starts as setup_child_context leaves it.
ReadyChild == "READY"
ChildState == "WAITING"
Fork ==
  /\ Debugs
  /\ cpid # Debuggee /\ forks < MaxForks
  /\ state' = [state EXCEPT ![Debuggee] = ChildState]
  /\ ticksToSleep' = [ticksToSleep EXCEPT ![Debuggee] = ticksToSleep[Debugger]]
  /\ cpid' = Debuggee
  /\ frames' = <<[fn |-> Main, ret |-> EndAddr, sound |-> TRUE]>>
  /\ steps' = MaxSteps /\ forks' = forks + 1
  /\ reply' = Debuggee
  /\ UNCHANGED <<current, isDebugger, listVars, stackVars, code>>

(***************************************************************************)
(* do_set_breakpoint.                                                      *)
(***************************************************************************)
SetBreakpoint(f, end) ==
  /\ Debugs
  /\ \/ /\ HasBreakpoint(f)
        /\ EndEnabled(f) # end /\ IsOnStack(f)
        /\ reply' = -1
        /\ UNCHANGED <<listVars, code>>
     \/ /\ HasBreakpoint(f)
        /\ ~ (EndEnabled(f) # end /\ IsOnStack(f))
        /\ head' = [i \in DOMAIN head |-> IF head[i].addr = f THEN [head[i] EXCEPT !.end = end] ELSE head[i]]
        /\ reply' = 0
        /\ UNCHANGED <<breakpointCount, lastId, code>>
     \/ /\ ~ HasBreakpoint(f) /\ breakpointCount = MaxBreakpoints
        /\ reply' = -1
        /\ UNCHANGED <<listVars, code>>
     \/ /\ ~ HasBreakpoint(f) /\ breakpointCount # MaxBreakpoints
        /\ lastId < MaxSetups
        /\ breakpointCount' = breakpointCount + 1 /\ lastId' = lastId + 1
        /\ head' = Append(head, [num |-> lastId + 1, addr |-> f, end |-> end])
        /\ code' = [code EXCEPT ![f] = WithInt3(@)]
        /\ reply' = 0
  /\ UNCHANGED <<schedVars, isDebugger, cpid, stackVars, frames, boundVars>>

(***************************************************************************)
(* do_remove_breakpoint.  It writes back first_inst, which nothing has     *)
(* set: the function is left with four zero bytes in place of its          *)
(* prologue.  A debuggee that has stopped at the start of the function is  *)
(* about to execute them.                                                  *)
(***************************************************************************)
RefusesRemoval(f) == IsOnStack(f) /\ EndEnabled(f)
\* Mutant: the head is unlinked, whichever breakpoint was found.
WithoutFirst(f)      == Tail(head)
PositionOf(f)        == CHOOSE i \in DOMAIN head : head[i].addr = f
WithoutBreakpoint(f) == RemoveAt(head, PositionOf(f))

RemoveBreakpoint(f) ==
  /\ Debugs
  /\ \/ /\ ~ HasBreakpoint(f) \/ RefusesRemoval(f)
        /\ reply' = -1
        /\ UNCHANGED <<listVars, code, frames>>
     \/ /\ HasBreakpoint(f) /\ ~ RefusesRemoval(f)
        /\ breakpointCount' = breakpointCount - 1
        /\ head' = WithoutBreakpoint(f)
        /\ code' = [code EXCEPT ![f] = "zeroed"]
        /\ frames' = IF frames # <<>> /\ Head(frames).fn = f
                     THEN [frames EXCEPT ![1].sound = FALSE] ELSE frames
        /\ reply' = 0
        /\ UNCHANGED lastId
  /\ UNCHANGED <<schedVars, isDebugger, cpid, stackVars, boundVars>>

\* do_info_breakpoints, do_backtrace and do_info_registers (the rip) only read.
InfoBreakpoints ==
  IF head = <<>> \/ Len(head) < breakpointCount THEN -1
  ELSE SubSeq(head, 1, breakpointCount)
Backtrace     == SubSeq(backtrace, 1, IF Len(backtrace) < MaxBacktrace THEN Len(backtrace) ELSE MaxBacktrace)
InfoRegisters == Head(frames).fn

(***************************************************************************)
(* do_wait_and_continue: what the debuggee's last stop left on top of the  *)
(* call stack goes, unless the function's end is still to come.  The       *)
(* breakpoint is looked up for that and used without a test: when it has   *)
(* been removed, its flag is read through NULL, where every process has    *)
(* memory mapped, and may be anything.  A wait before the fork would hand  *)
(* the processor to pid 0 for good; programs fork first.                   *)
(***************************************************************************)
\* Mutant: only what an end handler left goes.
PopAtEndOnly == callStack # <<>> /\ Head(callStack).addr = EndHandler
PopsTop ==
  /\ callStack # <<>>
  /\ Head(callStack).addr = EndHandler \/ ~ EndEnabled(Head(callStack).addr)

LooksUpNull ==
  /\ callStack # <<>>
  /\ Head(callStack).addr # EndHandler /\ ~ HasBreakpoint(Head(callStack).addr)

WaitAndContinue ==
  /\ Debugs
  /\ \/ /\ cpid = NoChild
        /\ reply' = ChildExit
        /\ UNCHANGED <<schedVars, callStack>>
     \/ /\ cpid = Debuggee
        /\ \/ callStack' = IF PopsTop THEN Tail(callStack) ELSE callStack
           \/ LooksUpNull /\ UNCHANGED callStack
        /\ Schedule([state EXCEPT ![Debugger] = "WAITING"], Debuggee)
        /\ reply' = StaleRax
        /\ UNCHANGED ticksToSleep
  /\ UNCHANGED <<isDebugger, listVars, cpid, backtrace, code, frames, boundVars>>

\* do_sleep, by either of them while it runs.
DebuggerSleeps(ticks) ==
  /\ Debugs
  /\ Sleep(Debugger, ticks)
  /\ UNCHANGED <<debugVars, code, frames, boundVars, reply>>

(***************************************************************************)
(* do_exit with debugger_on_exit.  A debugger that exits while its         *)
(* debuggee waits leaves it waiting for ever; debuggers modelled here see  *)
(* the debuggee's exit first.  Its breakpoints stay in the code, and what  *)
(* its debug_info held is not looked at again.                             *)
(***************************************************************************)
DebuggerExits ==
  /\ Debugs
  /\ cpid # Debuggee
  /\ isDebugger' = FALSE
  /\ code' = [code EXCEPT ![EndHandler] = "intact"]
  /\ Leave(state, Debugger)
  /\ UNCHANGED <<ticksToSleep, listVars, cpid, stackVars, frames, boundVars, reply>>

\* The other process is made ready; mutant: it is not.
Unchanged(st)       == st
DebuggerAwake(st)   == [st EXCEPT ![Debugger] = "READY"]

DebuggeeLeaves ==
  /\ cpid' = NoChild
  /\ Leave(DebuggerAwake(state), Debuggee)
  /\ frames' = <<>>
  /\ UNCHANGED <<ticksToSleep, isDebugger, listVars, stackVars, code, boundVars, reply>>

-------------------------------------------------------------------------------
(***************************************************************************)
(* int3_handler, backtrace: the return addresses along the frame pointers, *)
(* from the stack fr; where a frame returns to end_handler the next entry  *)
(* of the call stack cs has the real address.                              *)
(***************************************************************************)
Hijacked(fr, i)  == Cardinality({j \in 1 .. i : fr[j].ret = EndHandler})
\* Mutant: the entry of the function that is ending is not skipped.
AllEntries(entry, cs) == cs
OwnEntries(entry, cs) == IF entry = EndHandler \/ ~ EndEnabled(entry) THEN Tail(cs) ELSE cs
WalkStack(entry, fr, cs) ==
  LET own  == OwnEntries(entry, cs)
      rets == [i \in 1 .. Len(fr) - 1 |->
                 IF fr[i].ret = EndHandler THEN own[Hijacked(fr, i)].ret ELSE fr[i].ret]
      all  == IF entry = EndHandler THEN rets ELSE <<entry>> \o rets
  IN  SubSeq(all, 1, IF Len(all) < MaxBacktrace THEN Len(all) ELSE MaxBacktrace)

\* The debugger gets the processor, and entry as the result of its wait.
Stop(entry, fr, cs) ==
  /\ frames' = fr
  /\ callStack' = cs /\ backtrace' = WalkStack(entry, fr, cs)
  /\ reply' = entry
  /\ Schedule([DebuggerAwake(state) EXCEPT ![Debuggee] = "WAITING"], Debugger)

(***************************************************************************)
(* int3_handler at the start of a function: the function is put on the     *)
(* call stack and the push %rbp that int3 stands on is done for it.        *)
(***************************************************************************)
StopAtStart(f, ret) ==
  LET kept == IF EndEnabled(f) THEN EndHandler ELSE ret
  IN  Stop(f, <<[fn |-> f, ret |-> kept, sound |-> code[f] = "int3"]>> \o frames,
           <<[addr |-> f, ret |-> ret]>> \o callStack)

\* At its end: a frame with the real address is built for end_handler to return by.
StopAtEnd(rest) ==
  LET ret == Head(callStack).ret
  IN  Stop(EndHandler, <<[fn |-> EndHandler, ret |-> ret, sound |-> TRUE]>> \o rest,
           <<[addr |-> EndHandler, ret |-> ret]>> \o Tail(callStack))

(***************************************************************************)
(* The debuggee's own steps.                                               *)
(***************************************************************************)
Debugged == Runs(Debuggee)
Executes(fn) == Debugged /\ Head(frames).fn = fn /\ Head(frames).sound

\* It calls a function.  Without its prologue the function faults.
Call(f) ==
  /\ \E fn \in Func \cup {Main} : Executes(fn) /\ <<fn, f>> \in CallGraph
  /\ steps > 0
  /\ steps' = steps - 1
  /\ code[f] # "zeroed"
  /\ LET ret == Head(frames).fn IN
     IF HasInt3(f)
       THEN StopAtStart(f, ret)
       ELSE /\ frames' = <<[fn |-> f, ret |-> ret, sound |-> TRUE]>> \o frames
            /\ UNCHANGED <<state, current, stackVars, reply>>
  /\ UNCHANGED <<ticksToSleep, isDebugger, listVars, cpid, code, forks>>

\* It returns from a function, or from end_handler.
Return ==
  /\ \E fn \in Code : Executes(fn)
  /\ IF Head(frames).ret = EndHandler
       THEN StopAtEnd(Tail(frames))
       ELSE frames' = Tail(frames) /\ UNCHANGED <<state, current, stackVars, reply>>
  /\ UNCHANGED <<ticksToSleep, isDebugger, listVars, cpid, code, boundVars>>

DebuggeeSleeps(ticks) ==
  /\ \E fn \in Func \cup {Main} : Executes(fn)
  /\ steps > 0
  /\ steps' = steps - 1
  /\ Sleep(Debuggee, ticks)
  /\ UNCHANGED <<debugVars, code, frames, forks, reply>>

\* main returns, exit is called, or the debuggee runs into destroyed code.
DebuggeeExits == Debugged /\ DebuggeeLeaves

\* Interrupts come in user mode and in the swapper.
TimerTick == ~ Halted /\ Tick /\ UNCHANGED <<debugVars, code, frames, boundVars, reply>>

\* do_cleanup has stopped the machine.
Stopped == Halted /\ UNCHANGED vars

DebuggeeStep ==
  \/ \E f \in Func : Call(f)
  \/ Return
  \/ \E ticks \in 1 .. MaxSleep : DebuggeeSleeps(ticks)
  \/ DebuggeeExits

DebuggerStep ==
  \/ BecomeDebugger
  \/ Fork
  \/ \E f \in Func, end \in BOOLEAN : SetBreakpoint(f, end)
  \/ \E f \in Func : RemoveBreakpoint(f)
  \/ WaitAndContinue
  \/ \E ticks \in 1 .. MaxSleep : DebuggerSleeps(ticks)
  \/ DebuggerExits

Next == DebuggerStep \/ DebuggeeStep \/ TimerTick \/ Stopped

(***************************************************************************)
(* The timer ticks for ever, a debuggee that has the processor executes    *)
(* its program, and a debugger that gets it again and again, however it    *)
(* sets breakpoints and sleeps in between, goes on with the debuggee in    *)
(* the end, as every test program does.  It need never exit.               *)
(***************************************************************************)
Fairness == WF_vars(TimerTick) /\ WF_vars(DebuggeeStep) /\ SF_vars(WaitAndContinue)

Spec     == Init /\ [][Next]_vars
FairSpec == Spec /\ Fairness

-------------------------------------------------------------------------------
Debugging     == isDebugger /\ cpid = Debuggee
\* A process that waits for the other, not for the timer.
StandsBy(p)   == state[p] = "WAITING" /\ ticksToSleep[p] = 0
DebuggeesTurn == Debugging /\ StandsBy(Debugger)
\* The debuggee has stopped at a breakpoint.
AtBreakpoint  == Debugging /\ StandsBy(Debuggee) /\ Len(frames) > 1

(***************************************************************************)
(* While there is a debuggee, exactly one of the two waits for the other:  *)
(* both waiting would be a deadlock, none waiting would let the debuggee   *)
(* run while its code and stack are changed (debug.c:97, 211-214,          *)
(* 239-240, 441-443).                                                      *)
(***************************************************************************)
HandOver == Debugging => (StandsBy(Debugger) <=> ~ StandsBy(Debuggee))

\* Frame i of the stack fr returns to its caller: by itself, or through end_handler,
\* for which the call stack cs has an entry at the place of the frame.
EndsAtCaller(fr, cs, i) ==
  LET k == Hijacked(fr, i) IN
  \/ fr[i].ret = fr[i + 1].fn /\ fr[i].ret # EndHandler
  \/ /\ fr[i].ret = EndHandler
     /\ k \in DOMAIN cs
     /\ cs[k] = [addr |-> fr[i].fn, ret |-> fr[i + 1].fn]

(***************************************************************************)
(* While the debuggee runs, the top of the call stack has one entry for    *)
(* each frame that will return to end_handler, in order, with the address  *)
(* of the caller; every other frame returns to its caller by itself        *)
(* (debug.c:154-183, 421-436).  A debuggee in front of destroyed code      *)
(* returns from nothing any more.                                          *)
(***************************************************************************)
ReturnsHome ==
  DebuggeesTurn /\ Head(frames).sound =>
    /\ frames[Len(frames)].ret # EndHandler
    /\ \A i \in 1 .. Len(frames) - 1 : EndsAtCaller(frames, callStack, i)

(***************************************************************************)
(* backtrace shows the functions that are really active, up to main,       *)
(* whatever returns were replaced on the way (debug.c:185-208, 392-401).   *)
(***************************************************************************)
BacktraceIsCallChain ==
  AtBreakpoint =>
    LET active == IF Head(frames).fn = EndHandler THEN Tail(frames) ELSE frames
        shown  == IF Len(active) < MaxBacktrace THEN Len(active) ELSE MaxBacktrace
    IN  /\ \A i \in DOMAIN active : active[i].fn # EndHandler
        /\ Backtrace = [i \in 1 .. shown |-> active[i].fn]

(***************************************************************************)
(* The breakpoint list, its count, the int3 instructions in the code and   *)
(* the breakpoint numbers agree after any sequence of settings and         *)
(* removals, and info_breakpoints lists them all (debug.c:269-365).        *)
(***************************************************************************)
BreakpointsAgree ==
  isDebugger =>
    /\ InfoBreakpoints = (IF head = <<>> THEN -1 ELSE head)
    /\ breakpointCount = Cardinality({f \in Func : HasInt3(f)})
    /\ \A i, j \in DOMAIN head : i < j => head[i].num < head[j].num
    /\ \A i \in DOMAIN head : HasInt3(head[i].addr) /\ head[i].num <= lastId

(***************************************************************************)
(* A function whose return address has been replaced keeps its breakpoint, *)
(* end enabled, and its entry on the call stack until it has returned,     *)
(* whatever the debugger sets, removes and forgets at the stops in         *)
(* between: int3_handler and wait_and_continue find the real address there *)
(* (debug.c:170-176, 192, 291-295, 331-333, 421-436).                      *)
(***************************************************************************)
EndsKeptEnabled ==
  Debugging => \A i \in DOMAIN frames :
                   frames[i].ret = EndHandler => EndEnabled(frames[i].fn)

(***************************************************************************)
(* What wait_and_continue relies on: "either call stack is empty or we     *)
(* have a breakpoint" (debug.c:420).                                       *)
(***************************************************************************)
WaitFindsBreakpoint == Debugs /\ cpid = Debuggee => ~ LooksUpNull

(***************************************************************************)
(* Through all stops the debuggee comes to its end: the processor is       *)
(* handed over and back, past sleeps and ticks, until it has exited and a  *)
(* wait tells the debugger (debug.c:211-214, 239-240, 411-412, 441-443).   *)
(***************************************************************************)
DebuggerLearnsOfExit == Debugging ~> ~ isDebugger \/ reply = ChildExit
================================================================================
