# gemOS assignments: specifications, model checking and proofs

gemOS is a small teaching kernel. The repository holds the parts of it that were
written for three assignments: pipes and persistent pipes (`src/assignment_2`), a
debugger inside the kernel (`src/assignment_3`), and threads with private memory
(`src/assignment-4`). The rest of the kernel comes as object files. This directory
models that code in TLA+, checks the models with TLC and proves theorems about them
with TLAPS.

Paths below are short for
`A2 = src/assignment_2/gemos/src`, `A3 = src/assignment_3/src`, `A4 = src/assignment-4/template`.

## 1. Inventory

gemOS runs on one processor. Every system call enters the kernel with interrupts
off, so two system calls never interleave inside the kernel; processes interleave
between calls, and the timer interrupt switches processes in user mode. What makes
the code hard is therefore seldom a race inside the kernel. It is state kept twice
(descriptors and slots, reference counts and descriptors, user-level and kernel
thread tables), loops that change it file by file, indices in a circular buffer,
and long sequences of legal calls by several processes.

| Component | Source | State it keeps | Operations | Hard behaviour | What makes it correct |
|---|---|---|---|---|---|
| Pipe | A2/pipe.c | slot table (pid, read and write status, valid), ring (front, rear, page) | create_pipe, pipe_read, pipe_write, pipe_close, do_pipe_fork | slots against descriptors through fork, close and exit; life of the pages; full and empty ring | bytes arrive once and in order; an open descriptor is served; pages live exactly as long as a descriptor |
| Descriptors and file objects | A2/file.c, include/file.h, include/context.h | files[] per process, ref_count per file | do_file_fork, do_file_exit, file_close, fd_dup, fd_dup2 | counts across fork, dup and exit, for files of every kind in one table; one handler of several fails | count = number of descriptors |
| System calls | A3/entry.c (C source), entry.o elsewhere | process states | do_fork, do_exit, do_file_read, do_file_write, do_close, do_dup, do_dup2 | order of checks, partial failure of fork | errors exactly for the documented reasons |
| Persistent pipe | A2/ppipe.c | as pipe, and a front and an empty flag per process | the same, and flush | flush against slow, new and closed readers | every reader sees every byte written after it joined, once; flush frees only what all have read |
| Regular files, standard IO, sendfile | A2/file.c | offset, mode, inode | open, read, write, lseek, sendfile | descriptors share an object and its offset, error paths of sendfile | an object lives as long as a descriptor; no offset past the end of the file; sendfile leaves the place of its input alone |
| Debugger | A3/debug.c | breakpoint list, call stack, child pid | set, remove and info breakpoints, int3_handler, wait_and_continue, fork and exit handlers | debugger and debuggee hand over the processor; breakpoints change while the debuggee is stopped | code bytes restored; call stack matches the program; nobody waits for ever |
| Scheduler | A3/schedule.c | state and sleep ticks per process | pick_next_context, handle_timer_tick, schedule | wake-ups, swapper | one running process; a ready process runs eventually |
| Threads | A4/clone_threads.c, clone_threads_helper.c | thread slots, private maps, page permissions | do_clone, wait, exit, private mmap and unmap, fault, context switch | context and slot reuse, permissions of whoever runs | permissions in force are those of the running thread |
| gthread library | A4/user/gthread.c | user-level thread table | create, exit, join, gmalloc, gfree | timer between two updates; pid reuse in join | join returns after the thread died or stored its value, with that value |
| Message queue | include/msg_queue.h | - | - | header only | - |
| Kernel objects, user libraries, tests | *.o, user/*.c | - | - | - | - |

How they interact: `do_fork` copies the context, then calls `do_file_fork`, which
raises every reference count and calls the fork handler of pipes and persistent
pipes per file; `do_exit` calls `do_file_exit`, which calls every file's close
handler; `read`, `write` and `close` reach the pipe through `fops`. The debugger and
the thread code hook into fork, exit and the scheduler in the same way.

`PROJECT.json` lists the hazards of all components with their lines and the
properties that cover them.

## 2. Modules

```
Ring ── RingLoops ── MCRingLoops
  │         └──────────────── LoopProofs
  ├──── RingProofs ──────┬──────┘
Files ─ Pipe ── PipeClean ── PipeProofs
          │  │       └────── MCPipe
          │  └────────────── MCPipeDirty
          ├ INSTANCE PipeSpec
          └ OpenFiles ── MCOpenFiles
                └─────── OpenFilesProofs ── PipeProofs

Files, Ring ─ PPipe ── PPipeClean ── MCPPipe
                │           └─────── PPipeProofs ── RingProofs, INSTANCE PipeProofs
                └ INSTANCE PPipeSpec

Scheduler ─┬─ Debugger ── MCDebugger
           │      └────────── DebuggerProofs
           ├─ SchedulerProofs ───┤
           └─ Threads ── GThread ── ThreadsProofs
```

* **Ring**: the circular buffer as a record `front`, `rear`, `buf`, and in closed form
  what the write loop (`Push`) and the read loop (`Pop`) do to it. No behaviour.
* **RingLoops**: the same loops one iteration per step, with the local copies of
  `front` and `rear` that the C code keeps and the moments at which it stores them
  back (pipe.c:341-374, 447-490).
* **Files**: contexts, descriptor tables, file objects and reference counts. A pipe has
  exactly two file objects, `[pipe, mode]`; `refCount` is 0 when one does not exist.
* **Pipe**: the system calls on pipes. `slot[q]` is `pipe_per_proc`, with the two status
  flags as the set `open` of ends whose flag is 1; `ring[q]` is `pipe_global`;
  `live` is the set of pipes whose pages are allocated.
* **PipeSpec**: what the calls promise: descriptors, and a bounded queue of bytes per
  pipe. No counts, slots or ring, and fork and exit are one step.
* **PipeClean**, **PPipeClean**: two assumptions the code relies on (section 5).
* **OpenFiles**: standard IO and regular files in the descriptor table of Pipe, with all its
  calls. `object[o]` is a file object other than a pipe end (mode, inode, offset), `objCount[o]`
  its reference count, `size[n]` the size of an inode. A process starts with the three standard
  files; every call may be made on every descriptor, pipes and files mixed.
* **PPipe**: the persistent pipe on the same two modules. A slot also has `front` and
  `empty` (queue_empty); `Unread` is what lies between the front of a process and the rear
  of the pipe.
* **PPipeSpec**: what the calls promise: the bytes kept, up to the size of the page, and for
  each process with the read end how many of them, counted from the end, it has still to
  read. Flush removes what nobody has to read.
* **Scheduler**: the states of the contexts, the ticks a sleeper has left, and the context that
  has the processor. `PickByLoop` is the search of pick_next_context turn by turn, `PickNext`
  the same in closed form; `Tick` is handle_timer_tick. The swapper is pid 0.
* **Debugger**: one debugger and its debuggee on the scheduler: the breakpoint list, the
  first instructions of each function, the debuggee's stack with the return addresses that
  really stand there, and the debugger's call stack. The debuggee's calls and returns are
  actions, because int3 acts on them.
* **Threads**: the kernel's side of threads on the scheduler: clone, make ready, wait, exit,
  faults, private areas, and the page permissions of whoever runs.
* **GThread**: the thread library above it, in user mode, with a timer tick possible before
  every step; the process creates and joins, the threads exit, allocate, free, access and sleep.
* **RingProofs**, **LoopProofs**, **PipeProofs**, **OpenFilesProofs**, **PPipeProofs**,
  **SchedulerProofs**, **DebuggerProofs**, **ThreadsProofs**: the theorems.
* **MCRingLoops**, **MCPipe**, **MCPipeDirty**, **MCOpenFiles**, **MCPPipe**, **MCDebugger**: small instances;
  GThread needs none, its configurations give every constant a value.

Actions and code:

| Action | Code |
|---|---|
| `Create` | do_create_pipe, create_pipe, alloc_pipe_info, alloc_file |
| `Read`, `PipeRead` | do_file_read, pipe_read |
| `Write`, `PipeWrite` | do_file_write, pipe_write |
| `Close`, `PipeClose` | do_close, pipe_close, file_close, free_pipe |
| `Dup`, `Dup2` | fd_dup, fd_dup2 |
| `ForkBegin`, `ForkFile`, `PipeFork`, `ForkEnd` | do_fork (`CopyContext`, `LeaveFork` of Files), do_file_fork turn by turn, do_pipe_fork |
| `ExitBegin`, `ExitFile`, `ExitEnd` | do_exit (`EnterExit`, `FreeContext`), do_file_exit turn by turn |
| `WriteBegin`, `WriteByte`, `WriteStore`, `ReadBegin`, `ReadByte`, `ReadStore` | the loops of pipe_write and pipe_read, one turn at a time |
| in OpenFiles: `OpenStandardIO`, `OpenRegular` | do_file_open: open_standard_IO; do_regular_file_open |
| `ReadObject`, `WriteObject` | do_file_read with do_read_regular or do_read_kbd; do_file_write with do_write_regular or do_write_console |
| `Lseek`, `Sendfile` (`InOffset`, `AfterRead`, `SendTo`) | do_lseek with do_lseek_regular; do_sendfile |
| `CloseOther`, `DupOther`, `Dup2Other`, `ForkOther`, `ExitOther` | std_close, fd_dup, fd_dup2, do_file_fork, do_file_exit when the file is no pipe |
| in PPipe: `Create`, `PPipeRead`, `PPipeWrite`, `PPipeClose`, `PPipeFork`, `Flush` | create_persistent_pipe, ppipe_read, ppipe_write, ppipe_close, do_ppipe_fork, do_flush_ppipe |
| `Tick`, `Schedule`, `Leave`, `Sleep` | handle_timer_tick with do_sleep_and_alarm_account, schedule, the end of do_exit, do_sleep (from its use) |
| in Debugger: `BecomeDebugger`, `Fork`, `SetBreakpoint`, `RemoveBreakpoint`, `WaitAndContinue` | do_become_debugger, do_fork with debugger_on_fork, do_set_breakpoint, do_remove_breakpoint, do_wait_and_continue |
| `Call`, `Return` with `StopAtStart`, `StopAtEnd`, `WalkStack` | int3_entry, int3_handler at the start and the end of a function, the walk for the backtrace |
| `DebuggerExits`, `DebuggeeExits` | do_exit with debugger_on_exit |
| in Threads: `Clone`, `MakeThreadReady`, `WaitForThread`, `ThreadExits`, `SegfaultExit` | do_clone, do_make_thread_ready, do_wait_for_thread, handle_thread_exit, segfault_exit |
| `PrivateMap`, `PrivateUnmap`, `Access`, `SwitchTo` | handle_thread_private_mmap, handle_thread_private_unmmap, handle_thread_private_fault with valid_access, handle_private_ctxswitch |
| in GThread: `CreateClone`, `CreateRegister`, `CreateReady` | gthread_create, cut at its system calls |
| `JoinBegin`, `JoinWait`, `JoinCheck`, `JoinEnd` | gthread_join: finding the entry, one wait, what follows it, the end |
| `ExitReturns`, `ExitUsed`, `ExitLeaves`; `GMalloc`, `GFree` | gthread_exit, cut at its stores and its system call; gmalloc, gfree |

Modelling decisions:

* A system call is one step, because nothing can run between its parts. Fork and exit
  are split at each turn of their loops over the open files, so that the properties are
  also checked half way; `kernel` holds the position, and no other call starts meanwhile.
* A handler returns before its caller does: every call records its return value, and
  for `read` the bytes, in `ret`.
* `is_valid_mem_range` (pipe.c:219-271) depends on address ranges alone; its verdict is
  the input `okBuf`, true or false in every call.
* `process_index` is uninitialised in `pipe_read` and `pipe_close` when no slot matches.
  `ReadSlots` and `CloseSlots` then offer every index of the table (and, for read, the
  value -1 the next line tests for). An index outside the table is not modelled: the
  properties show that the case does not arise in `PlainSpec`.
* `alloc_pipe_info` fills slot 0 and leaves the others as the page held them. `Create`
  takes the old contents as the parameter `page`, from `PageContents`.
* `free_pipe` and `file_close` release pages for reuse. A pipe can be created on the pages
  `q` only when they are not live and no file object of `q` remains.
* `do_close` has no `return ret` in A3/entry.c:179; the object file built for the pipe
  assignment returns what the handler returned, 0, and `Close` returns 0.
* entry.c is C source in the debugger assignment only. Its do_fork has the debugger's hook where
  the one of the pipe assignment (entry.o) calls `do_file_fork` and returns its error;
  fork with no context left has no defined result (`get_new_ctx` returns NULL) and programs
  are taken to stay within MAX_PROCESSES.
* Loops that run past the slot table of a persistent pipe are modelled where their
  stores land inside the model. do_flush_ppipe (ppipe.c:297) always hits `front` and
  `rear`, which the structure has right behind the table (`FullyFlushed`). The wake-up
  loop of ppipe_write (ppipe.c:520) hits whatever follows; `Overrun` lists the entries it
  finds in the pipe's own buffer, and is empty when the buffer page lies before the table.
* In the runs and theorems of Pipe and PPipe alone a process starts with an empty table, so that
  every descriptor is free for a pipe; `DupBase` stands for the 3 in fd_dup. In OpenFiles it
  starts with the standard files, and `DupBase` is also their number.
* OpenFiles: the inode layer is an object file, modelled from fs.h and its use: a read returns
  the smaller of `count` and what the file holds from the offset on, a write that does not fit below
  FILE_SIZE is refused whole. Contents are left out, no property tells them apart. File objects
  are pages of a fixed set; alloc_file with no page left dereferences NULL and is excluded.
  So are sendfile with an offset from a pipe or the keyboard (they have no lseek to
  call) and opening a standard name with a full table (the search has no end). `okMode` is the
  verdict on the inode's access mode.
* A file descriptor argument is in `Fd`: the handlers do not check it, and the models
  describe programs that pass a valid index.
* `exec_context.state` has more values; a process of Files is "unused" or "ready", which is
  all that fork, exit and the pipe calls tell apart. Scheduler has all six.
* Debugger: `debug_info` is split into variables. A return address is known by the function
  it lies in, so a frame is a function, where it returns to, and whether the code after its
  first instruction is intact. A removed breakpoint leaves zero bytes (`first_inst` is never
  set); a function that starts with them faults when called.
* Debugger: a breakpoint may be removed at any stop, the one stopped at included. The next wait
  then reads its flag through NULL (debug.c:431-432), where every process has memory mapped: the
  value may be anything, so the entry of the call stack goes or stays (`LooksUpNull`). The
  prologue in front of the debuggee is destroyed, so its next instruction faults (`sound`).
* Debugger: the flag for the end of a function is an int; `if (flag)` is tested at debug.c:170 and
  326, `!= 1` at 192 and 432. Programs pass 0 or 1, which both tests tell apart, and the
  models have a BOOLEAN; with another value, end_handler would be entered for a function whose
  entry the wait has taken away.
* Debugger excludes, by guards named in comments, what has no answer in the code: a wait before the
  fork, a second debuggee beside the first, and a debugger that exits while its debuggee waits.
* Threads: an area is one page, and the four levels of the page table are the map `pte`
  (`FixPageTable` is what the walk does to the entry it comes to). mmap
  and munmap of plain memory, do_sleep, get_new_ctx and the scheduler of that assignment are
  object files, modelled from their use and from the scheduler of the debugger assignment;
  allocation does not fail. The hook handle_private_ctxswitch is called as
  clone_threads.c:276-284 expects: not for the swapper, and not when the context before the
  swapper comes back (`KeepsFlags`).
* GThread: threads are numbered in the order of creation, so that one can be told from the next
  with the same pid. A thread's value is its number or NULL; the loop of gthread_join returns
  to its wait while the value is NULL, as in the code. Only the process creates and joins, each
  thread once. `NullReturns` are the threads that may return NULL as well as their number.
* GThread: the timer may tick before every step. A step is a system call or the part of a library
  function between two of them that no other thread can disturb: gthread_create is cut before
  the clone, after it and before make_thread_ready; gthread_join before each wait and after it;
  the two stores of gthread_exit (gthread.c:87, 88) and its exit call are three steps. Two ticks
  are merged: gmalloc and gfree make their system call and the stores after it
  (gthread.c:250-260, 306-311) in one step. Only the thread itself, in its next gmalloc or
  gfree, and its join, after its last store, look at those fields of the entry.
* GThread: a thread whose stack is unmapped by its join (`Overtaken`) faults at its next instruction
  (`StackFault`); so it does after a tick between the stores of gthread_exit and its exit call.
* GThread's `PoliteSpec` is `Spec` with a discipline of the program, not of the timer
  (`PatientCreate`): it creates a thread only while no entry is USED (a thread that exited must be
  joined first, else its pid comes back too early: run gthread_reuse), no living thread has begun
  gthread_exit (the stack of one that a join overtook may be mapped again, for the new
  thread, before it has faulted), and nothing is left of a sleep that a thread's exit cut
  short (clone copies it, clone_threads.c:53). gthread_create has none of these guards.
* A forbidden write to an RDONLY area faults for ever (clone_threads.c:116 tests a condition that never
  holds); programs do not try one.
* alarm and signals are left out: no modelled program calls them.

## 3. Runs

| Run | Instance | Shows |
|---|---|---|
| ring_loops | page of 3 bytes, counts 0..4, two byte values | `WriteAppends`, `ReadRemoves`: a call appends or removes exactly what its return value says, in order, from every reachable ring. `ClosedForms`: the loops compute `Push` and `Pop` |
| pipe | 3 processes, 2 descriptors, 3 slots, 1 pipe, 2-byte page, two byte values, counts 0..1 | `SlotsMatchDescriptors`, `LiveWhileOpen`, `CountsMatchDescriptors`, `ForkHandlersSucceed` in all orders of pipe, read, write, close, fork and exit, and `ImplementsPipeSpec`, the refinement of PipeSpec |
| pipe_dup | OpenFiles: 2 processes, 2 descriptors, standard input, 1 pipe, 1 inode of at most 1 byte, 2 pages for file objects | `CountsMatchDescriptors`, `ObjectsAgree`, `OffsetsInFile`, `SendfileKeepsPlace` with dup and dup2, pipes and files mixed |
| pipe_dup_read | 2 processes, 3 descriptors, dup and dup2 of pipes | violation, see section 6 |
| pipe_dirty | 3 processes, 3 descriptors, 3 slots, pages with old data | violation, see section 6 |
| ppipe_log | 2 processes, 2 descriptors, 2-byte page, counts 0..2, flush unless all is read, buffer before the table | `ImplementsPPipeSpec`, `SlotsMatchDescriptors`, `FrontsInRing` |
| ppipe_flush | as ppipe_log, every flush | violation, see section 6 |
| ppipe_overrun | as ppipe_log, 3-byte page behind the table | violation, see section 6 |
| debugger | 3 contexts, 3 functions that call each other and themselves, 2 breakpoints set in all, 3 calls or sleeps per debuggee, 2 debuggees, backtraces of 3 | `HandOver`, `OneOnProcessor`, `ReturnsHome`, `BacktraceIsCallChain`, `BreakpointsAgree`, `EndsKeptEnabled` and, under fairness, `DebuggerLearnsOfExit` |
| debugger_remove | as debugger | violation of `WaitFindsBreakpoint`, see section 6 |
| gthread | 4 contexts, 2 thread slots, 3 threads in all, 1 area, NOACCESS and RDONLY, sleeps of 1 tick, thread 2 may return NULL | kernel and library tables agree (`LookupFindsOwnSlot`, `EntriesAgree`, `RunsRegistered`, `CloneSucceeds`, `AreasAgree`, `NothingLeft`), `FlagsAreDue`, `PicksNearestReady`, `JoinEndsAfterStores`, `JoinReturnsResult` and, under fairness, `JoinTerminates`, `ReadyRuns` |
| gthread_reuse | 4 contexts, 3 slots, 3 threads, no areas or sleeps, threads created at any time, all may return NULL | violation of `JoinEndsAfterStores`, see section 6 |

Bounds. The page of three bytes is the smallest on which the ring wraps in the middle
of a call with bytes on both sides of the wrap, and a count of four exceeds it. Three
processes are the smallest number with a parent, a child and a slot freed by one and
reused by another while a third keeps its own; three slots make the table exactly as
large as the number of processes, the tightest case the code supports. One pipe is
enough because two pipes share no variable except the descriptor table and the
theorems hold for any number; with a single pair of descriptors free, a process also
meets -ENOMEM. The two bytes of the page in run pipe, of two values, can be told apart, so a
queue that gave them in another order or one twice would be seen, and the ring is empty, half full
and full at every position; calls for several bytes, which end half way, are those of
ring_loops, whose closed forms Pipe uses, and the refinement is proved for all of them. Its `ret`,
which no guard reads, and the bytes of the page outside the ring are left out of the fingerprint
(VIEW); `ImplementsPipeSpec` is checked on every step, and each step either sets `ret` or leaves it
alone. In ring_loops and ppipe_log
`MaxCount` is at least the page size, so that a call can exceed what fits and what is there.
`CHECK_DEADLOCK FALSE` stands in the pipe configurations because the system stops when
the last process exits (do_exit calls do_cleanup); RingLoops never stops and its
deadlock check is on.

The ring of ppipe_log has two bytes: one reader can be behind, level or done while
another is elsewhere, a partial flush moves the front, and the next write wraps. Two
processes give it two readers with fronts of their own, one of them born in a fork at any
position.

`PartialSpec` leaves out the flush of a pipe that everyone has read to the end: it
destroys the pipe (section 6), and nothing useful holds after it. `Spec` has it.

`PlainSpec` leaves dup and dup2 out: a program that gives an end a second descriptor
in the same process runs into the first finding, and slots and descriptors
disagree from there on. What still holds with dup, the reference counts, is checked
by pipe_dup under `OpenSpec`, and proved.

The bounds of pipe_dup are the smallest with every case: two processes share an object through
fork, a process has two descriptors of one file, closes one, puts a pipe over a file and the
other way round, and the file is empty, full, read to the end, or refuses a write. With
`DupBase` 1 one of the two descriptors is a standard one. The theorems of OpenFilesProofs cover
all other values. The two pages for objects are interchangeable (SYMMETRY), and `ret`, which no
guard reads, is left out of the fingerprint (VIEW); no property of the run mentions it.

The debugger instance has a function that calls itself and two that call each other, so
three calls give recursion with and without an intermediate frame, two stops on top of
each other, a breakpoint on a function further down the stack, and a backtrace that is
cut off. Two breakpoints fill the table (MaxBreakpoints), and two debuggees show what the
first one leaves behind. A sleep of one tick is enough to make both processes unable to
run at once, with the swapper on the processor.

Two thread slots and three threads make every slot, table entry and context be used again,
with a thread beside it. Four contexts are the tightest number: the swapper, the process and the
two threads. One area serves for every permission, because areas share nothing but the slot.
For the finding three slots are needed (the table must have room for a third thread while
one that exited waits to be joined) and no memory.

Fairness. The pipe calls never block (read of an empty pipe and write to a full one return 0),
so nothing is assumed there; the loops of RingLoops are shown to reach their end by the
deadlock check and the bound `count`. The other two models have liveness properties, under

* Debugger: `WF(TimerTick)`, the timer interrupts for ever (in user mode and in the swapper);
  `WF(DebuggeeStep)`, a process that has the processor executes instructions;
  `SF(WaitAndContinue)`, a debugger that gets the processor again and again goes on with its
  debuggee in the end, as every test program does. The strong form is needed because every
  tick may take the processor away. Nothing makes the debugger exit or set breakpoints.
* GThread: `WF(TimerTick)` as above; `SF(LibraryStep)`, a call of the library that was begun goes on
  whenever the process has the processor; `SF(ThreadEnds(p))`, a thread that gets the
  processor again and again calls gthread_exit in the end (or faults). Programs whose threads
  run for ever have joins that do not return. Threads need not allocate or sleep.

That a process gets the processor again and again is not assumed: it is what round robin
gives (`ReadyRuns`).

Mutants. Each property has a mutated definition beside the definition it replaces
(comment "mutant"), a mistake this code could contain: a count not raised in fork, a
slot freed by every close, the second fork call missing the slot of the first, the rear
index kept after the last byte is read, a tick that wakes whoever waits, a child that starts ready,
a lookup that takes the last slot with a pid. TLC finds every one under the run's own
configuration.

## 4. Properties

* `SlotsMatchDescriptors`: slot and descriptor tables agree for every process and end,
  and a process has one slot per pipe. While fork is at work only the files it has
  visited count (`Counted`).
* `LiveWhileOpen`: pages allocated exactly while some descriptor refers to the pipe, in
  both directions: no use after free, no leak.
* `CountsMatchDescriptors`: ref_count is the number of descriptors, over all processes.
* `ForkHandlersSucceed`: no handler of fork meets a full slot table.
* `ReadRefusedOnlyWhenClosed`: an action property; -EINVAL means a closed descriptor.
* `WriteAppends`, `ReadRemoves`, `ClosedForms`: the ring as a queue.
* `FrontsInRing`: what a process has not read is the end of what the ring holds, and a process
  that has read all stands where the next byte will go; flush, write and fork each could
  break it.
* `ObjectsAgree`: an object counts its descriptors over all processes and exists exactly while it has
  one, through opens that share what a standard descriptor has become, dup2 over a pipe, and
  forks and exits half way.
* `OffsetsInFile`: no offset lies past the end of its file, whoever moves it. do_read_regular
  adds to it without a check, and `file_size - offset` must not wrap.
* `SendfileKeepsPlace`: an action property; sendfile with an offset moves the input file's offset
  for the read and puts it back on every path.
* `FullFlushResets`, `WritesUsersData`: action properties, refuted.
* `ImplementsPPipeSpec`: every reader gets every byte written since it got the pipe, once and in
  order, and flush gives back only what all have read.
* `OneOnProcessor`: one context at a time runs, and it is in a state to run. A tick with nothing
  else ready leaves the running process READY, hence the second half.
* `PicksNearestReady`: the search loop of pick_next_context, from every pid and in every state
  reached, finds the ready process that is nearest in turn; `ReadyRuns`: so nobody starves.
* `HandOver`: with a debuggee alive, exactly one of the two waits for the other, through sleeps, ticks
  and exits.
* `ReturnsHome`: while the debuggee runs, the debugger's call stack and the replaced return
  addresses correspond one to one, in order: every return comes to its caller.
* `BacktraceIsCallChain`: the backtrace is the real chain of active functions.
* `BreakpointsAgree`: list, count, numbers and int3 instructions agree; `EndsKeptEnabled`: a function
  whose return address was replaced keeps its breakpoint, end enabled, until it has returned;
  `WaitFindsBreakpoint`, refuted: wait_and_continue finds the breakpoint it uses without a test.
* `DebuggerLearnsOfExit`: a debuggee comes to its end, and its debugger's wait returns CHILD_EXIT.
* `LookupFindsOwnSlot`: a slot keeps the pid of a thread that is gone, and the lookup goes by the pid
  alone; still the first match is a living thread's own slot.
* `FlagsAreDue`: the page table grants the running context exactly what it may have.
* `JoinEndsAfterStores`, `JoinReturnsResult`, `JoinTerminates`: gthread_join waits until its own
  thread is dead or has stored its value in gthread_exit, returns its value, and returns. It cannot
  promise more: a tick between that store and the exit call lets it return while the thread
  lives.
* `EntriesAgree`, `RunsRegistered`, `CloneSucceeds`, `AreasAgree`, `NothingLeft`: the library's table, the
  kernel's slots, contexts and areas tell the same story before every step of section 2, the
  timer being free to tick there; the ticks inside gmalloc and gfree are not among them. A thread
  that its join overtook is excepted by name (`Overtaken`): it has no entry any more, and its
  context and slot are lost, so `CloneSucceeds` promises nothing then and `NothingLeft` only that
  no stack remains. All five are about programs with the discipline of `PatientCreate`.
* `ImplementsPipeSpec`: all of the pipe together. The mapping hides a child until its fork
  ends and a process from the moment it calls exit (`Visible`), and turns the ring into
  the queue it holds (`VisibleQueue`).

## 5. Proofs

`tlapm` checks every theorem for all values of the constants under the assumptions of the modules:
`RingAssumption`, `FilesAssumption`, `PipeAssumption`, `SchedulerAssumption`, `DebuggerAssumption`,
`ThreadsAssumption`, `GThreadAssumption`, `OpenFilesAssumption`, `PPipeAssumption`, and the two that
PipeClean states for pipes and PPipeClean for persistent pipes,

* `EnoughSlots`: at least as many slots as processes. MAX_PIPE_PROC is 16 and
  MAX_PROCESSES is 7 (include/pipe.h:10, include/context.h:8).
* `CleanPages`: the pages of a new pipe do not read as used slots. The code does not
  ensure it; section 6 says what happens without.

**Ring** (RingProofs). `PushAppends`: for a well-formed ring of any size, `Push`
yields a well-formed ring whose bytes are the old ones followed by the accepted prefix.
`PopRemoves`: `Pop` removes the delivered prefix. The argument is about `Span`,
the distance between two indices modulo `Size`: it is a bijection between positions and
indices, it adds up when the rear moves, and a position keeps its byte when its number
does not change.

**Byte loops** (LoopProofs). `LoopInv` says where a call is: after `n` turns of the write
loop the ring is the old one with the first `n` bytes appended (`After`), except that the rear is
still the old one and the new front, if the ring was empty, has already been stored; after `n` turns
of the read loop the user has the first `n` bytes and the local front stands `n` places on.
`LoopsComputeClosedForms` follows at the last turn, and with the two ring theorems
`WriteLoopAppends` and `ReadLoopRemoves`. So what Pipe and PPipe assume of the loops, that they
compute `Push` and `Pop`, is proved for every page size.

**Pipe** (PipeProofs). The five safety properties follow from one inductive invariant,

    IInv == TypeOK /\ RingsInv /\ UnusedHasNoFiles /\ OneDescriptor
            /\ KernelInv /\ SlotsInv /\ FilesOfLivePipes /\ CountsMatchDescriptors

None of the properties is inductive alone. Whether a close frees the
right slot depends on the slot table describing exactly the processes with an end
open, each in one slot (`SlotsInv`); that in turn needs that a process has at most one
descriptor per end (`OneDescriptor`, which is where dup is excluded), that an unused
context has no files when fork picks it (`UnusedHasNoFiles`), and that the half-done
fork or exit is at the position `kernel` says (`KernelInv`). The fork handler finds a
free slot because occupied slots have distinct pids, the child has none, and there are
as many slots as processes (`FreeSlotExists`).

There is one lemma per action; the ones with content are `CloseSlot` (a close changes the
description by one end), `ForkSlot` (so does a fork handler), `CreateSucceeds` and
`DescribesSet`, which relate the slot table to the set of open ends. `NextInv` puts them
together, `Invariance` is the temporal step, and `TypeCorrect`, `CountsCorrect`,
`SlotsCorrect`, `LifetimeCorrect`, `ForkHandlersCorrect` are the results, all of the form
`PlainSpec => []P`.

`PipeImplements` is the refinement, `PlainSpec => ImplementsPipeSpec`, from the same invariant and the
ring theorems. `Hidden` is whom the users do not see, the child of a fork in progress or
the process that exits; `View` writes the three mapped variables with it, and in user mode nothing is
hidden. `Served` says that an open descriptor has its one slot, with the status of its end set, so
that reads and writes are refused for the reasons of PipeSpec only. Create, read, write and
close are the abstract steps of their names; fork is the abstract step when its loop ends
and exit when its loop begins, and the other turns of the two loops stutter.

**All kinds of files** (OpenFilesProofs). `OpenInv` gives the counts, `ObjectsAgree`, `OffsetsInFile`
and, for each step, `SendfileKeepsPlace`, with dup, dup2, pipes and files in one table. It needs neither
`EnoughSlots` nor `CleanPages`. The argument is one for all calls: a step changes what one descriptor
counts for from one file to another or to none (`OneChanges`), the sets of descriptors of those two
files gain and lose one element (`RefsMove`), so the counts stay right if the code raises the one and
lowers the other (`Recount`). What has to be added is that a child's table is a copy of its parent's
while the fork counts it (`ForkCopied`), so that the files it comes to exist, and that
the part of the table an exit has passed is empty (`ExitClosed`), so that an unused context has no
files. Offsets stay inside because a read moves one by at most what is left, a write makes the
file as long as the offset it ends at, and no file shrinks.

**Persistent pipe** (PPipeProofs). Without its cursors a persistent pipe's slot table is
that of a pipe, and the calls do to it what the pipe's do: `SlotEnds` forgets front and
empty, `Plain` is PipeProofs with that table, and every step of PPipe is one of `Plain` or
leaves its tables and counts alone. So `EndsInv`, the type of the cursors and `Plain!IInv`,
is inductive, and `PPipeTypeCorrect`, `PPipeSlotsCorrect` and `PPipeFilesCorrect` follow for
`Spec`, every flush included. For the fronts, `FrontsInv` adds that the rings are well
formed and `FrontsInRing` itself. Its content is arithmetic modulo `Size`: a read moves a
front no further than the rear (`ReadsOn`), a write reaches every reader that was at the end
(`WriteFronts`), and a partial flush takes no more than the slowest reader leaves
(`PartialFlushFronts`), so the distance of each front from the rear stays within the ring
(`Distance`). `FrontsCorrect` is for `PartialSpec`: after a full flush it is false (section
6).

`PPipeImplements` is the refinement, `PartialSpec => ImplementsPPipeSpec`, under the hypothesis
`Overrun = {}`: the pages lie so that the wake-up loop of ppipe_write, which runs past the slot
table, meets nothing in the buffer (otherwise it damages bytes, section 6). Two things more than
`FrontsInv` are needed, and `LogInv` adds them:

* `WritersAtEnd`: a slot without the read end is marked empty, unless it is the slot of a child
  whose fork has the end still to visit. do_flush_ppipe looks at every slot that is not marked
  empty, whatever its ends; so it waits for readers only (`FlushCounts`).
* `CopiesParent`: while a fork runs, a slot that the child already has stands where its parent's
  does, so the child sees, at the end of the fork, what PPipeSpec says.

`View` and `UnreadSays` express the mapped variables by tables, rings and slots; each action then has
its lemma. The arithmetic is in `ReadDelivers` (a read gives the oldest unread bytes),
`WriteAdds` (each reader has the stored bytes more to read) and `PartlyFlushedRing`.

**Scheduler** (SchedulerProofs). `Turns` numbers the processes in the order of a search;
the numbers are distinct (`TurnsInjective`) and each turn of the loop goes to the next
(`NextTurn`). The loop is a recursive function, so what it computes cannot be had by induction
on it: `SolutionUnique` takes a process where the loop and the closed form differ and that
is the last such in turn, and finds that they agree there because they agree one turn later.
`LoopPicksNearest` is the result, for all states and any number of processes.
`PassedOverComesNearer` is why round robin starves nobody: a choice that passes over a ready
process leaves it nearer in turn; the liveness property itself stays with TLC.

**Debugger** (DebuggerProofs). `HandOver` is not inductive alone: `HandInv` adds that a process that
is awake has no ticks left, else a process that begins to wait would seem to sleep, that the second
context is in use exactly while there is a debuggee, and that one process has the processor. The
other invariants follow from

    DebugInv == TypeOK /\ HandInv /\ ListInv /\ StopInv /\ EndsInv /\ FramesInv
                /\ BacktraceIsCallChain

* `ListInv`: one breakpoint per function, an int3 exactly where one is listed, numbers that grow along
  the list and never pass the last one given. `BreakpointsCorrect` needs that setting and
  removing treat the list and the code together.
* `StopInv`: at a stop its function is on top of the call stack, and still has its breakpoint unless
  the code in front of the debuggee is destroyed, that is, unless it was removed meanwhile.
* `EndsInv`: a function whose return address is replaced has an entry on the call stack and its
  end enabled. remove_breakpoint and set_breakpoint refuse to change a function that is on the
  call stack with its end enabled, and wait_and_continue takes away only entries whose end is not
  enabled, or the one of end_handler: hence `EndsKeptCorrect`, with no condition on what is
  removed, and whatever wait_and_continue reads through NULL.
* `FramesInv`: the frames of the debuggee are linked, unless the code in front of it is destroyed.
  Each returns to its caller, or to end_handler with, in `Coming` (the call stack as the next wait
  will leave it), the entry that holds the real place, at the depth where the return will look
  for it; end_handler is nowhere but on top. `ReturnsHomeCorrect` is its reading while the
  debuggee runs; the backtrace at a stop walks the same links (`BacktraceCorrect`).

**Threads** (ThreadsProofs). The theorems hold for `Spec` of GThread, with every tick, fault and
creation, hence for `FairSpec` (`FairIsPolite`, `PoliteIsSpec`). Every step of the library is one of the kernel
or leaves it alone (`NextIsKernelStep`), and each kernel step keeps `ThreadsInv`.

* `LookupCorrect`: `OwnSlots` says that slots in use and living threads correspond one to one
  and, the part that makes a search by pid right, that a free slot in front of a
  thread's own does not hold the thread's pid. A new thread takes the first free slot, so what stands
  in front of it is in use by others.
* `FlagsCorrect`: `FlagsOfViewer` speaks of the context that runs or, while the swapper does, of the
  one that ran before it, because no switch is made for the swapper.

**Thread library** (second half of ThreadsProofs). These theorems are for `PoliteSpec`, the
specification the run checks without its fairness: the timer ticks before any step, and
no thread is created at the three moments that `PatientCreate` names, because the code is wrong there
(sections 2 and 6). `FairSpec` implies it (`FairIsPolite`), and what holds of `Spec` holds of it
(`PoliteIsSpec`). The invariant is `ThreadsInv /\ LibraryInv`, with

    LibraryInv == TypeOK /\ NumbersInv /\ EntriesInv /\ ContextsInv /\ PhasesInv
                  /\ StartInv /\ JoinInv /\ AreasAgree /\ ExitedInv

* `NumbersInv`: a thread has its tid once gthread_create has registered it, its stack until it is
  joined, and a join that returned has returned that thread's result.
* `EntriesInv`, `ContextsInv`: an entry in use has a context of its own, that of its thread, and
  its number is the tid; every context in use belongs to an entry, to the clone that
  gthread_create has made and not yet registered, or to a thread that its join overtook (`Left`).
  So without such a thread contexts inject into entries, which is why `CloneCorrect` is a
  pigeonhole: with an entry free, a context and a slot are.
* `PhasesInv` ties the status of an entry to the place of its thread in gthread_exit, the state of its
  context and the result it leaves. Without it a join could not know that a context found unused is
  that of its own thread, and one entry could be released twice.
* `StartInv`: a thread that is cloned but not yet made ready waits with no ticks left, so that
  no tick wakes it. It gives `RegisteredCorrect`.
* `JoinInv`: the entry that a join examines stays the one its caller named while the process
  sleeps, because only the process itself frees entries, and when the wait is over the
  thread is dead or past its first store (`Past`). `JoinEndsCorrect` and `JoinResultCorrect`
  rest on it, together with `LookupFindsOwnSlot` for the wake-up.
* `ExitedInv`: when the process has exited no entry is taken and no stack mapped, and what is then
  left of contexts and slots is that of overtaken threads.

There is one lemma per action; what the process does (create, register, join) moves one entry, what a
thread does moves one phase, and ticks, faults and idle switches move only states of contexts.

Every safety property, action property and refinement of the passing runs is stated by a theorem.
Model-checked only: the runs that expect a violation, and the liveness properties
`DebuggerLearnsOfExit`, `JoinTerminates` and `ReadyRuns`. Out of the prover's reach in general: liveness, ENABLED, recursive definitions and
induction over data.

## 6. Findings

* **Two descriptors of one end in one process** (run pipe_dup_read). pipe.c:187-205 clears
  the status of the end whenever any descriptor of it is closed, whatever its reference
  count. After `dup`, closing one descriptor makes reads through the other return
  -EINVAL, which pipe.c:287 reserves for "If read end is already closed."; with both ends
  treated that way the pages are freed while descriptors remain.
* **Recycled pages** (run pipe_dirty). alloc_pipe_info initialises slot 0 only, although
  pipe.c:51-52 asks to "Initialize per process fields for this pipe.", and os_page_alloc
  clears only page-table pages. On a page whose old bytes read as used slots, fork finds
  no free slot and reports that the limit is reached.

* **Full flush of a persistent pipe** (run ppipe_flush). The loop at ppipe.c:295-299, under the
  comment "reset all process values", indexes with the wrong variable. Readers keep their
  fronts, and the stores past the table leave front at -1 and rear at 1 in a pipe that
  ppipe.c:290 calls "empty ppipe".
* **Wake-up loop past the table** (run ppipe_overrun). ppipe.c:520 runs to 4096 entries over a table
  of 16. With the buffer in the next page, a write of 28 non-zero bytes at its start finds bytes
  20 to 23 zeroed, although ppipe.c:419 says "Write the data from the provided buffer to
  the ppipe buffer."

* **A join that ends early** (run gthread_reuse). gthread.c:152 takes another entry with the same pid
  as a sign that "the original already exited" (gthread.c:155-156). It may be the entry of an older
  thread that exited, was not joined yet, and whose pid the joined thread has now: the join ends when
  any thread exits, unmaps the stack of a thread that runs, and returns NULL.

* **A breakpoint that is gone** (run debugger_remove). debug.c:420 says "either call stack is empty or we
  have a breakpoint", and debug.c:432 reads its flag without a test. do_remove_breakpoint refuses only
  breakpoints with end enabled (debug.c:326), so a debugger may remove the one without end that its
  debuggee has just stopped at: the entry stays on the call stack, and the next wait reads the
  flag through NULL.

Observations that no run reports, because the runs leave the case out or no line of the repository
says otherwise:

* gthread.c:87-91: the timer is on between the stores of gthread_exit and its exit call. A tick there
  lets the join return and unmap the stack before the thread has exited; it then faults, its context
  stays EXITING for good, and the machine does not stop. The runs and the theorems have this
  tick: `JoinEndsAfterStores` says how far the join can be trusted, and `Overtaken` is who pays. Its
  fault wakes the process once more, also after the process has exited.
* clone_threads.c:53: clone copies what is left of the process's sleep, so the timer can wake the new
  thread before make_thread_ready (`RunsRegistered` fails without the second guard of `PatientCreate`).
* clone_threads.c:116: `!(flag & WR)` is 0 or 1 and never has the write bit: a forbidden write is "fixed" and
  faults again.
* clone_threads_helper.c:86: nothing ever sets the status TH_USED that cleanup_all_threads looks for.
* clone_threads.c:28: without a free slot, clone returns and leaves a context that is used and never
  freed.
* debug.c:334: remove_breakpoint writes back bytes that were never saved, zeroes.
* debug.c:218-242: a debugger that exits leaves its other breakpoints in the code, and its debuggee
  waiting.
* debug.c:238-241: at the debuggee's exit the debugger's pending wait returns whatever rax held; CHILD_EXIT
  comes with the next one.
* file.c:406: sendfile writes `count` bytes whatever read_size was, and frees its buffer on one
  path only. A pipe at either end refuses the kernel's buffer, so sendfile never moves a byte
  through one.
* file.c:208: SEEK_END counts from the current offset, as SEEK_CUR does.
* file.c:141-157: opening a standard name gives a second descriptor of whatever descriptor 0, 1 or 2 is by
  then, and runs past the table when none is free.

## 7. Not modelled, and the plan

* **is_valid_mem_range**: address arithmetic over mm_segments and vm_areas without state; its verdict is
  an input of the calls, true or false at every one. (The ends are exclusive but compared with
  `>= buff + count - 1`, pipe.c:243, and a count of 0 wraps the sum.)
* **Message queue**: a header, no code.
* **Memory, paging, file system, context, boot, and the entry points of two assignments**: object files.
  What the modelled code uses of them is modelled from its use.
* **User libraries, init and test programs**: system call stubs, printing, and programs that
  make particular calls; the models let every process make every call at any time.
* **Other copies**: `assignment-3`, `190017` and the like are earlier or submitted versions of
  the same files; assignment_1 is an archive.

Most C files of the repository are of the last three kinds, so the share of all lines that the models
translate stays small; of the code written for the assignments (pipe.c, ppipe.c, file.c,
debug.c, schedule.c, clone_threads.c, clone_threads_helper.c, gthread.c) nearly every function
is covered.

To come, in order of importance:

1. The bytes of regular files, so that the observation on sendfile becomes a checked property.
