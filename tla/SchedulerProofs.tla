---------------------------- MODULE SchedulerProofs ----------------------------
(***************************************************************************)
(* What the search of the scheduler finds and what a tick preserves, for   *)
(* any number of processes.                                                *)
(***************************************************************************)
EXTENDS Scheduler, WellFoundedInduction, TLAPS

LastPid == MaxProcesses - 1

\* A search looks at a smallest number of turns.
LEMMA LeastOf ==
  ASSUME NEW S \in SUBSET Nat, S # {}
  PROVE  \E x \in S : \A y \in S : x <= y
<1> DEFINE Less == {ss \in Nat \X Nat : ss[1] < ss[2]}
<1>1. IsWellFoundedOn(Less, Nat)
  <2>1. Less = OpToRel(<, Nat)
    BY Zenon DEF OpToRel, Less
  <2> QED BY <2>1, NatLessThanWellFounded, Zenon
<1>2. ASSUME NEW x \in Nat, NEW y \in Nat, y < x PROVE <<y, x>> \in Less
  <2>1. <<y, x>> \in Nat \X Nat /\ <<y, x>>[1] = y /\ <<y, x>>[2] = x
    OBVIOUS
  <2> QED BY <1>2, <2>1, Zenon DEF Less
<1> HIDE DEF Less
<1>3. PICK x \in S : \A y \in S : ~ (<<y, x>> \in Less)
  BY <1>1, WFMin
<1>4. ASSUME NEW y \in S PROVE x <= y
  <2>1. ~ (y < x)
    BY <1>2, <1>3
  <2> QED BY <2>1
<1> QED BY <1>4

-------------------------------------------------------------------------------
\* The number of turns, without the remainder; no two processes share one.
LEMMA TurnsValue ==
  ASSUME NEW p \in Pid, NEW q \in User
  PROVE  /\ Turns(p, q) = IF q > p THEN q - p - 1 ELSE q - p - 1 + LastPid
         /\ Turns(p, q) \in 0 .. LastPid - 1
<1>1. LastPid \in Nat /\ LastPid >= 1 /\ p \in 0 .. LastPid /\ q \in 1 .. LastPid
  BY SchedulerAssumption DEF Pid, User, Swapper, LastPid
<1>2. CASE q > p
  <2>1. q - p - 1 \in 0 .. LastPid - 1
    BY <1>1, <1>2
  <2>2. (q - p - 1) % LastPid = q - p - 1
    BY <1>1, <2>1
  <2> QED BY <1>1, <1>2, <2>1, <2>2 DEF Turns, LastPid
<1>3. CASE ~ (q > p)
  <2>1. q - p - 1 + LastPid \in 0 .. LastPid - 1
    BY <1>1, <1>3
  <2>2. (q - p - 1) % LastPid = q - p - 1 + LastPid
    BY <1>1, <2>1
  <2> QED BY <1>1, <1>3, <2>1, <2>2 DEF Turns, LastPid
<1> QED BY <1>2, <1>3

LEMMA TurnsInjective ==
  ASSUME NEW p \in Pid, NEW q \in User, NEW r \in User, Turns(p, q) = Turns(p, r)
  PROVE  q = r
<1>1. LastPid \in Nat /\ p \in 0 .. LastPid /\ q \in 1 .. LastPid /\ r \in 1 .. LastPid
  BY SchedulerAssumption DEF Pid, User, Swapper, LastPid
<1> QED BY <1>1, TurnsValue

(***************************************************************************)
(* The ready process that is at least k turns away and nearest.            *)
(***************************************************************************)
From(st, p, k)    == {r \in ReadyUsers(st) : Turns(p, r) >= k}
Nearest(st, p, k) == IF From(st, p, k) = {} THEN Swapper ELSE NearestOf(p, From(st, p, k))

LEMMA NearestFound ==
  ASSUME NEW st, NEW p \in Pid, NEW k \in Nat, From(st, p, k) # {}
  PROVE  /\ Nearest(st, p, k) \in From(st, p, k)
         /\ \A r \in From(st, p, k) : Turns(p, Nearest(st, p, k)) <= Turns(p, r)
<1> DEFINE T == {Turns(p, r) : r \in From(st, p, k)}
<1>1. \A r \in From(st, p, k) : r \in User /\ Turns(p, r) \in Nat
  <2>1. \A r \in From(st, p, k) : r \in User
    BY DEF From, ReadyUsers
  <2> QED BY <2>1, TurnsValue, SchedulerAssumption DEF LastPid
<1>2. PICK t \in T : \A u \in T : t <= u
  <2>1. T \in SUBSET Nat /\ T # {}
    BY <1>1
  <2> QED BY <2>1, LeastOf
<1>3. PICK q \in From(st, p, k) : t = Turns(p, q)
  BY <1>2
<1>4. \A r \in From(st, p, k) : Turns(p, q) <= Turns(p, r)
  BY <1>2, <1>3
<1> QED BY <1>3, <1>4 DEF Nearest, NearestOf

\* The closed form picks the nearest of all.
LEMMA PickIsNearest ==
  ASSUME NEW st, NEW p \in Pid
  PROVE  PickNext(st, p) = Nearest(st, p, 0)
<1>1. \A r \in ReadyUsers(st) : Turns(p, r) >= 0
  <2>1. \A r \in ReadyUsers(st) : r \in User
    BY DEF ReadyUsers
  <2> QED BY <2>1, TurnsValue, SchedulerAssumption DEF LastPid
<1>2. From(st, p, 0) = ReadyUsers(st)
  BY <1>1 DEF From
<1> QED BY <1>2 DEF PickNext, Nearest

(***************************************************************************)
(* pick_next_context returns a ready process if there is one, and the      *)
(* nearest in turn, else the swapper (schedule.c:15-34).                   *)
(***************************************************************************)
THEOREM PickNextCorrect ==
  ASSUME NEW st, NEW p \in Pid
  PROVE  /\ PickNext(st, p) \in Pid
         /\ ReadyUsers(st) = {} => PickNext(st, p) = Swapper
         /\ ReadyUsers(st) # {} =>
              /\ PickNext(st, p) \in ReadyUsers(st)
              /\ \A r \in ReadyUsers(st) : Turns(p, PickNext(st, p)) <= Turns(p, r)
<1>1. ReadyUsers(st) \subseteq Pid /\ Swapper \in Pid
  BY SchedulerAssumption DEF ReadyUsers, User, Pid, Swapper
<1>2. CASE ReadyUsers(st) = {}
  BY <1>1, <1>2 DEF PickNext
<1>3. CASE ReadyUsers(st) # {}
  <2>1. From(st, p, 0) = ReadyUsers(st)
    <3>1. \A r \in ReadyUsers(st) : r \in User
      BY DEF ReadyUsers
    <3>2. \A r \in ReadyUsers(st) : Turns(p, r) >= 0
      BY <3>1, TurnsValue, SchedulerAssumption DEF LastPid
    <3> QED BY <3>2 DEF From
  <2>2. /\ PickNext(st, p) \in ReadyUsers(st)
        /\ \A r \in ReadyUsers(st) : Turns(p, PickNext(st, p)) <= Turns(p, r)
    BY <1>3, <2>1, NearestFound, PickIsNearest
  <2> QED BY <1>1, <1>3, <2>2
<1> QED BY <1>2, <1>3

(***************************************************************************)
(* Why nobody starves: every choice that passes over a ready process       *)
(* brings it nearer, by at least one turn (schedule.c:15-34).              *)
(***************************************************************************)
THEOREM PassedOverComesNearer ==
  ASSUME NEW st, NEW p \in Pid, NEW r \in ReadyUsers(st), PickNext(st, p) # r
  PROVE  Turns(PickNext(st, p), r) < Turns(p, r)
<1> DEFINE q == PickNext(st, p)
<1>1. q \in User /\ r \in User /\ Turns(p, q) <= Turns(p, r)
  BY PickNextCorrect DEF ReadyUsers
<1>2. LastPid \in Nat /\ p \in 0 .. LastPid /\ q \in 1 .. LastPid /\ r \in 1 .. LastPid
  BY <1>1, SchedulerAssumption DEF Pid, User, Swapper, LastPid
<1>3. q \in Pid
  BY <1>1 DEF User
<1>4. /\ Turns(p, q) = IF q > p THEN q - p - 1 ELSE q - p - 1 + LastPid
      /\ Turns(p, r) = IF r > p THEN r - p - 1 ELSE r - p - 1 + LastPid
      /\ Turns(q, r) = IF r > q THEN r - q - 1 ELSE r - q - 1 + LastPid
  BY <1>1, <1>3, TurnsValue
<1> HIDE DEF q
<1>5. Turns(q, r) < Turns(p, r)
  BY <1>1, <1>2, <1>4, PickNext(st, p) # r DEF q
<1> QED BY <1>5 DEF q

-------------------------------------------------------------------------------
(***************************************************************************)
(* The loop of the code, turn by turn.                                     *)
(***************************************************************************)
LEMMA FirstTurn ==
  ASSUME NEW p \in Pid
  PROVE  FirstPid(p) \in User /\ Turns(p, FirstPid(p)) = 0
<1>1. LastPid \in Nat /\ LastPid >= 1 /\ p \in 0 .. LastPid
  BY SchedulerAssumption DEF Pid, LastPid
<1>2. FirstPid(p) \in User
  BY <1>1, SchedulerAssumption DEF FirstPid, User, Pid, Swapper, LastPid
<1> QED BY <1>1, <1>2, TurnsValue DEF FirstPid, LastPid

LEMMA NextTurn ==
  ASSUME NEW p \in Pid, NEW q \in User
  PROVE  IF Turns(p, q) = LastPid - 1 THEN NextPid(p, q) = Swapper
         ELSE NextPid(p, q) \in User /\ Turns(p, NextPid(p, q)) = Turns(p, q) + 1
<1>1. LastPid \in Nat /\ LastPid >= 1 /\ p \in 0 .. LastPid /\ q \in 1 .. LastPid
  BY SchedulerAssumption DEF Pid, User, Swapper, LastPid
<1>2. Turns(p, q) = IF q > p THEN q - p - 1 ELSE q - p - 1 + LastPid
  BY TurnsValue
<1>3. CASE Turns(p, q) = LastPid - 1
  BY <1>1, <1>2, <1>3, SchedulerAssumption DEF NextPid, Swapper, LastPid
<1>4. CASE Turns(p, q) # LastPid - 1
  <2>1. NextPid(p, q) = IF q = LastPid THEN 1 ELSE q + 1
    BY <1>1, <1>2, <1>4, SchedulerAssumption DEF NextPid, Swapper, LastPid
  <2>2. NextPid(p, q) \in User
    BY <1>1, <2>1 DEF User, Pid, Swapper, LastPid
  <2>3. q = LastPid => p # Swapper
    BY <1>1, <1>2, <1>4 DEF Swapper
  <2>4. Turns(p, NextPid(p, q)) = IF NextPid(p, q) > p THEN NextPid(p, q) - p - 1
                                                       ELSE NextPid(p, q) - p - 1 + LastPid
    BY <2>2, TurnsValue
  <2> QED BY <1>1, <1>2, <1>4, <2>1, <2>2, <2>3, <2>4 DEF Swapper
<1> QED BY <1>3, <1>4

\* One turn of the loop on the function f that is the search, and its solution.
Turn(st, p, f) == [pid \in Pid |-> IF pid = Swapper \/ st[pid] = "READY" THEN pid ELSE f[NextPid(p, pid)]]
Solution(st, p) == [pid \in Pid |-> IF pid = Swapper THEN Swapper ELSE Nearest(st, p, Turns(p, pid))]

\* The nearest process from k turns on is the one at k turns, if it is ready.
LEMMA NearestStep ==
  ASSUME NEW st, NEW p \in Pid, NEW q \in User
  PROVE  /\ st[q] = "READY" => Nearest(st, p, Turns(p, q)) = q
         /\ st[q] # "READY" => Nearest(st, p, Turns(p, q)) = Nearest(st, p, Turns(p, q) + 1)
<1>1. Turns(p, q) \in Nat /\ \A r \in ReadyUsers(st) : r \in User /\ Turns(p, r) \in Nat
  <2>1. \A r \in ReadyUsers(st) : r \in User
    BY DEF ReadyUsers
  <2> QED BY <2>1, TurnsValue, SchedulerAssumption DEF LastPid
<1>2. ASSUME st[q] = "READY" PROVE Nearest(st, p, Turns(p, q)) = q
  <2>1. q \in From(st, p, Turns(p, q))
    BY <1>1, <1>2 DEF From, ReadyUsers
  <2>2. PICK r \in From(st, p, Turns(p, q)) : r = Nearest(st, p, Turns(p, q)) /\ Turns(p, r) <= Turns(p, q)
    BY <1>1, <2>1, NearestFound
  <2>3. r \in User /\ Turns(p, r) = Turns(p, q)
    BY <1>1, <2>2 DEF From
  <2> QED BY <2>2, <2>3, TurnsInjective
<1>3. ASSUME st[q] # "READY" PROVE Nearest(st, p, Turns(p, q)) = Nearest(st, p, Turns(p, q) + 1)
  <2>1. ASSUME NEW r \in ReadyUsers(st) PROVE Turns(p, r) >= Turns(p, q) <=> Turns(p, r) >= Turns(p, q) + 1
    <3>1. Turns(p, r) # Turns(p, q)
      BY <1>1, <1>3, TurnsInjective DEF ReadyUsers
    <3> QED BY <1>1, <3>1
  <2>2. From(st, p, Turns(p, q)) = From(st, p, Turns(p, q) + 1)
    BY <2>1 DEF From
  <2> QED BY <2>2 DEF Nearest
<1> QED BY <1>2, <1>3

LEMMA NoneBeyond ==
  ASSUME NEW st, NEW p \in Pid
  PROVE  Nearest(st, p, LastPid) = Swapper
<1>1. \A r \in ReadyUsers(st) : ~ (Turns(p, r) >= LastPid)
  <2>1. \A r \in ReadyUsers(st) : r \in User
    BY DEF ReadyUsers
  <2> QED BY <2>1, TurnsValue, SchedulerAssumption DEF LastPid
<1> QED BY <1>1 DEF Nearest, From

LEMMA SolutionSolves ==
  ASSUME NEW st, NEW p \in Pid
  PROVE  Solution(st, p) = Turn(st, p, Solution(st, p))
<1> DEFINE g == Solution(st, p)
<1>0. Swapper \in Pid /\ \A q \in Pid : q # Swapper => q \in User
  BY SchedulerAssumption DEF User, Pid, Swapper
<1>1. ASSUME NEW q \in Pid, q # Swapper
      PROVE  g[q] = IF st[q] = "READY" THEN q ELSE g[NextPid(p, q)]
  <2>1. q \in User /\ g[q] = Nearest(st, p, Turns(p, q))
    BY <1>0, <1>1 DEF Solution
  <2>2. CASE st[q] = "READY"
    BY <2>1, <2>2, NearestStep
  <2>3. CASE st[q] # "READY" /\ Turns(p, q) = LastPid - 1
    <3>1. NextPid(p, q) = Swapper /\ g[Swapper] = Swapper
      BY <1>0, <2>1, <2>3, NextTurn DEF Solution
    <3>2. Turns(p, q) + 1 = LastPid
      BY <2>3, SchedulerAssumption DEF LastPid
    <3> QED BY <2>1, <2>3, <3>1, <3>2, NearestStep, NoneBeyond
  <2>4. CASE st[q] # "READY" /\ Turns(p, q) # LastPid - 1
    <3>1. NextPid(p, q) \in User /\ Turns(p, NextPid(p, q)) = Turns(p, q) + 1
      BY <2>1, <2>4, NextTurn
    <3>2. g[NextPid(p, q)] = Nearest(st, p, Turns(p, q) + 1)
      BY <3>1 DEF Solution, User
    <3> QED BY <2>1, <2>4, <3>2, NearestStep
  <2> QED BY <2>2, <2>3, <2>4
<1>2. g[Swapper] = Swapper
  BY <1>0 DEF Solution
<1>3. g = [q \in Pid |-> g[q]]
  BY DEF Solution
<1> HIDE DEF g
<1>4. g = Turn(st, p, g)
  BY <1>0, <1>1, <1>2, <1>3 DEF Turn
<1> QED BY <1>4 DEF g

\* A search that satisfies its equation finds what the solution says: by
\* contradiction, at the last pid in turn where it does not.
LEMMA SolutionUnique ==
  ASSUME NEW st, NEW p \in Pid, NEW f, f = Turn(st, p, f)
  PROVE  \A q \in Pid : f[q] = Solution(st, p)[q]
<1> DEFINE g   == Solution(st, p)
           bad == {q \in User : f[q] # g[q]}
           S   == {LastPid - 1 - Turns(p, q) : q \in bad}
<1>1. Swapper \in Pid /\ User \subseteq Pid /\ LastPid \in Nat /\ LastPid >= 1
  BY SchedulerAssumption DEF User, Pid, Swapper, LastPid
<1>2. \A h : h = Turn(st, p, h) =>
        \A q \in Pid : h[q] = IF q = Swapper \/ st[q] = "READY" THEN q ELSE h[NextPid(p, q)]
  BY DEF Turn
<1>3. /\ \A q \in Pid : f[q] = IF q = Swapper \/ st[q] = "READY" THEN q ELSE f[NextPid(p, q)]
      /\ \A q \in Pid : g[q] = IF q = Swapper \/ st[q] = "READY" THEN q ELSE g[NextPid(p, q)]
  BY <1>2, SolutionSolves
<1> HIDE DEF g
<1>4. bad = {}
  <2>1. SUFFICES ASSUME bad # {} PROVE FALSE
    OBVIOUS
  <2>2. \A q \in bad : q \in User /\ Turns(p, q) \in 0 .. LastPid - 1
    BY TurnsValue
  <2>3. S \in SUBSET Nat /\ S # {}
    BY <1>1, <2>1, <2>2
  <2>4. PICK x \in S : \A y \in S : x <= y
    BY <2>3, LeastOf
  <2>5. PICK q \in bad : x = LastPid - 1 - Turns(p, q)
    BY <2>4
  <2>6. q \in Pid /\ q # Swapper /\ st[q] # "READY" /\ f[NextPid(p, q)] # g[NextPid(p, q)]
    BY <1>1, <1>3, <2>5 DEF User
  <2>7. CASE Turns(p, q) = LastPid - 1
    <3>1. NextPid(p, q) = Swapper
      BY <2>2, <2>7, NextTurn
    <3> QED BY <1>1, <1>3, <2>6, <3>1
  <2>8. CASE Turns(p, q) # LastPid - 1
    <3>1. NextPid(p, q) \in User /\ Turns(p, NextPid(p, q)) = Turns(p, q) + 1
      BY <2>2, <2>8, NextTurn
    <3>2. NextPid(p, q) \in bad
      BY <2>6, <3>1
    <3>3. LastPid - 1 - Turns(p, NextPid(p, q)) >= x
      BY <2>4, <3>2
    <3> QED BY <1>1, <2>2, <2>5, <3>1, <3>3
  <2> QED BY <2>7, <2>8
<1>5. ASSUME NEW q \in Pid PROVE f[q] = g[q]
  <2>1. CASE q = Swapper
    BY <1>3, <2>1
  <2>2. CASE q # Swapper
    BY <1>4, <2>2 DEF User
  <2> QED BY <2>1, <2>2
<1> QED BY <1>5 DEF g

(***************************************************************************)
(* pick_next_context computes the closed form from every pid and in all    *)
(* states of the processes (schedule.c:15-34).                             *)
(***************************************************************************)
THEOREM LoopPicksNearest ==
  ASSUME NEW st, NEW p \in Pid
  PROVE  PickByLoop(st, p) = PickNext(st, p)
<1> DEFINE f == CHOOSE h : h = Turn(st, p, h)
<1>1. PickByLoop(st, p) = f[FirstPid(p)]
  BY DEF PickByLoop, Turn
<1>2. f = Turn(st, p, f)
  <2>1. \E h : h = Turn(st, p, h)
    BY SolutionSolves
  <2> QED BY <2>1
<1>3. FirstPid(p) \in User /\ FirstPid(p) \in Pid /\ FirstPid(p) # Swapper /\ Turns(p, FirstPid(p)) = 0
  BY FirstTurn DEF User
<1> HIDE DEF f
<1>4. f[FirstPid(p)] = Solution(st, p)[FirstPid(p)]
  BY <1>2, <1>3, SolutionUnique
<1>5. Solution(st, p)[FirstPid(p)] = Nearest(st, p, 0)
  BY <1>3 DEF Solution
<1> QED BY <1>1, <1>4, <1>5, PickIsNearest

\* The property of the runs.
THEOREM PickCorrect == PicksNearestReady
BY LoopPicksNearest DEF PicksNearestReady

-------------------------------------------------------------------------------
(***************************************************************************)
(* What schedule and a tick preserve.                                      *)
(***************************************************************************)
\* A process that does not wait has no ticks left to sleep; no program
\* modelled with Debugger wakes a sleeping process otherwise.
AwakeHasNoTicks == \A p \in Pid : state[p] # "WAITING" => ticksToSleep[p] = 0

LEMMA ScheduleKeeps ==
  ASSUME NEW st \in [Pid -> ProcessState], NEW q \in Pid, Schedule(st, q),
         \A p \in Pid \ {q} : st[p] # "RUNNING"
  PROVE  /\ state' \in [Pid -> ProcessState] /\ current' \in Pid
         /\ OneOnProcessor'
         /\ state' = [st EXCEPT ![q] = "RUNNING"] /\ current' = q
BY DEF Schedule, OneOnProcessor, ProcessState

\* The choice of pick_next_context, run by schedule.
LEMMA SchedulePick ==
  ASSUME NEW st \in [Pid -> ProcessState], NEW p \in Pid, Schedule(st, PickNext(st, p)),
         \A q \in Pid : st[q] # "RUNNING"
  PROVE  /\ state' \in [Pid -> ProcessState] /\ current' \in Pid
         /\ OneOnProcessor'
         /\ \A q \in Pid : \/ state'[q] = st[q]
                           \/ (st[q] = "READY" \/ q = Swapper) /\ state'[q] = "RUNNING"
<1> DEFINE next == PickNext(st, p)
<1>1. next \in Pid /\ (next = Swapper \/ st[next] = "READY")
  BY PickNextCorrect DEF ReadyUsers
<1> HIDE DEF next
<1>2. Schedule(st, next)
  BY DEF next
<1>3. /\ state' \in [Pid -> ProcessState] /\ current' \in Pid /\ OneOnProcessor'
      /\ state' = [st EXCEPT ![next] = "RUNNING"]
  BY <1>1, <1>2, ScheduleKeeps
<1> QED BY <1>1, <1>3

LEMMA AfterTickType ==
  ASSUME SchedulerTypeOK, OneOnProcessor
  PROVE  /\ AfterTick \in [Pid -> ProcessState]
         /\ \A p \in Pid : AfterTick[p] = IF Woken(p) \/ p = current THEN "READY" ELSE state[p]
         /\ \A p \in Pid : AfterTick[p] # "RUNNING"
BY DEF SchedulerTypeOK, OneOnProcessor, AfterTick, ProcessState

LEMMA AccountType ==
  ASSUME SchedulerTypeOK, Account
  PROVE  /\ ticksToSleep' \in [Pid -> Nat]
         /\ \A p \in Pid : ticksToSleep'[p] = IF Sleeping(p) THEN ticksToSleep[p] - 1 ELSE ticksToSleep[p]
<1>1. \A p \in Pid : Sleeping(p) => ticksToSleep[p] - 1 \in Nat
  BY DEF SchedulerTypeOK, Sleeping
<1> QED BY <1>1 DEF SchedulerTypeOK, Account

\* handle_timer_tick: only sleeping processes and the ones that give and
\* take the processor change.
LEMMA TickKeeps ==
  ASSUME SchedulerTypeOK, OneOnProcessor, Tick
  PROVE  /\ SchedulerTypeOK' /\ OneOnProcessor'
         /\ \A p \in Pid : state'[p] \in {state[p], "READY", "RUNNING"}
         /\ \A p \in Pid : state[p] \in {"READY", "RUNNING"} => state'[p] \in {"READY", "RUNNING"}
         /\ \A p \in User : ~ (Woken(p) \/ state[p] \in {"READY", "RUNNING"}) => state'[p] = state[p]
         /\ \A p \in Pid : Woken(p) => state'[p] # "WAITING"
<1> DEFINE next == PickNext(AfterTick, current)
<1>1. ticksToSleep' \in [Pid -> Nat]
  BY AccountType DEF Tick
<1>2. current \in Pid /\ next \in Pid /\ (next = Swapper \/ AfterTick[next] = "READY")
  <2>1. current \in Pid
    BY DEF SchedulerTypeOK
  <2> QED BY <2>1, PickNextCorrect DEF ReadyUsers
<1> HIDE DEF next
<1>3. CASE next = current
  <2>1. state' = AfterTick /\ current' = current
    BY <1>3 DEF Tick, next
  <2> QED BY <1>1, <1>2, <2>1, AfterTickType DEF SchedulerTypeOK, OneOnProcessor, User
<1>4. CASE next # current
  <2>1. Schedule(AfterTick, next)
    BY <1>4 DEF Tick, next
  <2>2. state' = [AfterTick EXCEPT ![next] = "RUNNING"] /\ current' = next
    BY <2>1 DEF Schedule
  <2>3. OneOnProcessor' /\ state' \in [Pid -> ProcessState] /\ current' \in Pid
    BY <1>2, <2>1, AfterTickType, ScheduleKeeps
  <2>4. \A p \in Pid : state'[p] = IF p = next THEN "RUNNING" ELSE AfterTick[p]
    BY <2>2, AfterTickType
  <2> QED BY <1>1, <1>2, <2>3, <2>4, AfterTickType DEF SchedulerTypeOK, OneOnProcessor, User
<1> QED BY <1>3, <1>4
===============================================================================
