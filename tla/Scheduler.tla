----------------------------- MODULE Scheduler -----------------------------
(***************************************************************************)
(* The multilevel feedback queue of NachOS-4.0_MP3: threads/scheduler.cc,  *)
(* the life of a thread in thread.cc, and the timer's handler in alarm.cc. *)
(* Level 1 is shortest remaining burst first, level 2 is by priority,      *)
(* level 3 is round robin; waiting raises a thread's priority.             *)
(*                                                                         *)
(* There is one processor and these routines run with interrupts off.      *)
(* Clock ticks come in units of which TimerTicks make one timer period.    *)
(* Ages are kept instead of dates: a thread has waited since its           *)
(* wait_Start_Time, the current one has run since its burst_Start_Time.    *)
(* Bursts are doubles that are halved again and again, so they, and the    *)
(* time they are compared with, are counted in parts of a tick.            *)
(***************************************************************************)
EXTENDS Integers, SequencesExt

CONSTANTS Threads,      \* the thread IDs
          None,         \* NULL
          TimerTicks,   \* the period of the timer
          TickParts,    \* the parts of a tick in which bursts are counted
          Quantum,      \* what a level 3 thread may run
          AgingTicks,   \* what a thread waits for a higher priority
          AgingStep,    \* what it is raised by
          L1Floor, L2Floor, MaxPriority,
          Priorities,   \* the priorities Exec gives
          MaxBurst,     \* bound: parts in a burst, and in its excess
          MaxElapsed    \* bound: longer runs, in parts, are not told apart

ASSUME SchedulerAssumption ==
    /\ Threads \subseteq Nat /\ 0 \in Threads
    /\ None \notin Threads
    /\ {TimerTicks, TickParts, Quantum, AgingTicks, AgingStep, MaxBurst} \subseteq Nat \ {0}
    /\ {L1Floor, L2Floor, MaxPriority} \subseteq Nat
    /\ 0 < L2Floor /\ L2Floor < L1Floor /\ L1Floor <= MaxPriority
    /\ Priorities \subseteq 0 .. MaxPriority
    /\ TimerTicks < AgingTicks
    /\ MaxElapsed \in Nat
    /\ MaxElapsed >= TickParts * Quantum /\ MaxElapsed >= 2 * MaxBurst

Main == 0   \* the thread that boots the kernel

VARIABLES status,         \* Thread::status; finished is BLOCKED in Sleep(TRUE)
          currentThread,  \* Kernel::currentThread
          readyList,      \* readyList_L1, readyList_L2, readyList_L3
          toBeDestroyed,  \* Scheduler::toBeDestroyed
          priority,       \* Thread::priority
          remain,         \* Thread::burst_Time - Thread::use_Time, in parts
          waited,         \* per ready thread: totalTicks - wait_Start_Time
          elapsed,        \* totalTicks - burst_Start_Time of the current thread,
                          \* in parts
          phase,          \* ticks since the last timer interrupt
          at,             \* what the processor is doing
          level,          \* the loop of UpdatePriority: 1, 2 or 3
          iter            \* the thread its iterator points to, or None

timeVars == <<waited, elapsed, phase>>
loopVars == <<level, iter>>
vars == <<status, currentThread, readyList, toBeDestroyed, priority, remain,
          timeVars, at, loopVars>>

Smaller(a, b) == IF a < b THEN a ELSE b
Larger(a, b) == IF a > b THEN a ELSE b

Idle == status[currentThread] # "running"

(* A definition marked "fault" is the one after it with a mistake in it.   *)
(* No specification uses it: put in place of the correct one, it makes the *)
(* property it is meant for fail, which shows that the property can fail.  *)

-----------------------------------------------------------------------------
(* The ready lists.                                                        *)

Level(p) == CASE p >= L1Floor -> 1 [] p < L2Floor -> 3 [] OTHER -> 2

(* cmp_BurstTime: the remaining burst, or 0 if it was exceeded, then ID.   *)
Shorter(t, u, rem) ==
    LET a == Larger(rem[t], 0)
        b == Larger(rem[u], 0)
    IN  a < b \/ (a = b /\ t < u)

(* cmp_Priority: the higher priority, then ID.                             *)
Higher(t, u, prio) == prio[t] > prio[u] \/ (prio[t] = prio[u] /\ t < u)

Before(k, t, u, prio, rem) ==
    \/ k = 1 /\ Shorter(t, u, rem)
    \/ k = 2 /\ Higher(t, u, prio)

(* SortedList::Insert, at the first element that t comes before, and       *)
(* List::Append, at the end.                                               *)
AtTheEnd(l, k, t, prio, rem) == Len(l) + 1   \* fault
Place(l, k, t, prio, rem) ==
    CHOOSE i \in 1 .. Len(l) + 1 :
        /\ i = Len(l) + 1 \/ Before(k, t, l[i], prio, rem)
        /\ \A j \in 1 .. i - 1 : ~Before(k, t, l[j], prio, rem)

(* Scheduler::ReadyToRun.                                                  *)
Inserted(lists, t, prio, rem) ==
    LET k == Level(prio[t])
    IN  [lists EXCEPT ![k] = InsertAt(@, Place(@, k, t, prio, rem), t)]

NonEmpty == {k \in 1 .. 3 : readyList[k] # <<>>}

(* Scheduler::FindNextToRun: thread t is taken from the front of list k.   *)
NextToRun(k, t) ==
    /\ k \in NonEmpty
    /\ \A j \in NonEmpty : k <= j
    /\ t = Head(readyList[k])

NotTaken(k) == readyList               \* fault
Without(k) == [readyList EXCEPT ![k] = Tail(@)]

(* Scheduler::Run up to SWITCH; st is status with the old thread's change. *)
RunNext(t, st) ==
    /\ currentThread' = t
    /\ status' = [st EXCEPT ![t] = "running"]
    /\ elapsed' = 0
    /\ toBeDestroyed' =
          IF status[currentThread] = "finished" THEN currentThread ELSE toBeDestroyed
    /\ at' = "switched"

-----------------------------------------------------------------------------
(* Kernel::Initialize.                                                     *)
Init ==
    /\ status = [t \in Threads |-> IF t = Main THEN "running" ELSE "none"]
    /\ currentThread = Main
    /\ readyList = [k \in 1 .. 3 |-> <<>>]
    /\ toBeDestroyed = None
    /\ priority = [t \in Threads |-> 0]
    /\ remain = [t \in Threads |-> 0]
    /\ waited = [t \in Threads |-> 0]
    /\ elapsed = 0
    /\ phase = 0
    /\ at = "run"
    /\ level = 1
    /\ iter = None

(* Kernel::Exec, by the main thread: new Thread and Thread::Fork.          *)
Fork(t, p) ==
    /\ at = "run" /\ currentThread = Main
    /\ status[t] = "none"
    /\ status' = [status EXCEPT ![t] = "ready"]
    /\ priority' = [priority EXCEPT ![t] = p]
    /\ readyList' = Inserted(readyList, t, priority', remain)
    /\ UNCHANGED <<currentThread, toBeDestroyed, remain, timeVars, at, loopVars>>

(* A semaphore's V makes a blocked thread ready; it is called by the       *)
(* running thread, or by a device's interrupt handler, which may be due at *)
(* the same tick as the timer's and then runs before its Yield.            *)
Wake(t) ==
    /\ at \in {"run", "idle", "yield"}
    /\ status[t] = "blocked"
    /\ status' = [status EXCEPT ![t] = "ready"]
    /\ waited' = [waited EXCEPT ![t] = 0]
    /\ readyList' = Inserted(readyList, t, priority, remain)
    /\ UNCHANGED <<currentThread, toBeDestroyed, priority, remain, elapsed, phase,
                   at, loopVars>>

(* Thread::Sleep: the processor idles if nothing is ready.  The burst ends *)
(* and its estimate becomes any number of parts of a tick.                 *)
StopRunning(becomes) ==
    /\ at = "run"
    /\ status' = [status EXCEPT ![currentThread] = becomes]
    /\ elapsed' = 0
    /\ at' = IF NonEmpty = {} THEN "idle" ELSE "sleep"
    /\ UNCHANGED <<currentThread, readyList, toBeDestroyed, priority, waited, phase, loopVars>>

Sleep ==
    /\ StopRunning("blocked")
    /\ \E burst \in 0 .. MaxBurst : remain' = [remain EXCEPT ![currentThread] = burst]

(* Thread::Finish: Sleep(TRUE).                                            *)
Finish ==
    /\ StopRunning("finished")
    /\ remain' = [remain EXCEPT ![currentThread] = 0]

(* ... and Run.  In Idle, a handler may have made a thread ready, be it    *)
(* the current one.                                                        *)
Dispatch ==
    /\ at \in {"sleep", "idle"}
    /\ \E k \in 1 .. 3, t \in Threads :
          /\ NextToRun(k, t)
          /\ readyList' = Without(k)
          /\ waited' = [waited EXCEPT ![t] = 0]
          /\ RunNext(t, status)
    /\ UNCHANGED <<priority, remain, phase, loopVars>>

CarcassKept == toBeDestroyed           \* fault
NoCarcass == None

(* Scheduler::CheckToBeDestroyed, by the thread that runs now: at the end  *)
(* of its Scheduler::Run, or in Thread::Begin if it is new.                *)
CheckToBeDestroyed ==
    /\ at = "switched"
    /\ status' = [t \in Threads |-> IF t = toBeDestroyed THEN "deleted" ELSE status[t]]
    /\ toBeDestroyed' = NoCarcass
    /\ at' = "run"
    /\ UNCHANGED <<currentThread, readyList, priority, remain, timeVars, loopVars>>

-----------------------------------------------------------------------------
(* The clock.  The timer interrupt comes every TimerTicks; when the        *)
(* processor idles, the clock advances only while no thread is ready.      *)
FirstOf(l) == IF l = <<>> THEN None ELSE Head(l)

Tick ==
    /\ at = "run" \/ (at = "idle" /\ NonEmpty = {})
    /\ elapsed' = IF Idle THEN elapsed ELSE Smaller(elapsed + TickParts, MaxElapsed)
    /\ waited' = [t \in Threads |-> IF status[t] = "ready" THEN waited[t] + 1 ELSE 0]
    /\ phase' = (phase + 1) % TimerTicks
    /\ IF phase + 1 = TimerTicks
       THEN at' = "age" /\ level' = 1 /\ iter' = FirstOf(readyList[1])
       ELSE UNCHANGED <<at, loopVars>>
    /\ UNCHANGED <<status, currentThread, readyList, toBeDestroyed, priority, remain>>

(* Alarm::CallBack begins with Scheduler::UpdatePriority, three loops of   *)
(* a ListIterator.  Thread::aging first:                                   *)
Ages(t) == waited[t] >= AgingTicks
NewPriority(t) ==
    IF Ages(t) THEN Smaller(priority[t] + AgingStep, MaxPriority) ELSE priority[t]
Upgraded(t) == Level(NewPriority(t)) < Level(priority[t])

AlwaysRestarts(t) == 0                 \* fault
WaitAfterAging(t) == IF Ages(t) THEN 0 ELSE waited[t]

Aging(t) ==
    /\ priority' = [priority EXCEPT ![t] = NewPriority(t)]
    /\ waited' = [waited EXCEPT ![t] = WaitAfterAging(t)]

(* A thread that changes level is moved, and in level 2 every other one is *)
(* taken out and put back; the main thread stays where it is if upgraded.  *)
NeverMoves(t) == FALSE                 \* fault
Moves(t) ==
    \/ level = 2 /\ ~Upgraded(t)
    \/ level > 1 /\ Upgraded(t) /\ t # Main

(* The list element of a thread, and current->next.                        *)
Position(l, t) == CHOOSE i \in 1 .. Len(l) : l[i] = t

ElementAfter(t, lists) ==
    LET l == lists[CHOOSE k \in 1 .. 3 : t \in ToSet(lists[k])]
        i == Position(l, t)
    IN  IF i = Len(l) THEN None ELSE l[i + 1]

Stay ==
    /\ at = "age" /\ iter # None
    /\ ~Moves(iter)
    /\ Aging(iter)
    /\ iter' = ElementAfter(iter, readyList)
    /\ UNCHANGED <<status, currentThread, readyList, toBeDestroyed, remain, elapsed,
                   phase, at, level>>

(* Remove frees the list element, and ReadyToRun(iter->Item()) reads it.   *)
(* If it still holds the thread, the insertion allocates the same memory   *)
(* again, so that the iterator goes on from where the thread is now.       *)
Move ==
    /\ at = "age" /\ iter # None
    /\ Moves(iter)
    /\ iter \in ToSet(readyList[level])
    /\ priority' = [priority EXCEPT ![iter] = NewPriority(iter)]
    /\ waited' = [waited EXCEPT ![iter] = 0]
    /\ readyList' = Inserted([readyList EXCEPT ![level] = RemoveAt(@, Position(@, iter))],
                             iter, priority', remain)
    /\ iter' = ElementAfter(iter, readyList')
    /\ UNCHANGED <<status, currentThread, toBeDestroyed, remain, elapsed, phase, at, level>>

(* If not, what happens next is undefined; and ASSERT(IsInList(item)) in   *)
(* List::Remove stops the system if the iterator has led the loop into     *)
(* another list.                                                           *)
Stops ==
    /\ at = "age" /\ iter # None
    /\ Moves(iter)
    /\ at' = IF iter \in ToSet(readyList[level]) THEN "undefined" ELSE "aborted"
    /\ UNCHANGED <<status, currentThread, readyList, toBeDestroyed, priority, remain,
                   timeVars, loopVars>>

NextLoop ==
    /\ at = "age" /\ iter = None
    /\ IF level < 3
       THEN level' = level + 1 /\ iter' = FirstOf(readyList[level + 1]) /\ UNCHANGED at
       ELSE at' = "check" /\ UNCHANGED loopVars
    /\ UNCHANGED <<status, currentThread, readyList, toBeDestroyed, priority, remain, timeVars>>

-----------------------------------------------------------------------------
(* The rest of Alarm::CallBack: is the current thread to be preempted?     *)
NeverFromLevel2 == FALSE               \* fault
FromLevel2 == Level(priority[currentThread]) = 2 /\ readyList[1] # <<>>

(* A double that is stored in an int loses what is not a whole tick, be it *)
(* the rest of the current burst or what L1_Front_Remain returns.          *)
Truncated(parts) ==
    IF parts >= 0 THEN parts \div TickParts ELSE -((-parts) \div TickParts)

Preempts ==
    \/ /\ Level(priority[currentThread]) = 3
       /\ readyList[1] # <<>> \/ readyList[2] # <<>> \/ elapsed >= TickParts * Quantum
    \/ FromLevel2
    \/ /\ Level(priority[currentThread]) = 1
       /\ readyList[1] # <<>>
       /\ Truncated(remain[currentThread] - elapsed)
             > Truncated(remain[Head(readyList[1])])

DecidePreemption ==
    /\ at = "check"
    /\ at' = CASE Idle -> "idle" [] ~Idle /\ Preempts -> "yield" [] OTHER -> "run"
    /\ UNCHANGED <<status, currentThread, readyList, toBeDestroyed, priority, remain,
                   timeVars, loopVars>>

(* Thread::Yield, on return from the handler.  The use time is charged     *)
(* also when there is nobody to yield to, and the burst is not restarted.  *)
Charged == [remain EXCEPT ![currentThread] = Larger(@ - elapsed, -MaxBurst)]

Yield ==
    /\ at = "yield"
    /\ remain' = Charged
    /\ \/ /\ NonEmpty = {}
          /\ at' = "run"
          /\ UNCHANGED <<status, currentThread, readyList, toBeDestroyed, waited, elapsed>>
       \/ \E k \in 1 .. 3, t \in Threads :
             /\ NextToRun(k, t)
             /\ readyList' = Inserted(Without(k), currentThread, priority, Charged)
             /\ waited' = [waited EXCEPT ![currentThread] = 0, ![t] = 0]
             /\ RunNext(t, [status EXCEPT ![currentThread] = "ready"])
    /\ UNCHANGED <<priority, phase, loopVars>>

-----------------------------------------------------------------------------
Handler == Stay \/ Move \/ Stops \/ NextLoop \/ DecidePreemption
Kernel == Handler \/ Yield \/ Dispatch \/ CheckToBeDestroyed

Next ==
    \/ \E t \in Threads, p \in Priorities : Fork(t, p)
    \/ \E t \in Threads : Wake(t)
    \/ Sleep \/ Finish
    \/ Kernel
    \/ Tick

(* Kernel code runs on.  Every system call takes time, and an instruction  *)
(* of a user program too, so the clock does not stand still for ever.      *)
Spec ==
    /\ Init
    /\ [][Next]_vars
    /\ WF_vars(Kernel)
    /\ SF_vars(Tick)

-----------------------------------------------------------------------------
(* Type invariant.                                                         *)
States == {"none", "running", "ready", "blocked", "finished", "deleted"}
Locations == {"run", "sleep", "idle", "switched", "age", "check", "yield",
           "undefined", "aborted"}

TypeOK ==
    /\ status \in [Threads -> States]
    /\ currentThread \in Threads
    /\ readyList \in [1 .. 3 -> Seq(Threads)]
    /\ toBeDestroyed \in Threads \cup {None}
    /\ priority \in [Threads -> 0 .. MaxPriority]
    /\ remain \in [Threads -> -MaxBurst .. MaxBurst]
    /\ waited \in [Threads -> Nat]
    /\ elapsed \in 0 .. MaxElapsed
    /\ phase \in 0 .. TimerTicks - 1
    /\ at \in Locations
    /\ level \in 1 .. 3
    /\ iter \in Threads \cup {None}

Ready(k) == ToSet(readyList[k])

(* A thread is ready exactly when it is in one ready list, once, and only  *)
(* the current thread is running; also while the timer's handler moves     *)
(* threads between the lists it iterates over.                             *)
PlacedOnce ==
    /\ TypeOK
    /\ \A t \in Threads : status[t] = "ready" <=> \E k \in 1 .. 3 : t \in Ready(k)
    /\ \A j, k \in 1 .. 3 : j # k => Ready(j) \cap Ready(k) = {}
    /\ \A k \in 1 .. 3 : IsInjective(readyList[k])
    /\ \A t \in Threads : status[t] = "running" => t = currentThread
    /\ at \in {"run", "switched", "yield"} => status[currentThread] = "running"

(* A thread is in the list its priority calls for, although priorities     *)
(* change under the lists; only the main thread may have been left in a    *)
(* lower one.                                                              *)
LevelInv ==
    \A k \in 1 .. 3 : \A t \in Ready(k) :
        Level(priority[t]) = k \/ (t = Main /\ Level(priority[t]) < k)

(* Levels 1 and 2 are sorted, although the keys they are sorted by change  *)
(* in Yield, Sleep and aging: Insert relies on it, and preemption looks at *)
(* the first thread only.                                                  *)
SortedInv ==
    \A k \in {1, 2} : \A i, j \in 1 .. Len(readyList[k]) :
        i < j => Before(k, readyList[k][i], readyList[k][j], priority, remain)

(* The assertions of List::Remove, Scheduler::Run and ~Thread hold: the    *)
(* timer's loops take threads only from the list they are in, a thread     *)
(* finishes only when the one that finished before it has been deleted,    *)
(* and a thread that is deleted is neither running nor ready.              *)
AssertsHold ==
    /\ at # "aborted"
    /\ status[currentThread] = "finished" => toBeDestroyed = None
    /\ toBeDestroyed # None =>
          toBeDestroyed # currentThread /\ status[toBeDestroyed] = "finished"

(* When the timer's interrupt is over, no thread of a higher level than    *)
(* the one that runs is ready.  In level 1, a thread that was switched to  *)
(* has the shortest remaining burst; one that goes on may have a burst     *)
(* that is longer than another's, by less than a tick.                     *)
RightThreadRuns(excess) ==
    /\ \A k \in 1 .. 3 : k < Level(priority[currentThread]) => readyList[k] = <<>>
    /\ Level(priority[currentThread]) = 1 =>
          \A t \in Ready(1) :
             Larger(remain[currentThread] - elapsed, 0) <= Larger(remain[t], 0) + excess

InterruptOver ==
    at \in {"check", "yield"} =>
        /\ at' = "run" => RightThreadRuns(TickParts - 1)'
        /\ at' = "switched" => RightThreadRuns(0)'

TimerPreempts == [][InterruptOver]_vars

(* Aging keeps threads from starving in level 3, whatever runs meanwhile   *)
(* in the levels above.                                                    *)
LeavesLevel3 ==
    \A t \in Threads \ {Main} : t \in Ready(3) ~> (t \notin Ready(3) \/ at = "undefined")

-----------------------------------------------------------------------------
(* What the assignment and comments say and the code does not do.          *)

(* The assignment (2-1 f): when Alarm::CallBack checks, the current thread *)
(* of level 1 is preempted if its remaining burst is larger than that of a *)
(* ready one.  The code compares whole ticks only.                         *)
PreemptsLarger == [][at = "check" /\ at' = "run" => RightThreadRuns(0)']_vars

(* The assignment (2-1 e), of level 2 too: a thread that waits             *)
(* gets a higher priority.  UpdatePriority, "update priority and adjust    *)
(* the readyLists", puts every thread of level 2 back with a new           *)
(* wait_Start_Time at each timer interrupt, so none ever ages.             *)
LeavesLevel2 ==
    \A t \in Threads \ {Main} : t \in Ready(2) ~> (t \notin Ready(2) \/ at = "undefined")
=============================================================================
