------------------------------- MODULE Kernel -------------------------------
(***************************************************************************)
(* NachOS-4.0_MP2: the programs of the command line, from ExecAll to their *)
(* end.  Each is a thread with an address space: threads/kernel.cc starts  *)
(* the threads, userprog/addrspace.cc finds them frames and loads them,    *)
(* scheduler.cc switches between them, and the machine translates the      *)
(* addresses of the one that runs through the page table it was given.     *)
(*                                                                         *)
(* There is one processor.  It can be taken from a thread by the timer     *)
(* where interrupts are enabled: after Fork, in Begin and in user code.    *)
(* The loader never enables them.                                          *)
(***************************************************************************)
EXTENDS Integers, Sequences

CONSTANTS NumPrograms,   \* execfileNum: -e options
          NumPhysPages,  \* the frames of the machine
          Images,        \* per program the pages it needs, 0 if there is no such file:
                         \* the combinations considered
          FileData       \* a page filled by Read

ASSUME KernelAssumption ==
    /\ NumPrograms \in Nat \ {0}
    /\ NumPhysPages \in Nat \ {0}
    /\ Images \subseteq [1 .. NumPrograms -> Nat]
    /\ FileData \notin Nat

Main == 0
Programs == 1 .. NumPrograms      \* threads by ID, in the order of the options
Threads == {Main} \cup Programs
NoThread == -1
Frames == 0 .. NumPhysPages - 1
Zeros == 0                        \* a frame nobody has written since bzero

VARIABLES image,         \* per program: the pages it needs
          execExit,      \* Kernel::execExit, the -ee option
          machineStatus, \* up, halted or aborted
          threadNum,     \* Kernel::threadNum, the next thread to create
          execRunningNum,
          currentThread,
          readyList,
          toBeDestroyed,
          status,        \* Thread::status
          at,            \* per thread: how far it is
          frameStatus,   \* Kernel::Frame_Table_status: is the frame taken
          pageTable,     \* per program: AddrSpace::pageTable, the frame of each page
          machineTable,  \* Machine::pageTable, as the program it belongs to
          memory         \* per frame: the program whose data it holds

commandLine == <<image, execExit>>
threadVars == <<threadNum, execRunningNum, currentThread, readyList, toBeDestroyed,
                status, at>>
memoryVars == <<frameStatus, pageTable, memory>>
vars == <<commandLine, machineStatus, threadVars, memoryVars, machineTable>>

Running(t) == machineStatus = "up" /\ status[t] = "RUNNING"
Numbers(s) == 1 .. Len(s)

(* A definition marked "fault" is the one after it with a mistake in it.   *)
(* No specification uses it: put in place of the correct one, it makes the *)
(* property it is meant for fail, which shows that the property can fail.  *)

-----------------------------------------------------------------------------
(* Kernel::Initialize.                                                     *)
Init ==
    /\ image \in Images
    /\ execExit \in BOOLEAN
    /\ machineStatus = "up"
    /\ threadNum = 1
    /\ execRunningNum = 0
    /\ currentThread = Main
    /\ readyList = <<>>
    /\ toBeDestroyed = NoThread
    /\ status = [t \in Threads |-> IF t = Main THEN "RUNNING" ELSE "JUST_CREATED"]
    /\ at = [t \in Threads |-> IF t = Main THEN "exec" ELSE "none"]
    /\ frameStatus = [f \in Frames |-> FALSE]
    /\ pageTable = [p \in Programs |-> <<>>]
    /\ machineTable = NoThread
    /\ memory = [f \in Frames |-> Zeros]

(* Scheduler::Run: switch to the thread at the front of the ready list; ss *)
(* is status after what happened to the old thread.  A thread that was     *)
(* running before destroys the one that finished and restores its page     *)
(* table; a new one does the former in Begin and has no table yet.         *)
StaleTable(t) == machineTable         \* fault
RestoredTable(t) == IF t = Main \/ at[t] = "new" THEN machineTable ELSE t

Run(ss, finishing) ==
    LET next == Head(readyList)
    IN  /\ currentThread' = next
        /\ status' = [ss EXCEPT ![next] = "RUNNING"]
        /\ machineTable' = RestoredTable(next)
        /\ toBeDestroyed' = IF at[next] # "new" THEN NoThread
                            ELSE IF finishing THEN currentThread ELSE toBeDestroyed

(* Thread::Yield, when a tick finds that the timer has asked for it.       *)
Preemptible == machineStatus = "up" /\ at[currentThread] \in {"exec", "begin", "user"}

AheadOfAll == <<currentThread>> \o Tail(readyList)    \* fault
BehindAll == Append(Tail(readyList), currentThread)

TimeSlice ==
    /\ Preemptible /\ Running(currentThread)
    /\ readyList # <<>>
    /\ readyList' = BehindAll
    /\ Run([status EXCEPT ![currentThread] = "READY"], FALSE)
    /\ UNCHANGED <<commandLine, machineStatus, threadNum, execRunningNum, at, memoryVars>>

(* Thread::Sleep, once somebody is ready; until then the machine idles.    *)
Dispatch ==
    /\ machineStatus = "up"
    /\ status[currentThread] # "RUNNING"
    /\ readyList # <<>>
    /\ readyList' = Tail(readyList)
    /\ Run(status, at[currentThread] = "finished")
    /\ UNCHANGED <<commandLine, machineStatus, threadNum, execRunningNum, at, memoryVars>>

(* Thread::Finish.                                                         *)
Finish(t) ==
    LET counted == execExit /\ t # Main
        left == IF counted THEN execRunningNum - 1 ELSE execRunningNum
    IN  /\ execRunningNum' = left
        /\ IF counted /\ left = 0
           THEN machineStatus' = "halted" /\ UNCHANGED <<status, at>>
           ELSE /\ status' = [status EXCEPT ![t] = "BLOCKED"]
                /\ at' = [at EXCEPT ![t] = "finished"]
                /\ UNCHANGED machineStatus
        /\ UNCHANGED <<commandLine, threadNum, currentThread, readyList, toBeDestroyed,
                       memoryVars, machineTable>>

-----------------------------------------------------------------------------
(* Kernel::ExecAll and Exec, by the main thread.                           *)
Exec ==
    /\ Running(Main)
    /\ threadNum \in Programs
    /\ status' = [status EXCEPT ![threadNum] = "READY"]
    /\ at' = [at EXCEPT ![threadNum] = "new"]
    /\ readyList' = Append(readyList, threadNum)
    /\ threadNum' = threadNum + 1
    /\ UNCHANGED <<commandLine, machineStatus, execRunningNum, currentThread, toBeDestroyed,
                   memoryVars, machineTable>>

ExecAllDone ==
    /\ Running(Main)
    /\ threadNum \notin Programs
    /\ Finish(Main)

(* Thread::Begin up to the tick of Enable, and after it.                   *)
NotDestroyed == UNCHANGED toBeDestroyed   \* fault
CheckToBeDestroyed == toBeDestroyed' = NoThread

Begin(p) ==
    /\ Running(p) /\ at[p] = "new"
    /\ at' = [at EXCEPT ![p] = "begin"]
    /\ CheckToBeDestroyed
    /\ UNCHANGED <<commandLine, machineStatus, threadNum, execRunningNum, currentThread,
                   readyList, status, memoryVars, machineTable>>

Begun(p) ==
    /\ Running(p) /\ at[p] = "begin"
    /\ at' = [at EXCEPT ![p] = "load"]
    /\ execRunningNum' = IF execExit THEN execRunningNum + 1 ELSE execRunningNum
    /\ UNCHANGED <<commandLine, machineStatus, threadNum, currentThread, readyList,
                   toBeDestroyed, status, memoryVars, machineTable>>

-----------------------------------------------------------------------------
(* AddrSpace::Load and Execute.                                            *)
Loading(p) == Running(p) /\ at[p] = "load"

LoadNoFile(p) ==
    /\ Loading(p)
    /\ image[p] = 0
    /\ Finish(p)

(* ExceptionHandler(MemoryLimitException) ends in ASSERTNOTREACHED.        *)
Abort ==
    /\ machineStatus' = "aborted"
    /\ UNCHANGED <<commandLine, threadVars, memoryVars, machineTable>>

Free(f) == ~frameStatus[f]

LoadTooBig(p) ==
    /\ Loading(p)
    /\ \/ image[p] > NumPhysPages
       \/ Len(pageTable[p]) < image[p] /\ \A f \in Frames : ~Free(f)
    /\ Abort

(* Kernel::Find_Frame: frame f is the first that is free.                  *)
LastFree(f) == Free(f) /\ \A g \in Frames : Free(g) => g <= f   \* fault
Find_Frame(f) == Free(f) /\ \A g \in Frames : Free(g) => f <= g

NotMarked(f) == UNCHANGED frameStatus   \* fault
Mark(f) == frameStatus' = [frameStatus EXCEPT ![f] = TRUE]

LoadPage(p) ==
    /\ Loading(p)
    /\ image[p] <= NumPhysPages
    /\ Len(pageTable[p]) < image[p]
    /\ \E f \in Frames :
           /\ Find_Frame(f)
           /\ Mark(f)
           /\ pageTable' = [pageTable EXCEPT ![p] = Append(@, f)]
           /\ memory' = [memory EXCEPT ![f] = Zeros]
    /\ UNCHANGED <<commandLine, machineStatus, threadVars, machineTable>>

(* The segments are copied a page's length at a time, each piece to the    *)
(* frame its first address is in.  A segment that does not start at a page *)
(* boundary makes pieces that cross one: what belongs to the next page is  *)
(* written to the next frame.  crossed is the set of such pages.           *)
Copied(table, crossed) ==
    {table[i] : i \in {j \in Numbers(table) : j - 1 \notin crossed}}
        \cup {table[i] + 1 : i \in crossed}

LoadSegments(p) ==
    /\ Loading(p)
    /\ image[p] > 0
    /\ Len(pageTable[p]) = image[p]
    /\ \E crossed \in SUBSET (1 .. image[p] - 1) :
           memory' = [f \in Frames |->
               IF f \in Copied(pageTable[p], crossed) THEN p ELSE memory[f]]
    /\ at' = [at EXCEPT ![p] = "user"]
    /\ machineTable' = p
    /\ UNCHANGED <<commandLine, machineStatus, threadNum, execRunningNum, currentThread,
                   readyList, toBeDestroyed, status, frameStatus, pageTable>>

-----------------------------------------------------------------------------
(* User code and the system calls it makes.                                *)
InUserCode(p) == Running(p) /\ at[p] = "user"

Write(f, data) ==
    /\ memory' = [memory EXCEPT ![f] = data]
    /\ UNCHANGED <<commandLine, machineStatus, threadVars, frameStatus, pageTable, machineTable>>

(* Machine::WriteMem and Translate: the machine's table is used.           *)
Store(p) ==
    /\ InUserCode(p)
    /\ \E i \in Numbers(pageTable[p]) :
           /\ i \in Numbers(pageTable[machineTable])
           /\ Write(pageTable[machineTable][i], p)

(* SC_Read into a buffer in page i: the handler takes the address of the   *)
(* buffer as an address of mainMemory, without a page table.               *)
BufferFrame(p, i) == i - 1

ReadFile(p, i) ==
    /\ InUserCode(p)
    /\ i \in Numbers(pageTable[p])
    /\ Write(BufferFrame(p, i), FileData)

(* SC_PrintInt: the thread sleeps until the console has printed.           *)
PrintInt(p) ==
    /\ InUserCode(p)
    /\ status' = [status EXCEPT ![p] = "BLOCKED"]
    /\ UNCHANGED <<commandLine, machineStatus, threadNum, execRunningNum, currentThread,
                   readyList, toBeDestroyed, at, memoryVars, machineTable>>

InterruptTaken ==
    \/ Preemptible /\ Running(currentThread)
    \/ machineStatus = "up" /\ status[currentThread] # "RUNNING" /\ readyList = <<>>

ConsoleDone(p) ==
    /\ InterruptTaken
    /\ status[p] = "BLOCKED" /\ at[p] = "user"
    /\ status' = [status EXCEPT ![p] = "READY"]
    /\ readyList' = Append(readyList, p)
    /\ UNCHANGED <<commandLine, machineStatus, threadNum, execRunningNum, currentThread,
                   toBeDestroyed, at, memoryVars, machineTable>>

Exit(p) == InUserCode(p) /\ Finish(p)

Halt(p) ==
    /\ InUserCode(p)
    /\ machineStatus' = "halted"
    /\ UNCHANGED <<commandLine, threadVars, memoryVars, machineTable>>

(* An exception other than a system call, or an unknown system call.       *)
UserError(p) == InUserCode(p) /\ Abort

-----------------------------------------------------------------------------
InKernel(p) ==
    Begin(p) \/ Begun(p) \/ LoadNoFile(p) \/ LoadTooBig(p) \/ LoadPage(p) \/ LoadSegments(p)

InProgram(p) ==
    \/ Store(p)
    \/ \E i \in Numbers(pageTable[p]) : ReadFile(p, i)
    \/ PrintInt(p) \/ Exit(p) \/ Halt(p) \/ UserError(p)

AllFinished == \A t \in Threads : at[t] = "finished"

Next ==
    \/ Exec \/ ExecAllDone
    \/ TimeSlice \/ Dispatch
    \/ \E p \in Programs : InKernel(p) \/ InProgram(p) \/ ConsoleDone(p)
    \/ (machineStatus # "up" \/ AllFinished) /\ UNCHANGED vars

(* The processor goes on with the code of the kernel, the timer interrupts *)
(* again and again, and the console's interrupt stays pending until it is  *)
(* taken.  A program may run for ever and need not make any system call.   *)
Spec ==
    /\ Init
    /\ [][Next]_vars
    /\ WF_vars(Exec \/ ExecAllDone \/ Dispatch \/ \E p \in Programs : InKernel(p))
    /\ WF_vars(TimeSlice)
    /\ \A p \in Programs : SF_vars(ConsoleDone(p))

-----------------------------------------------------------------------------
(* Type invariant.                                                         *)
TypeOK ==
    /\ image \in Images
    /\ execExit \in BOOLEAN
    /\ machineStatus \in {"up", "halted", "aborted"}
    /\ threadNum \in 1 .. NumPrograms + 1
    /\ execRunningNum \in Int
    /\ currentThread \in Threads
    /\ readyList \in Seq(Threads)
    /\ toBeDestroyed \in Threads \cup {NoThread}
    /\ status \in [Threads -> {"JUST_CREATED", "READY", "RUNNING", "BLOCKED"}]
    /\ at \in [Threads -> {"exec", "none", "new", "begin", "load", "user", "finished"}]
    /\ frameStatus \in [Frames -> BOOLEAN]
    /\ pageTable \in [Programs -> Seq(Frames)]
    /\ machineTable \in Programs \cup {NoThread}
    /\ memory \in [Frames -> Programs \cup {Zeros, FileData}]

(* A frame is marked in the frame table exactly if it is in a page table,  *)
(* and then it is one page of one program.                                 *)
FramesInv ==
    /\ \A f \in Frames :
           frameStatus[f] <=> \E p \in Programs : \E i \in Numbers(pageTable[p]) : pageTable[p][i] = f
    /\ \A p, q \in Programs : \A i \in Numbers(pageTable[p]), j \in Numbers(pageTable[q]) :
           pageTable[p][i] = pageTable[q][j] => p = q /\ i = j

(* The pages of a program lie in consecutive frames.  Load depends on it   *)
(* when it copies a segment over a page boundary, and it holds only        *)
(* because the loader cannot be preempted and frames are never released.   *)
Consecutive ==
    \A p \in Programs : \A i \in 1 .. Len(pageTable[p]) - 1 :
        pageTable[p][i + 1] = pageTable[p][i] + 1

(* A thread that finishes never finds another one waiting to be destroyed  *)
(* (the assertion in Run), and a thread is destroyed only after it has     *)
(* finished and another one runs.                                          *)
DestroyedOnce ==
    /\ at[currentThread] = "finished" => toBeDestroyed = NoThread
    /\ toBeDestroyed # NoThread =>
           at[toBeDestroyed] = "finished" /\ toBeDestroyed # currentThread

(* The memories of the programs are private: loading a program and its     *)
(* stores change its own pages only, however the threads are switched.     *)
Loaded(p) == at[p] \in {"user", "finished"}

space ==
    [p \in Programs |->
        IF Loaded(p) THEN [i \in 1 .. Len(pageTable[p]) |-> memory[pageTable[p][i]]] ELSE <<>>]

Private == INSTANCE PrivateMemory WITH Sizes <- 0 .. NumPhysPages

ImplementsPrivateMemory == Private!Init /\ [][Private!Next]_space

(* Whoever is ready gets the processor, and whoever prints goes on, as     *)
(* long as the machine is up.                                              *)
Rescheduled ==
    \A t \in Threads :
        (status[t] = "READY" \/ (status[t] = "BLOCKED" /\ at[t] = "user")) ~>
            (status[t] = "RUNNING" \/ machineStatus # "up")

-----------------------------------------------------------------------------
(* What makes these invariants inductive.                                  *)

(* The ready list holds threads that are ready, each once; only the        *)
(* current thread runs, and the loader is never interrupted.               *)
ThreadInv ==
    /\ \A i \in Numbers(readyList) : status[readyList[i]] = "READY"
    /\ \A i, j \in Numbers(readyList) : readyList[i] = readyList[j] => i = j
    /\ \A t \in Threads : status[t] = "RUNNING" => t = currentThread
    /\ \A t \in Threads : at[t] = "load" => status[t] = "RUNNING"
    /\ \A t \in Threads : status[t] = "JUST_CREATED" <=> at[t] = "none"
    /\ \A p \in Programs : p >= threadNum => at[p] = "none"
    /\ \A t \in Threads : at[t] \in {"exec", "finished"} \/ t # Main
    /\ \A p \in Programs : at[p] # "exec"

(* Only a new thread that has just been switched to finds somebody to      *)
(* destroy.                                                                *)
CarcassInv ==
    toBeDestroyed # NoThread =>
        /\ at[toBeDestroyed] = "finished"
        /\ Running(currentThread) \/ machineStatus # "up"
        /\ at[currentThread] = "new"

(* The program whose code runs runs on its own page table.                 *)
MachineTableInv == \A p \in Programs : at[p] = "user" /\ p = currentThread => machineTable = p

(* The frames are taken from the first one on; the program being loaded    *)
(* has the last one taken.                                                 *)
LoaderInv ==
    /\ \A f, g \in Frames : g < f /\ frameStatus[f] => frameStatus[g]
    /\ \A p \in Programs : at[p] \in {"none", "new", "begin"} => pageTable[p] = <<>>
    /\ \A p \in Programs : Len(pageTable[p]) <= image[p]
    /\ \A p \in Programs : pageTable[p] # <<>> => image[p] <= NumPhysPages
    /\ \A p \in Programs : at[p] = "load" /\ pageTable[p] # <<>> =>
           \A f \in Frames : frameStatus[f] => f <= pageTable[p][Len(pageTable[p])]

IInv ==
    /\ TypeOK /\ ThreadInv /\ CarcassInv /\ MachineTableInv
    /\ FramesInv /\ Consecutive /\ LoaderInv

-----------------------------------------------------------------------------
(* What comments of the code say and the code does not do.                 *)

(* syscall.h: Read reads from the open file into the buffer.               *)
ReadFillsBuffer ==
    [][\A p \in Programs : \A i \in Numbers(pageTable[p]) :
           ReadFile(p, i) => memory'[pageTable[p][i]] = FileData]_vars

(* kernel.cc: -ee ends the program after all the threads are done.         *)
HaltsWhenAllDone ==
    [][(machineStatus' = "halted" /\ machineStatus = "up" /\ \A p \in Programs : ~Halt(p)) =>
           \A p \in Programs : at[p] = "finished" \/ currentThread = p]_vars
=============================================================================
