# Verification of NTHU_CS_OperatingSystem

This directory holds TLA+ models of the programs in this repository, TLC
configurations that check them on small instances, and proofs that TLAPS
checks for every instance.

Contents: [the system](#the-system) · [the modules](#the-modules) ·
[the runs](#the-runs) · [disagreements](#where-the-code-and-its-comments-disagree) ·
[fairness](#fairness) · [the proofs](#the-proofs) ·
[what is not modelled](#what-is-not-modelled) · [what is left](#what-is-left) ·
[how to run](#how-to-run)

## The system

The repository is five course projects. One is a C++ program on POSIX threads,
the other four are successive versions of the NachOS teaching kernel, which share
most of their code.

### The Pthreads pipeline (`src/NTHU-OS-Pthreads`)

| Part | State | Operations | Talks to |
| --- | --- | --- | --- |
| `TSQueue` (`ts_queue.hpp`) | ring buffer, `size`, `head`, `tail`, a mutex, two condition variables | `enqueue` and `dequeue` block; `get_size` takes no lock | every thread below |
| `Reader` | lines left, input file | reads a line, enqueues it | input queue |
| 4 `Producer`s | the item in hand | poll `get_size`, dequeue, transform, enqueue | input queue to worker queue |
| `Consumer`s, created and cancelled | the item in hand, `is_cancel` | as a producer; leave the loop and delete themselves once cancelled | worker queue to output queue |
| `ConsumerController` | vector of consumers | every period: create a consumer if the worker queue is above 80 %, cancel the last one if it is below 20 % and there are at least two | worker queue's size, consumers |
| `Writer` | lines left, output file | dequeues a line, writes it | output queue |
| `main` | the objects | starts all, joins reader and writer, deletes everything, returns | all |

What is hard here: one `pthread_cond_signal` per call with many waiters; spurious
wake-ups; sizes read without the lock and acted upon later; the cancel flag that may
come at any point of a consumer's iteration; objects that delete themselves while
others point to them; a chain of bounded queues that must not jam; and a `main` that
destroys what running threads use. What makes it correct: each queue is a bounded
FIFO; every line read is written once; consumers come and go without losing lines,
and never all go; the program ends.

### NachOS (`src/NachOS-4.0_MP1` to `MP4`)

| Part | State | Operations | What makes it correct |
| --- | --- | --- | --- |
| Semaphores, locks, conditions, `SynchList` (`threads/synch.cc`, `synchlist.cc`) | value and waiter queue; holder; queue of per-waiter semaphores | `P`, `V`; `Acquire`, `Release`; `Wait`, `Signal`, `Broadcast` | mutual exclusion, no lost wake-up |
| Scheduler and threads, MP3 (`threads/scheduler.cc`, `thread.cc`, `alarm.cc`) | three ready lists, current thread, burst and waiting times | `ReadyToRun`, `FindNextToRun`, `Run`, `UpdatePriority`; `Fork`, `Yield`, `Sleep`, `Finish`; `Alarm::CallBack` | each thread in one place, the list matches its priority, nobody starves |
| Kernel and address spaces, MP2 (`threads/kernel.cc`, `userprog/addrspace.cc`, `exception.cc`) | frame table, page tables, the machine's table, the ready list | `ExecAll`, `Find_Frame`, `Load`, `RestoreState`, system calls, `Finish` | a frame belongs to one page of one program, memories are private |
| File system, MP4 (`filesys/*.cc`) | bitmap, directories and chains of headers on disk; one open file | `Create`, `CreateDirectory`, `Open`, `Read`, `Write`, `Close`, `Remove` | every sector has one owner, also after a stop at any write |
| Interrupts (`machine/interrupt.cc`) | clock, sorted list of pending interrupts | `Schedule`, `OneTick`, `CheckIfDue`, `Idle` | handlers run in order and on time |
| Devices (`machine/disk.cc`, `console.cc`, `network.cc`; `synchdisk.cc`, `synchconsole.cc`) | one request at a time; a lock and a semaphore each | request, interrupt, wait | no request to a busy device, requests and answers match |
| Post office (`network/post.cc`) | the network's one-packet buffer, the postal worker, mail boxes | `Send`, `PostalDelivery`, `Receive` | a packet that is not lost arrives once and in order |
| Open-file table, MP1 (`filesys/filesys.h`) | 20 entries | `OpenAFile`, `WriteAFile`, `ReadFile`, `CloseFile` | an id means one open file |
| MIPS simulator, containers, utilities | registers and memory; lists, hash table, bitmap | instruction steps; pure operations | |

The four copies differ as follows. MP2 adds the frame table to MP1's kernel and
address space; MP3 adds the scheduler, aging and new thread fields; MP4 rewrites the
file system. A component is modelled from the copy in which the course's students
wrote it, and those that are the same in all from MP2.

What is hard here: the points where the processor may be lost (wherever interrupts come
back on, and in `Thread::Sleep`), and state read before one and used after it; a list that is
changed under its iterator; a page table that stays in the machine when its program does
not run; several sector writes that belong together; devices with room for one request whose
handlers hand the next one on to each other; packets that are lost.

`PROJECT.json` lists all components, and under `hazards` the places in the code
that a test would hardly reach, with the properties that cover them.

## The modules

| Module | Models | Built on |
| --- | --- | --- |
| `BoundedBuffer` | what a queue promises: an atomic first-in first-out buffer, bounded or not | |
| `TSQueue` | `ts_queue.hpp` step by step | implements `BoundedBuffer` |
| `TSQueueTest` | `ts_queue_test.cpp` | extends `TSQueue` |
| `Pipeline` | `main.cpp` and its threads, over atomic bounded queues | relies on `TSQueue` implementing them |
| `Monitor` | what a lock with a condition promises (Mesa monitor) | |
| `Synch` | `threads/synch.cc` | implements `Monitor` |
| `SynchList` | `threads/synchlist.cc` | extends `Synch`, implements `BoundedBuffer` |
| `Scheduler` | `threads/scheduler.cc`, `thread.cc`, `alarm.cc` of MP3 | |
| `PrivateMemory` | what an operating system promises its programs: memories of their own | |
| `Kernel` | programs from `ExecAll` to their end in MP2: threads, frames, loader, system calls | implements `PrivateMemory` |
| `Namespace` | what a file system promises: a tree of names, each operation about one path | |
| `FileSys` | the file system of MP4 on a disk written sector by sector | implements `Namespace` |
| `Devices` | `interrupt.cc`, the devices, `synchdisk.cc`, `synchconsole.cc` | relies on `Synch` for locks and semaphores |
| `MailDelivery` | what the post office promises: mail that is not lost arrives once, in order | |
| `PostOffice` | `network/post.cc` and `network.cc` | extends `Devices`, implements `MailDelivery`, relies on `SynchList` for boxes |
| `TSQueueProofs` (also about `TSQueueTest`), `PipelineProofs`, `SynchProofs` (also about `SynchList`), `SchedulerProofs`, `KernelProofs`, `FileSysProofs`, `PostOfficeProofs` | theorems | extend the module they are about |
| `NamespaceProofs` | that `FileSys` implements `Namespace` | extends `FileSysProofs` |
| `MC...` | one per checked module, with symmetry sets and instances | |

In every module a definition marked `fault` is the definition after it with a plausible
mistake in it. No specification uses it. Put in place of the correct definition it makes a
property fail, and so shows that the property can fail; `PROJECT.json` lists which
breaks which under `mutants`, and where each definition comes from under `map`.

Type invariants are either checked as such (`Synch`), proved (`TSQueue`, `SynchList`,
`Kernel`, `PostOffice`), or a conjunct of a property a run checks (`Scheduler`'s of
`PlacedOnce`, `Pipeline`'s of `Conservation`, `TSQueueTest`'s of `ExactlyOnce`, all proved), or
part of the inductive invariant of the proofs (`FileSys`).

### TSQueue, TSQueueTest

The variables are the class's members (`buffer`, `size`, `head`, `tail`), the mutex as its
holder, each condition variable as the set of threads blocked on it, and per thread where
it is in `enqueue` or `dequeue`. A step ends where another thread can see the difference:
taking the mutex (`Lock`), the loop test that waits (`WaitNotFull`, `WaitNotEmpty`: adding
oneself to the waiters and releasing the mutex are atomic in `pthread_cond_wait`), the
assignments to the ring (`Put`, `Take`), the signal, the unlock. `SpuriousWake` is what
POSIX lets `pthread_cond_wait` do. `TSQueueTest` adds the loops of the test program and
the joins of its `main`.

`NoLostWakeup` is the property worth explaining. The code signals one waiter per call, and
a thread that never waited may take the item the woken one was woken for. The
invariant counts: while a dequeuer is blocked, there are at least as many dequeuers awake
or signals on their way as there are items to claim.

### Pipeline

Each queue is a sequence, and `enqueue` and `dequeue` are single steps that are enabled
when the call would not block. This is what `TSQueue` is shown to implement. `get_size`
takes no lock, so reading it (`ProducerPoll`, `ConsumerPoll`, `ControllerCheck`) and acting
on it are different steps. `Consumer::cancel` is two steps, the flag and
`pthread_cancel(this->t)`, because the flag alone lets the consumer thread delete the
object. `pthread_cancel` has no effect of its own in this program: the only cancellation
points are in the waits of `enqueue` and `dequeue`, reached with cancellation disabled.
`main` is a program of joins and deletes; deleting a queue blocks while a thread is blocked
on one of its condition variables (`BlockedOn`), which is what the C library does where POSIX
says the effect is undefined.

### Monitor, Synch, SynchList

NachOS runs on one processor and switches threads only where interrupts are switched on
again, or in `Thread::Sleep`. In `synch.cc` that is the end of each `P` and `V`, so a step
is what a thread does from one such point to the next. `P` has two outcomes, sleeping in
the semaphore's queue or taking the value; `V` makes the first sleeper ready, which then
tests the value again and may find it taken. `Acquire` is a `P` and, as another step, the
assignment to `lockHolder`. `Wait` creates a semaphore per waiter: a thread's name stands
for the one it waits on. `SynchList` takes `Synch`'s steps and adds what `Append`,
`RemoveFront` and `Apply` do between them.

`Synch`'s abstract view is `Monitor`: releasing the lock and starting to wait is one step,
and signals reach waiters in the order they came. `SynchList`'s is `BoundedBuffer` without
a bound.

### Scheduler

`readyList` holds the three lists in their order, with `Inserted` placing a thread the way
`SortedList::Insert` and `List::Append` do. Dates are kept as ages: `waited` is the time
since `wait_Start_Time`, `elapsed` the time since `burst_Start_Time`. `at` says what the
processor is doing: running a thread with interrupts on, in `Sleep`'s loop, idling, in
the steps of the timer's handler, or just switched. The handler runs with interrupts off,
so its steps are not interleaved with anything; they are separate so that the invariants are
checked between them.

The iterator of `UpdatePriority` is modelled with its undefined behaviour. `Remove` frees
the list element the iterator points to, and `ReadyToRun(iter->Item())` reads it. Either
the element still holds the thread; then `Insert` allocates the block just freed, so the
iterator continues from the thread's new position, possibly in another list (`Move`,
`ElementAfter`). Or it does not, as with C libraries that write into freed blocks, and the
model stops in `undefined` (`Stops`). The assertion of `List::Remove` that the thread is in
the list is modelled there too (`aborted`), and shown not to fail.

Burst estimates are doubles that are halved at every sleep. Their order is what matters to the
lists, and their whole ticks to preemption: `Alarm::CallBack` stores what is left of the current
burst in an `int`, and `L1_Front_Remain` returns that of the first ready thread as one. So `remain` and
`elapsed` are counted in parts of a tick (`TickParts`), a new estimate is any number of parts, the lists compare parts (`Shorter`),
and `Preempts` compares what `Truncated` leaves. `TimerPreempts` therefore has two halves: a thread that
was switched to has the shortest burst, one that goes on has it but for less than a tick.

### PrivateMemory, Kernel

A program is a thread with a page table. `Exec` makes the thread ready, `Begin` and `Begun`
are `Thread::Begin` before and after it switches interrupts on, then `Load` takes one frame
after the other (`LoadPage`, with `Find_Frame` the first free one) and copies the segments
(`LoadSegments`). A segment that starts inside a page is copied in pieces that go past the end
of their frame; `Copied` puts what belongs to the next page into the next frame, whichever
program has it. User code stores to memory through the machine's table, which is the one last
restored (`machineTable`), reads a file, prints and sleeps until `ConsoleDone`, exits or halts.
`TimeSlice` is a tick after the timer has asked for a switch and so can happen where
interrupts are on: `Preemptible`. `Run` carries the old thread's carcass over to a new thread,
which destroys it in `Begin`.

The abstract memory of a program (`space`) is empty until it is loaded, and then the contents
of its pages. `Read` is part of `PrivateMemory` as a step that may fill any page of any
program, because that is what the code does (see below); `Store` changes the program's own.

Frames are never given back: in MP2 and MP3 the destructor of `AddrSpace` would do so, but
`Thread::~Thread` does not delete the address space. The model therefore has no step that
frees one.

### Namespace, FileSys

An operation reads what it needs and decides in one step, which also settles the list of
sector writes it is going to make (`pending`); each `WriteSector` is a step, and before any of
them the machine may `Stop`. Nothing else runs in between: the code says itself that it has no
synchronization, so programs at the same time are outside of what it promises. What is on the
disk is headers (chained, `nextSector`), tables, the bitmap and data; a table and the bitmap
take one sector each. After a stop in the middle of an operation only `Format` is allowed to
follow, or the model would let a damaged disk be used, about which the code says nothing; what
such a disk looks like is stated by the invariants at the stop itself.

`tree` is history: the names on disk when last no operation was going on. `Namespace` says
what each operation may do to it, and that one which is cut short may leave anything below its
own path and nothing elsewhere. The undefined behaviour on the paths of failure is there: a
pointer that was never assigned is deleted (`FailUnread`), the root's table is written through
`OpenDir("/")`, which opens a sector number never set (`RemoveWrongSector`), and `Open` of a
name that is not in a subdirectory opens sector -1 and fails an assertion.

`fileDescriptor` is two variables, the object it points to (`descriptor`) and whether it points to one that
was deleted (`dangling`). `FileSystem::Open` sets it for every caller (`Opened`), and its callers differ in what they
do with the object: a program's `Open` keeps it (`OpenAFile`); `Print` and the program loader read it and delete it
(`PrintFile`, `Load`); `Copy` creates a file, opens it, writes it up to its end and deletes it (`CopyOpen`,
`CopyWrite`, `CopyClose`). The pointer stays behind, so every program starts with a dangling one, and a
`Read`, `Write` or `Close` before an `Open` that succeeds is undefined (`UseOfDeleted`). The commands come
in `main` before the first program is loaded, and none while `Copy` is under way (`CommandTime`):
directories are made and files removed only there. System calls come from programs that have been loaded
(`ProgramTime`); another program may be loaded between them.

### Devices, MailDelivery, PostOffice

`pending` is the list of `interrupt.cc`, sorted by time, with times relative to the clock.
`OneTick` and `Idle` are the only ways to move the clock, and no thread goes on while an
interrupt is due. A call on a device (`Call`) is: take its lock (`Acquire`), make a request
that schedules an interrupt (`DiskRequest`, `PutChar`, `Send`), wait for it on the semaphore
(`P`), release the lock. `PutInt` goes round once per character. Reading the keyboard is the
other way round: the device looks for a character by itself, and only `GetChar` makes it look
for the next. Locks and semaphores are taken in one step, which is what `Synch` shows them to
look like; the threads, their programs and which devices they use are parameters. The timer's
own interrupt is a step of `Scheduler` and of `Kernel`.

`PostOffice` adds the network: `Send` loses the packet or puts it into the socket of the
machine it is for, in either case with an interrupt; `SentElsewhere` are packets of other
machines; `ArrivalsInterrupt` looks again and again and takes a packet only when the device's
buffer is empty; the postal worker is a thread like any other. `MailDelivery` sees the mail
from its sending to its receipt as `wire`, which is what is in the worker's hands, then the
buffer, then the socket, and the boxes.

## The runs

| Run | Instance | Shows |
| --- | --- | --- |
| `ts_queue` | 3 enqueuers, 3 dequeuers, 2 slots, 2 items, any number of calls, symmetry | invariants of the monitor; it implements `BoundedBuffer` |
| `ts_queue_test` | 2 producers of 3 values, 3 consumers, 2 slots, 1 spurious wake-up | exactly-once delivery, per-producer order, the joins return |
| `pipeline` | 3 lines, 2 producers, 3 consumers at most, queues of 1, 2, 1 | conservation of lines, the controller's vector, one consumer stays, nothing in flight at the deletes, every line gets written as there are enough to create a consumer, the pool shrinks again |
| `synch` | 4 threads, symmetry, any number of calls | invariants of semaphore, lock and condition; they implement `Monitor` |
| `synch_list` | 2 appenders, 2 removers, 2 items, 5 calls | the list is a queue, strands no item, calls return |
| `scheduler` | main and 2 threads, 4 priorities, timer period 2, aging after 3, bursts of 0 or half a tick | lists and priorities agree, lists sorted, assertions hold, level 3 does not starve |
| `scheduler_bursts` | the same with priorities of level 1 and 2, bursts of 0 to 2 ticks in halves | the timer preempts whom it should, in level 1 to within a tick |
| `kernel` | 3 programs of 0 to 4 pages, 3 frames | frames have one owner and lie in a row, carcasses are destroyed, memories are private, whoever is ready runs again |
| `filesys` | 9 sectors, 1 data sector per header, tables of 2 entries, 2 names, depth 2, files of 1 and 2 sectors, symmetry | sectors have one owner, the open file's header is current whoever opened it, each operation changes its own path, also when cut short |
| `post_office` | 2 threads that share the display, one of them with the network, the other with disk and keyboard; 1 box, 2 letters | no request to a busy device, no interrupt lost, numbers not mixed, mail arrives once and in order, operations end |

Two more runs are expected to find a violation (`scheduler_aging`, `kernel_read`); they are the
subject of the next section.

Why the bounds are enough:

- *TSQueue.* Lost wake-ups need a blocked thread, a woken one and a thread that barges in,
  on either side: three of each. Two slots make the ring full with more than one item and
  wrap around. The theorems hold for any number.
- *TSQueueTest.* Six values through two slots block both sides several times. One spurious
  wake-up can be placed anywhere.
- *Pipeline.* Three lines fill the worker queue (2 slots) beyond the high threshold; two
  producers and two consumers are what it takes to read the same positive size and race for
  one item; three consumers allow a cancel, a creation and a cancel again. Thresholds are 50
  and 60 percent, so that 0, 1 and 2 items are below, between and above; the program's 20 and
  80 percent with 200 slots are also such that all three occur. `MaxConsumers` only stops
  further creation: the controller's step then has no effect, as in a period in which it
  did not look. The four invariants are proved for any number.
- *Synch.* One owner, one waiter awake, one asleep and one that barges in: four threads.
- *SynchList.* Two removers can be woken for items that two appenders add, with one more
  call to take one away or to lock the list in between.
- *Scheduler.* One thread runs while two are in one list, which is what order, the iterator
  and promotion are about. Priorities 0, 1, 2, 3 with levels from 0, 1 and 3 give level 2 two
  priorities. The ratios that matter are kept: the quantum is a timer period, aging
  takes longer than one, and a thread may start in the middle of a period. `MaxBurst` and
  `MaxElapsed` bound burst estimates, and by how much they are exceeded, and the length of a run above
  the quantum. Half ticks (`TickParts` 2) are enough for two bursts that differ by less than a tick;
  `scheduler_bursts` has bursts of up to two ticks, so that after a period of running one is left
  that is longer than another by a tick, by half a tick, or not. It forks threads
  into levels 1 and 2 only, and leaves level 3 to the main thread.
- *Kernel.* The combinations of program sizes (`MCImages`) make all fit, one find no file, one
  be too big for the machine, and frames run out while one is being loaded. With two pages a
  segment can cross a page boundary, and with three threads a thread that is switched to finds
  the machine's table to be a third one's. The theorems hold for any number.
- *FileSys.* A file of two sectors needs two headers; two names at depth two allow a
  directory with something in it beside another entry; nine sectors run out while some are
  being allocated. Files and directories are made and removed again and again, so sectors are
  reused. A third name takes longer, with nothing new in it.
- *PostOffice.* Two threads compete for the display between the characters of a number
  (`MaxText` 2), while interrupts of all five devices are pending in any order: times are small
  numbers with a disk latency above a tick above the console's and the network's. In `stats.h` a tick (1 or 10)
  is shorter than any of them (100), so there more ticks pass before an interrupt is due; the run's
  numbers make more interrupts due at once, and the theorems hold for any times. Two letters can fill the socket and
  the device's buffer at once. With one box, that a packet is put into the box it is addressed to is left to the theorem `MailIsDelivered`,
  which holds for any number of boxes.

Deadlock is checked in the runs of the pthreads program and of the kernel, whose ends are modelled
as steps that change nothing, and of the post office, whose machine never stops looking for
packets. In `Synch` and the scheduler all
threads may come to wait with nobody left to wake them (the kernel then idles), calls in
`SynchList` are bounded, and the file system may stop in an undefined state, so these runs do
not check it; `CallsReturn` says what it would of `SynchList`.

## Where the code and its comments disagree

Two are the subject of a run.

| Run | The text | The code |
| --- | --- | --- |
| `scheduler_aging` | a yielding thread "will eventually be re-scheduled" (`thread.cc:230`); the assignment wants every ready thread to age | threads of level 2 are put back with a new start of waiting at every timer interrupt, so they never age and level 1 starves them |
| `kernel_read` | "Read `size` bytes from the open file into `buffer`" (`syscall.h:133`) | `SC_Read` takes the program's virtual address for an index of the machine's memory (`exception.cc:168`), so a program that is not in the first frames fills another one's memory |

The others are stated in the modules and told here with the steps that lead to them.

- *`consumer.hpp:56`, `CancelReadsLiveObject` in `Pipeline`.* The controller sets `is_cancel`; the
  consumer, at its loop test, leaves the loop and deletes itself; the controller goes on in
  `cancel` with `pthread_cancel(this->t)` of the deleted object.
- *`consumer.hpp:73`, `CancelledLeaves`.* Two consumers read size 1 of the worker queue; one takes
  the item; the other blocks in `dequeue`, with cancellation disabled. If no line comes any
  more, it never sees its flag.
- *`main.cpp:72`, `MainReturns`.* Two producers read size 1 of the input queue, one takes the last line
  and the other blocks in `dequeue`. The line goes its way, both joins return, and `main` destroys
  the condition variable that producer is blocked on: undefined in POSIX, and with the C library in
  use `pthread_cond_destroy` waits for it for ever.
- *`writer.hpp:21`, `WriterFinishes`.* "The writer thread finished after output expected lines of item",
  but consumers are created only when the worker queue is above the high threshold
  (`consumer_controller.hpp:86`). With fewer lines than that (160 or fewer for 200 slots) none ever is: the lines
  reach the worker queue and stay there, and the writer and `main` wait for ever. `AllWritten` is
  stated for inputs with lines enough (`EnoughLines`).
- *`alarm.cc:69` of MP3, `PreemptsLarger`.* "If the current thread has a larger remaining burst time than the
  thread in L1 ready queue, it should be preempted" (the assignment, `2024 MP3 spec.pdf` page 3). Bursts are
  doubles, halved at every sleep, and what is compared are ints (`scheduler.h:52`): a thread with 25.5 ticks left is not
  preempted by one with 25.25. With the instance of `scheduler_bursts`, a thread forked into level 1 sleeps and gets
  a burst of one and a half ticks, another one of none; the first runs for a tick, has half a tick left, which is 0 as an
  int, and goes on. `TimerPreempts` says what remains true.
- *`filesys.cc:499`, `CloseSucceeds`.* "This operation will always succeed and return 1". `Open` sets
  `fileDescriptor` for every caller (`filesys.cc:456`), and `AddrSpace::Load` (`addrspace.cc:172`), `Copy` and `Print`
  delete the object and not the pointer. A program whose `Close` comes before an `Open` that succeeds
  deletes the object of its own executable again, and its `Read` or `Write` uses it. `Format`, a `Create` by
  `Copy` and `Load` of that file are enough.
- *`filesys.cc:510`, `NoSectorLost`.* `Remove` is to delete "the space for its header". `Deallocate` clears
  the data sectors of each header in the chain (`filehdr.cc:124-134`) and `Remove` the sector of the first header
  only: of a file of more than 3712 bytes the sectors of the further headers stay marked for ever. In the
  model, `Create` and `RemovePath` of a file of two sectors on a disk of ten leave a marked sector that belongs
  to nothing.
- *`thread.cc:172` of MP2, `HaltsWhenAllDone` in `Kernel`.* With `-ee` the machine is to halt after all
  programs are done. The count of running programs goes up when a program begins; if the first one
  exits before the second has begun, the count goes from 1 to 0 and the machine halts without the
  second.
- *Frames are never released.* The assignment of MP2 wants the address space's frames to be
  released when a program ends; the destructor that does it is never called.
- *MP4's `Open`* of a name that is not in an existing subdirectory opens a header at sector -1 and
  fails an assertion instead of returning 0; `Remove` returns `TRUE` also for a name that does
  not exist (`filesys.cc:514` says `FALSE`).
- *`console.cc:99`.* A byte 255 from the keyboard is taken for the end of the input; `GetChar` does
  not look for the next character, and the next caller waits for ever with the lock held.
- `NetworkTest` waits for an acknowledgment without a timeout and for ever if a packet is lost.

Met while modelling, harmless or covered: `main` deletes the queues that running
threads still poll (they hold no line by then, `NothingInFlight`); the main thread is never
moved when it is promoted, so it stays in a list below its priority (`LevelInv` states the
exception); `Thread::aging` raises at 1500 ticks where the assignment says more than 1500;
`Thread::Yield` charges a thread's running time again when nobody else is ready.

## Fairness

- *Pthreads.* Weak fairness per thread: the kernel's scheduler runs every thread that can run.
  No fairness is assumed of who gets the mutex or which waiter a signal wakes. Nothing is
  assumed of the order of `usleep` periods.
- *SynchList.* Weak fairness per thread that is not blocked. The ready list is first in,
  first out in MP1, MP2 and MP4 and the timer makes the running thread yield, so every ready
  thread runs. (In MP3 this holds only as far as its scheduler goes, see `scheduler_aging`.)
- *Scheduler.* Weak fairness of the kernel's own steps, which cannot be interrupted, and strong
  fairness of the clock. Strong, because a step of a thread at a single instant (waking
  another, sleeping) is not a tick in the model, whereas in the code every system call and
  every user instruction advances the clock, so that infinitely many of them take infinitely
  many ticks. No fairness for threads: a thread may run for ever, and devices may never answer.
- *Kernel.* Weak fairness of kernel code and of the timer's switch. Strong fairness of the
  console's interrupt: it stays in the list of pending interrupts until a tick at which it is
  taken, though in between the processor is again and again in code that cannot be interrupted.
  None for programs: they may run for ever, and need not make any system call.
- *PostOffice.* Weak fairness of the clock and of the handlers that are due. Strong fairness of
  the postal worker and of threads that need not wait for a lock, because an interrupt that is
  due again and again takes the processor from them for a moment. No fairness of `Acquire`: a
  thread that releases a lock and comes back may get it again before the one it woke, so
  `OperationsEnd` is about calls that have the lock. The keyboard may never answer.

The file system needs none: its properties are safety properties, and a machine may stop for
good. The finding run about liveness (`scheduler_aging`) uses the same specification as the one
that passes, so its counterexample is a fair behaviour.

## The proofs

All theorems hold for every value of the constants that satisfies the named assumptions:
sets of threads that are disjoint where the code has different kinds, a buffer size of at
least one, model values that are not members of the sets they stand beside. In each module an
invariant is strengthened until it is inductive; there is one lemma or step per action, and the
theorems about the runs' properties follow from it.

**TSQueue.** `TypeCorrect` is inductive by itself. `MutualExclusion` adds that the holder of
the mutex is exactly the thread between lock and unlock, and that the waiter sets are exactly
the threads at `wait` on their side. `RingWellFormed` relates `head`, `tail` and `size`
modulo the buffer's size, from `tail = -1` on; the lemmas about `%` it needs are proved from
linear facts. `NoLostWakeupCorrect` is about the cardinalities of sets of threads; it uses
`FiniteSetTheorems` and the exactness of the waiter sets. `Refinement` maps the ring to the sequence of
its items; `PutAppends` and `TakeRemoves` say what the assignments do to that sequence.

**TSQueueTest.** The invariant `PlacesInv` says where every value of the test is: not yet enqueued, at
one position of the ring, or at one position of what one thread has received (`Distinct`,
`Complete`), and that of two values of one produce thread the earlier is the further on (`Ordered`).
`ExactlyOnceCorrect` counts: `CopiesCounted` turns the single place into the sum of copies
that the property is about. `ProducerOrderCorrect` is a conjunct. Both hold for any number of
threads, values and slots, and however often a wait returns without a signal.

**Pipeline.** There are two invariants. `PoolInv` is about the controller: consumers are created in the
order of their numbers, the vector holds each at most once, and a consumer has been cancelled
exactly if it was created and is in the vector no more, or is the one being cancelled.
`VectorSound` follows, and `AlwaysOneConsumer`, because the vector is never emptied: its first consumer is
cancelled only if it is also the last, and the controller cancels one of several. `LineInv` is about
the lines: with `Count`, the number of places of a queue or of threads' hands that hold a line, every
line's counts add up to 1. `CountAppend`, `CountTail` and `CountTaken` say what a step does to one count, and
each step moves a line from one count to another. `LinesConserved` is that sum. `NothingLeftBehind` needs in
addition that the number of lines in the output file is what the writer has counted down: at 0
the file holds all lines, so that nothing is left for the queues and hands.

**Synch.** The five invariants of the run together are inductive: `IInv`. None is alone:
that a waiter's semaphore is 0 until it is signalled depends on its being in the wait queue
once, that on no other thread having removed it, that on the lock's being held by whoever signals,
and that on the lock's semaphore being 0. The queues are handled by three lemmas (`QueueMove`,
`QueueSleep`, `QueueWake`) that say how a thread's move in the program changes who is in
which queue. `SynchImplementsMonitor` maps a thread's position to outside, entering, inside
or waiting. There is one step per action, and `DifferAtOne` carries the change at one thread over to
the mapped function.

**SynchList.** `ListUsesSynch` shows that each step of the list is a step of `Synch` or leaves
it alone, so that `IInv` is available; `ListTypeOK` ties the operations to the positions in
the library. `ListImplementsQueue` follows. `ListStrandsNoItem` counts removers: an appended item comes
with a signal that takes one out of the wait queue, if one is in it. It needs the finiteness of the
set of threads and that only removers wait.

**Scheduler.** `SchedulerInv` joins the type invariant with `ListsOK`: every list holds threads of its
level, each once, levels 1 and 2 in order, and no thread is in two lists. That the order is strict and
total (`BeforeOrder`) gives that `SortedList::Insert` finds exactly one place and keeps the order
(`InsertOK`), and that a thread taken out and put back is where it was (`ReinsertOK`). Keys may change
when the thread is in no list (`OtherKeys`), which is why `Yield` may charge the running thread and
`Sleep` may re-estimate it; aging changes them inside a list, which is sound in level 1, sorted by bursts,
and in level 3, not sorted, but would not be in level 2. There `WaitInv` helps: a thread of level 2
has waited since the last timer interrupt at most, because the handler puts all of level 2 back, and
aging takes longer than the period of the timer (`TimerTicks < AgingTicks`, 100 and 1500 ticks in the code).
So none of level 2 ages; the sorting is preserved by the very behaviour that makes
level 2 starve. For the same reason `Upgraded` in the second and third loop means that the
thread is in level 3 (`LoopFacts`), wherever the iterator has been led, and the assertion in
`List::Remove` holds: `AssertionsHold`. That the iterator is in the list of its loop, or in the third loop
in any list, is `LoopInv`.

`TimerPreemptsCorrect` is about two steps that lie apart: the handler finds that the running thread
must give way, and `Yield` runs after the other handlers of that tick. `YieldInv` says what the reason was
and that it still holds: other handlers make threads ready and never take one away (`WakeKeepsReason`).
`YieldRunsRight` then takes the first thread of the highest list that is not empty, which has the shortest
burst if that is list 1, and puts the old one behind it; `NotPreempted` is the other case, a
handler that sees no reason. `TruncatedCompares` says what the comparison of ints is worth: more whole
ticks are more, and no more whole ticks are less than a tick more.

**Kernel.** `Consecutive` is the interesting one: nothing in the loader makes a program's frames lie
in a row, though the copying of segments depends on it. It follows from `LoaderInv`: frames are
taken from the first one on and never given back, so the free ones are all above the taken ones; and
from `ThreadInv`: a thread that loads is the one that runs, since the loader cannot be preempted, so
the program being loaded has the last frames taken. With frames given back the first part would
fail. `CarcassInv` says that only a new thread that was just switched to finds somebody to destroy.
`MemoriesArePrivate` maps the frames to the programs' memories; `MachineTableInv` says that a program's
code runs on its own table, and a piece of a segment that goes past its frame lands in the
program's next page by `Consecutive`.

**PostOffice.** `IInv` ties together, per device, who holds its lock, which step of its call that thread
is at, whether an interrupt is pending and what the semaphore is worth (`LockInv`, `RequestInv`,
`KeyboardInv`, `InboxInv`). The pending list is handled by `ScheduledFacts`, `TailFacts` and
`MovedFacts`: what an insertion, a removal or a tick does to who is in the list and to its order. That no
interrupt is handled late follows from the list being sorted. `PrintInv` says of the display what
is missing of the number on it. `MailIsDelivered` maps an arrival at the device and the worker's
fetching it to steps that change nothing, since `wire` is the concatenation of the three places a
packet is in, and `PutInBox` to the delivery.

**FileSys.** What makes a disk sound is that there is a *layout* of it: a function from the paths that can be
reached to what they lead to (whether a directory, the sectors of the headers, the headers). `Rep(d, L, t)`
says that `L` is a layout of disk `d` while `t` is the path of an unfinished operation: the headers are on the
disk where each says the next is, no two paths share a sector, every table but `t`'s lists exactly the
paths right below it, the bitmap marks the sectors of every path but `t`. `WayOK`, `PathFound` and
`PathNotFound` say that walking down the tables as the code does finds what the layout says;
`HeadersForOK`, `NthClearOK` and `AllocateOK` that the chain which `Allocate` makes holds the right number of
different free sectors, for every size. `SectorsInv` and `DescriptorCurrent` follow from a layout
(`LayoutSafe`, `DescriptorHere`). `Holder` says who may hold the open file: only a program or `Copy`, so
that no command changes the disk while there is one.

The invariant has to speak of the disks that are still to come: `IInv` says that *however many of
the pending writes are made*, there is a layout of the disk they leave (`After(disk, pending, k)`). None of the
properties is inductive without this, because a step that writes one sector knows nothing of the operation it
belongs to. Proving it means proving, once per operation and when it begins, that each of its prefixes leaves a
sound disk: `NewEntryProceeds` (with `ItemAdded`: the headers go to free sectors, which no path of the
layout owns, so nothing changes until the parent's table is written; then the new path is `t`, and
the bitmap may still be behind), `RemoveProceeds` (`BelowGone`: first everything below the path
goes out of the layout, since it is no more reachable, then the path), `WriteProceeds` and
`FormatProceeds`. After that a `WriteSector` is easy (`WrittenInductive`), and a `Stop` more so.
Here `FileSysAssumption` is used in full: a model value for an unused entry that is not an entry, and a finite
set of names none of which is the mark for no path.

*That it implements `Namespace`* is proved in `NamespaceProofs` from the same layouts. A layout is
read as a tree (`TreeRead`; away from `t` also while `t` is in doubt, `TreeElsewhere`), and two disks have the
same node at a path when their layouts have the same item there and, if it is a file, its data
sectors hold the same (`SameAt`, `SameInTree`). What the proofs above say about an operation's writes is
then more than that each prefix leaves a sound disk: no prefix but the whole changes a path that is
not the operation's or below it (`OthersKept`), and the whole makes the entry, prunes the path, or changes
data only (`EntryPlanned`, `RemovalPlanned`, `WritePlanned`). `TreeInv` carries this from the first step of an
operation to its last: the writes that are left will change `tree`, the tree when no operation was
going on, as `Namespace` allows (`Effect`, `EffectTail`). The last write is then `Make`, `RemovePath`, `Write` or
`Format` (`OutcomeStep`), every write before it changes nothing that `Namespace` sees, and a stop in between is
`CutShort` (`StopTree`). The refinement mapping hides the path in progress until the operation is cut short, and
shows a disk that is being formatted as damaged at the root.

Only model-checked: every liveness property (`AllJoined`, `AllWritten`, `ScaledDown`, `LeavesLevel3`, `CallsReturn`,
`Rescheduled`, `OperationsEnd`). Liveness under
fairness and `ENABLED` are beyond the prover, as is induction over data; recursion in `FileSys` is therefore
written as functions on intervals (`Chain`, `Way`), which `Throughout` unfolds step by step. The invariant
`IInv` of `FileSys` is not itself checked by TLC, which cannot enumerate layouts; the properties
that follow from it are, `ImplementsNamespace` among them.

## What is not modelled

- *The open-file table of MP1.* That a file is not opened twice rests on an array that is never
  initialised, and the search for a free entry looks at index 20 of 20: it fails in a single
  sequential call, and there is no promise left for a model to check.
- *The MIPS simulator and the context switch*: data transformation and assembly, without
  concurrency of their own. *The hash table, the bitmap and the lists* by themselves; the sorted
  list is modelled where it matters (`Scheduler`, `Devices`), the bitmap in `FileSys`.
- *Self-tests, `NetworkTest`, and the component tests of the pthreads program*, which run parts of
  what is modelled.
- *Input files shorter than `n` lines and a negative `n`* (`reader.hpp:50` trusts both), *more than
  ten programs* (`Kernel::Exec` stores threads in an array of ten without a test): errors a single call
  shows.
- *Pipeline*: formats and contents of files, the transformer's arithmetic, command lines. The
  destructors of `TSQueue`, `Lock`, `Condition` and `SynchList`, beyond what deleting the queues means to
  `main`.
- *Scheduler and Kernel*: stack allocation and overflow checks, saved registers, statistics; use,
  dirty and read-only bits; `Kernel::Initialize`; the system calls that change no state of the
  kernel model; the option `-rs`, which makes the timer's period random. Where the iterator of
  `UpdatePriority` reads a freed element that was written over, the model stops (`undefined`) and says
  nothing of what the program does then.
- *FileSys*: paths through files, `Open` of a directory, the listing commands, programs at the same
  time, data below the size of a sector, reading beyond the position arithmetic. A table and the bitmap
  are one sector each here and several in the code (64 entries take ten, a bitmap of 524 288 bits 512), so a stop in the
  middle of writing a table or the bitmap, which leaves part of the old one and part of the new, is not
  covered.
- *Devices*: interrupt levels, trace and statistics; seek and rotation behind a disk's latency; packet
  sizes; the assertions on addresses that are out of range; the other machines of the network.
- *Vendored and repeated code.* Large parts of the repository are the cross-compiler's headers
  and four near-copies of NachOS. The map names lines of the one copy a module is translated from,
  so the share of all lines it covers is small.

## What is left

Several programs that use the file system at once, which the code does not support but does
not prevent either.

## How to run

    tlc -config MCTSQueue.cfg MCTSQueue        # any run: its cfg and module are in PROJECT.json
    tlapm SynchProofs.tla                      # any module of proofs

The runs take from a second to about two and a half minutes on two cores; each module of proofs takes
one to three minutes, `FileSysProofs` about six.
