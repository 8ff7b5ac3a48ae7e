------------------------------ MODULE Devices ------------------------------
(***************************************************************************)
(* NachOS-4.0_MP2: the devices of the machine and the synchronous calls on *)
(* top of them.  A device is given one request, or looks for one character *)
(* or packet, and interrupts later; machine/interrupt.cc keeps the pending *)
(* interrupts in the order of their times and runs the handlers that are   *)
(* due at each tick of the clock.  filesys/synchdisk.cc and userprog/      *)
(* synchconsole.cc let any threads use a device: they hold its lock while  *)
(* they wait, on its semaphore, for the interrupt.  The sending side of    *)
(* the post office does the same with the network (see PostOffice).        *)
(*                                                                         *)
(* A step is the code between two points where the processor can be lost.  *)
(* Locks and semaphores are the ones Synch describes step by step: here    *)
(* a call on them takes effect at once.                                    *)
(***************************************************************************)
EXTENDS Integers, Sequences

CONSTANTS Threads,      \* the threads that use the devices
          DevicesOf,    \* per thread: the devices its program uses
          Nobody,       \* no thread: a lock that is free
          Ticks,        \* UserTick and SystemTick: how far a tick moves the clock
          ConsoleTime, NetworkTime,
          Latencies,    \* the delays ComputeLatency may find for a sector
          MaxText       \* bound: the characters of a number and its newline

Disk == "disk"
Display == "display"
Network == "network"      \* NetworkOutput
Keyboard == "keyboard"
Arrivals == "arrivals"    \* NetworkInput
OutDevices == {Disk, Display, Network}
Shared == OutDevices \cup {Keyboard}     \* the devices with a lock
Devices == Shared \cup {Arrivals}

ASSUME DevicesAssumption ==
    /\ Nobody \notin Threads
    /\ DevicesOf \in [Threads -> SUBSET Shared]
    /\ Ticks \subseteq Nat \ {0} /\ Ticks # {}
    /\ Latencies \subseteq Nat \ {0} /\ Latencies # {}
    /\ ConsoleTime \in Nat \ {0} /\ NetworkTime \in Nat /\ ConsoleTime <= NetworkTime
    /\ MaxText \in Nat \ {0}

Key == "key"
EOF == "eof"

None == "none"            \* the device of a thread outside a call
Complete == [by |-> Nobody, left |-> 0]

VARIABLES pending,   \* Interrupt::pending: which device, and how far in the future
          busy,      \* Disk::active, ConsoleOutput::putBusy
          incoming,  \* ConsoleInput::incoming
          display,   \* the number of which a part is on the display: whose, and how much is missing
          lock,      \* per device: the holder of its lock
          value,     \* per device: the value of its semaphore
          at,        \* per thread: how far it is in its call
          dev,       \* per thread: the device of the call it is in
          left       \* per thread: the requests it has still to make

deviceVars == <<pending, busy, incoming, display, lock, value, at, dev, left>>

Goto(t, from, to) == at[t] = from /\ at' = [at EXCEPT ![t] = to]

(* A definition marked "fault" is the one after it with a mistake in it.   *)
(* No specification uses it: put in place of the correct one, it makes the *)
(* property it is meant for fail, which shows that the property can fail.  *)

-----------------------------------------------------------------------------
(* Interrupt: the pending list is sorted by time, first come first served  *)
(* among equals; times are kept relative to the clock.  Scheduled is       *)
(* SortedList::Insert of a new interrupt into list.                        *)
Scheduled(list, d, fromNow) ==
    \E n \in 0 .. Len(list) :
        /\ \A i \in 1 .. n : list[i].when <= fromNow
        /\ \A i \in n + 1 .. Len(list) : list[i].when > fromNow
        /\ pending' = SubSeq(list, 1, n) \o <<[what |-> d, when |-> fromNow]>>
                          \o SubSeq(list, n + 1, Len(list))

Due == pending # <<>> /\ Head(pending).when <= 0

Moved(list, ticks) == [i \in 1 .. Len(list) |->
    [what |-> list[i].what, when |-> list[i].when - ticks]]

(* A handler is taken off the list and run; no thread runs while one is    *)
(* due, since the clock moves in OneTick and Idle only.                    *)
Interrupt(d) == Due /\ Head(pending).what = d

(* A thread that holds no device runs a program, or has none to run.       *)
Asleep(t) ==
    \/ at[t] = "acquire" /\ lock[dev[t]] # Nobody
    \/ at[t] = "await" /\ value[dev[t]] = 0

OneTick ==
    /\ ~Due
    /\ \E t \in Threads : ~Asleep(t)
    /\ \E ticks \in Ticks : pending' = Moved(pending, ticks)
    /\ UNCHANGED <<busy, incoming, display, lock, value, at, dev, left>>

Idle ==
    /\ ~Due
    /\ pending # <<>>
    /\ \A t \in Threads : at[t] = "outside" \/ Asleep(t)
    /\ pending' = Moved(pending, Head(pending).when)
    /\ UNCHANGED <<busy, incoming, display, lock, value, at, dev, left>>

-----------------------------------------------------------------------------
(* The constructors: only the input devices are waited for.                *)
DevicesInit ==
    /\ pending = <<[what |-> Keyboard, when |-> ConsoleTime], [what |-> Arrivals, when |-> NetworkTime]>>
    /\ busy = [d \in {Disk, Display} |-> FALSE]
    /\ incoming = EOF
    /\ display = Complete
    /\ lock = [d \in Shared |-> Nobody]
    /\ value = [d \in Devices |-> 0]
    /\ at = [t \in Threads |-> "outside"]
    /\ dev = [t \in Threads |-> None]
    /\ left = [t \in Threads |-> 0]

(* SynchDisk::ReadSector or WriteSector, SynchConsoleOutput::PutChar or    *)
(* PutInt, SynchConsoleInput::GetChar, PostOfficeOutput::Send.             *)
Call(t, d) ==
    /\ ~Due
    /\ d \in DevicesOf[t]
    /\ Goto(t, "outside", "acquire")
    /\ dev' = [dev EXCEPT ![t] = d]
    /\ \E n \in IF d = Display THEN 1 .. MaxText ELSE IF d = Keyboard THEN {0} ELSE {1} :
           left' = [left EXCEPT ![t] = n]
    /\ UNCHANGED <<pending, busy, incoming, display, lock, value>>

Acquire(t) ==
    /\ ~Due
    /\ Goto(t, "acquire", IF dev[t] = Keyboard THEN "await" ELSE "request")
    /\ lock[dev[t]] = Nobody
    /\ lock' = [lock EXCEPT ![dev[t]] = t]
    /\ UNCHANGED <<pending, busy, incoming, display, value, dev, left>>

(* The device is given the request and schedules its interrupt; the thread *)
(* goes on into P.                                                         *)
Start(t, d, delay) ==
    /\ ~Due
    /\ dev[t] = d
    /\ Goto(t, "request", "await")
    /\ left' = [left EXCEPT ![t] = @ - 1]
    /\ Scheduled(pending, d, delay)

(* Disk::ReadRequest, WriteRequest.                                        *)
DiskRequest(t) ==
    /\ \E latency \in Latencies : Start(t, Disk, latency)
    /\ busy' = [busy EXCEPT ![Disk] = TRUE]
    /\ UNCHANGED <<incoming, display, lock, value, dev>>

(* ConsoleOutput::PutChar.                                                 *)
PutChar(t) ==
    /\ Start(t, Display, ConsoleTime)
    /\ busy' = [busy EXCEPT ![Display] = TRUE]
    /\ display' = IF left[t] = 1 THEN Complete ELSE [by |-> t, left |-> left[t] - 1]
    /\ UNCHANGED <<incoming, lock, value, dev>>

(* Semaphore::P; PutInt goes on to the next character.                     *)
OnlyOnce(t) == "release"       \* fault
AfterP(t) == IF left[t] > 0 THEN "request" ELSE "release"

P(t) ==
    /\ ~Due
    /\ Goto(t, "await", AfterP(t))
    /\ value[dev[t]] > 0
    /\ value' = [value EXCEPT ![dev[t]] = @ - 1]
    /\ UNCHANGED <<pending, busy, incoming, display, lock, dev, left>>

Released(t) ==
    /\ ~Due
    /\ Goto(t, "release", "outside")
    /\ lock' = [lock EXCEPT ![dev[t]] = Nobody]
    /\ dev' = [dev EXCEPT ![t] = None]
    /\ UNCHANGED <<busy, display, value, left>>

Release(t) == dev[t] \in OutDevices /\ Released(t) /\ UNCHANGED <<pending, incoming>>

(* ConsoleInput::GetChar, and the release of the lock: the next character  *)
(* is looked for once this one has been read.                              *)
GetChar(t) ==
    /\ dev[t] = Keyboard /\ Released(t)
    /\ IF incoming = EOF THEN UNCHANGED pending ELSE Scheduled(pending, Keyboard, ConsoleTime)
    /\ incoming' = EOF

-----------------------------------------------------------------------------
(* The handlers.                                                           *)
V(d) == value' = [value EXCEPT ![d] = @ + 1]

(* Disk::CallBack, ConsoleOutput::CallBack, NetworkOutput::CallBack.       *)
OutputDone(d) ==
    /\ Interrupt(d)
    /\ pending' = Tail(pending)
    /\ busy' = [x \in {Disk, Display} |-> busy[x] /\ x # d]
    /\ V(d)
    /\ UNCHANGED <<incoming, display, lock, at, dev, left>>

(* ConsoleInput::CallBack: nothing has been typed, a character has, or the *)
(* input is at its end, after which the device is silent.  A byte 255 is   *)
(* taken for EOF and has the same effect.                                  *)
KeepsPolling == Scheduled(Tail(pending), Keyboard, ConsoleTime)     \* fault
WaitsForGetChar == pending' = Tail(pending)

KeyboardInterrupt ==
    /\ Interrupt(Keyboard)
    /\ \/ /\ Scheduled(Tail(pending), Keyboard, ConsoleTime)
          /\ UNCHANGED <<incoming, value>>
       \/ /\ WaitsForGetChar
          /\ incoming' \in {Key, EOF}
          /\ V(Keyboard)
    /\ UNCHANGED <<busy, display, lock, at, dev, left>>

-----------------------------------------------------------------------------
Uses(t, d) == dev[t] = d /\ at[t] \in {"request", "await", "release"}
Awaited(d) == \E t \in Threads : dev[t] = d /\ at[t] = "await"

On(list) == {list[i].what : i \in 1 .. Len(list)}
Outstanding(d) == d \in On(pending)

Distinct(list) == \A i, j \in 1 .. Len(list) : list[i].what = list[j].what => i = j
Sorted(list) == \A i, j \in 1 .. Len(list) : i <= j => list[i].when <= list[j].when

(* The devices are used by the holders of their locks only.                *)
LockInv == \A d \in Shared : \A t \in Threads : lock[d] = t <=> Uses(t, d)

(* A device has at most one request.  From the request until the thread    *)
(* that made it has been through P there is either an interrupt on its way *)
(* or a V unclaimed, and otherwise neither: no request finds the device    *)
(* busy (the assertions in the requests), no V is left for a thread whose  *)
(* request is not done, and no interrupt comes unasked.                    *)
RequestInv ==
    /\ Distinct(pending)
    /\ \A d \in OutDevices :
           /\ value[d] = (IF Awaited(d) /\ ~Outstanding(d) THEN 1 ELSE 0)
           /\ Outstanding(d) => Awaited(d)
           /\ d # Network => (busy[d] <=> Outstanding(d))

(* The keyboard waits for its reader: there is never a character and an    *)
(* interrupt at a time (the assertion in its handler), and a character has *)
(* one V or one reader who is past P.                                      *)
Reading == \E t \in Threads : dev[t] = Keyboard /\ at[t] = "release"

KeyboardInv ==
    /\ value[Keyboard] \in {0, 1}
    /\ value[Keyboard] = 1 => ~Outstanding(Keyboard) /\ ~Reading
    /\ Reading => ~Outstanding(Keyboard)
    /\ incoming = Key => value[Keyboard] = 1 \/ Reading

(* The handlers run in time: when threads run, every pending interrupt is  *)
(* in the future.                                                          *)
NoneOverdue == ~Due => \A i \in 1 .. Len(pending) : pending[i].when > 0

DeviceInv == LockInv /\ RequestInv /\ KeyboardInv /\ NoneOverdue

(* The characters of a number come out together, and a single one never in *)
(* between, however the threads that print are switched: whoever is about  *)
(* to print finds the display's last number complete, or goes on with it.  *)
Contiguous ==
    \A t \in Threads : dev[t] = Display /\ at[t] = "request" =>
        display \in {Complete, [by |-> t, left |-> left[t]]}

-----------------------------------------------------------------------------
(* Type invariant.                                                         *)
Positions == {"outside", "acquire", "request", "await", "release"}

DevicesTypeOK ==
    /\ pending \in Seq([what : Devices, when : Int])
    /\ busy \in [{Disk, Display} -> BOOLEAN]
    /\ incoming \in {Key, EOF}
    /\ display \in [by : Threads \cup {Nobody}, left : Nat]
    /\ lock \in [Shared -> Threads \cup {Nobody}]
    /\ value \in [Devices -> Nat]
    /\ at \in [Threads -> Positions]
    /\ dev \in [Threads -> Shared \cup {None}]
    /\ left \in [Threads -> Nat]

(* What makes these invariants inductive: a call has a device and, unless  *)
(* it reads a character, a request to make until its last one is done.     *)
CallInv ==
    \A t \in Threads :
        /\ at[t] = "outside" <=> dev[t] = None
        /\ dev[t] = Keyboard => at[t] # "request" /\ left[t] = 0
        /\ dev[t] \in OutDevices /\ at[t] \in {"acquire", "request"} => left[t] > 0

(* A number is incomplete only while the thread it belongs to has the      *)
(* display, and what is missing is what that thread has left to print.     *)
PrintInv ==
    /\ lock[Display] = Nobody => display = Complete
    /\ \A t \in Threads : dev[t] = Display =>
           /\ at[t] = "request" => display \in {Complete, [by |-> t, left |-> left[t]]}
           /\ at[t] = "await" =>
                  display = (IF left[t] = 0 THEN Complete ELSE [by |-> t, left |-> left[t]])
           /\ at[t] = "release" => display = Complete

DeviceIInv ==
    /\ DevicesTypeOK /\ CallInv /\ LockInv /\ RequestInv /\ KeyboardInv
    /\ Sorted(pending) /\ PrintInv
=============================================================================
