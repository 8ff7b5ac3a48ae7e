------------------------------ MODULE TSQueue ------------------------------
(***************************************************************************)
(* The monitor of NTHU-OS-Pthreads/ts_queue.hpp: a ring buffer guarded by  *)
(* one mutex, with one condition variable for callers of enqueue that find *)
(* the ring full and one for callers of dequeue that find it empty.        *)
(*                                                                         *)
(* A thread's steps are the points where the code meets the other threads: *)
(* taking the mutex, the loop test under the mutex (which either blocks on *)
(* the condition variable, releasing the mutex in the same step, or        *)
(* updates the ring), pthread_cond_signal, and releasing the mutex.  A     *)
(* thread woken from pthread_cond_wait goes back to taking the mutex and   *)
(* re-runs the loop test.  POSIX lets pthread_cond_wait return without a   *)
(* signal; SpuriousWake is that return.                                    *)
(***************************************************************************)
EXTENDS Integers, FiniteSets

CONSTANTS Enqueuers,    \* threads that call enqueue
          Dequeuers,    \* threads that call dequeue
          Items,        \* what the queue carries
          NoItem,       \* content of a slot of new T[buffer_size], never written
          Nobody,       \* the holder of a free mutex
          BufferSize    \* buffer_size

Threads == Enqueuers \cup Dequeuers

ASSUME ThreadsAssumption ==
    /\ IsFiniteSet(Enqueuers)
    /\ IsFiniteSet(Dequeuers)
    /\ Enqueuers \cap Dequeuers = {}
    /\ Nobody \notin Threads

ASSUME ItemsAssumption == NoItem \notin Items

ASSUME BufferSizeAssumption == BufferSize \in Nat \ {0}

VARIABLES buffer,       \* T *buffer
          size,         \* the current number of items
          head,         \* index of the first item
          tail,         \* index of the last item
          mutex,        \* the thread holding the mutex, or Nobody
          condEnqueue,  \* threads blocked on cond_enqueue
          condDequeue,  \* threads blocked on cond_dequeue
          pc,           \* per thread: where it is in enqueue or dequeue
          item          \* per thread: the argument of enqueue, the result of dequeue

ring == <<buffer, size, head, tail>>
waiters == <<condEnqueue, condDequeue>>
vars == <<buffer, size, head, tail, mutex, condEnqueue, condDequeue, pc, item>>

Slots == 0 .. BufferSize - 1

Locations == {"outside", "lock", "test", "wait", "signal", "unlock"}

Goto(t, label) == pc' = [pc EXCEPT ![t] = label]

(* A definition marked "fault" is the one after it with a mistake in it.   *)
(* No specification uses it: put in place of the correct one, it makes the *)
(* property it is meant for fail, which shows that the property can fail.  *)

Advance(i) == (i + 1) % BufferSize

HeadKept == head               \* fault
NextHead == Advance(head)

Newest == buffer[tail]         \* fault
First == buffer[head]

MutexIgnored == TRUE           \* fault
MutexFree == mutex = Nobody

-----------------------------------------------------------------------------
(* The constructor leaves size = 0, head = 0 and tail = -1.                *)
Init ==
    /\ buffer = [i \in Slots |-> NoItem]
    /\ size = 0
    /\ head = 0
    /\ tail = -1
    /\ mutex = Nobody
    /\ condEnqueue = {}
    /\ condDequeue = {}
    /\ pc = [t \in Threads |-> "outside"]
    /\ item = [t \in Threads |-> NoItem]

CallEnqueue(t, x) ==
    /\ pc[t] = "outside"
    /\ Goto(t, "lock")
    /\ item' = [item EXCEPT ![t] = x]
    /\ UNCHANGED <<ring, mutex, waiters>>

CallDequeue(t) ==
    /\ pc[t] = "outside"
    /\ Goto(t, "lock")
    /\ item' = [item EXCEPT ![t] = NoItem]
    /\ UNCHANGED <<ring, mutex, waiters>>

(* pthread_mutex_lock, on entry or on the way out of pthread_cond_wait.    *)
Lock(t) ==
    /\ pc[t] = "lock"
    /\ MutexFree
    /\ mutex' = t
    /\ Goto(t, "test")
    /\ UNCHANGED <<ring, waiters, item>>

(* while (size == buffer_size) pthread_cond_wait(&cond_enqueue, &mutex)    *)
WaitNotFull(t) ==
    /\ pc[t] = "test"
    /\ size = BufferSize
    /\ condEnqueue' = condEnqueue \cup {t}
    /\ mutex' = Nobody
    /\ Goto(t, "wait")
    /\ UNCHANGED <<ring, condDequeue, item>>

Put(t) ==
    /\ pc[t] = "test"
    /\ size # BufferSize
    /\ tail' = Advance(tail)
    /\ buffer' = [buffer EXCEPT ![tail'] = item[t]]
    /\ size' = size + 1
    /\ Goto(t, "signal")
    /\ UNCHANGED <<head, mutex, waiters, item>>

(* while (size == 0) pthread_cond_wait(&cond_dequeue, &mutex)              *)
WaitNotEmpty(t) ==
    /\ pc[t] = "test"
    /\ size = 0
    /\ condDequeue' = condDequeue \cup {t}
    /\ mutex' = Nobody
    /\ Goto(t, "wait")
    /\ UNCHANGED <<ring, condEnqueue, item>>

Take(t) ==
    /\ pc[t] = "test"
    /\ size # 0
    /\ item' = [item EXCEPT ![t] = First]
    /\ head' = NextHead
    /\ size' = size - 1
    /\ Goto(t, "signal")
    /\ UNCHANGED <<buffer, tail, mutex, waiters>>

SignalWhenWasEmpty(t) ==       \* fault
    /\ pc[t] = "signal"
    /\ \/ /\ condDequeue = {} \/ size > 1
          /\ Goto(t, "unlock")
          /\ UNCHANGED condDequeue
       \/ \E w \in condDequeue :
             /\ size = 1
             /\ condDequeue' = condDequeue \ {w}
             /\ pc' = [pc EXCEPT ![t] = "unlock", ![w] = "lock"]
    /\ UNCHANGED <<ring, mutex, condEnqueue, item>>

(* pthread_cond_signal wakes one blocked thread if there is one.           *)
SignalNotEmpty(t) ==
    /\ pc[t] = "signal"
    /\ \/ /\ condDequeue = {}
          /\ Goto(t, "unlock")
          /\ UNCHANGED condDequeue
       \/ \E w \in condDequeue :
             /\ condDequeue' = condDequeue \ {w}
             /\ pc' = [pc EXCEPT ![t] = "unlock", ![w] = "lock"]
    /\ UNCHANGED <<ring, mutex, condEnqueue, item>>

SignalNotFull(t) ==
    /\ pc[t] = "signal"
    /\ \/ /\ condEnqueue = {}
          /\ Goto(t, "unlock")
          /\ UNCHANGED condEnqueue
       \/ \E w \in condEnqueue :
             /\ condEnqueue' = condEnqueue \ {w}
             /\ pc' = [pc EXCEPT ![t] = "unlock", ![w] = "lock"]
    /\ UNCHANGED <<ring, mutex, condDequeue, item>>

Unlock(t) ==
    /\ pc[t] = "unlock"
    /\ mutex' = Nobody
    /\ Goto(t, "outside")
    /\ UNCHANGED <<ring, waiters, item>>

SpuriousWake(t) ==
    /\ pc[t] = "wait"
    /\ condEnqueue' = condEnqueue \ {t}
    /\ condDequeue' = condDequeue \ {t}
    /\ Goto(t, "lock")
    /\ UNCHANGED <<ring, mutex, item>>

Enqueue(t) == WaitNotFull(t) \/ Put(t) \/ SignalNotEmpty(t)
Dequeue(t) == WaitNotEmpty(t) \/ Take(t) \/ SignalNotFull(t)

Next ==
    \/ \E t \in Enqueuers : Enqueue(t) \/ \E x \in Items : CallEnqueue(t, x)
    \/ \E t \in Dequeuers : Dequeue(t) \/ CallDequeue(t)
    \/ \E t \in Threads : Lock(t) \/ Unlock(t) \/ SpuriousWake(t)

Spec == Init /\ [][Next]_vars

-----------------------------------------------------------------------------
(* Type invariant.                                                         *)
TypeOK ==
    /\ buffer \in [Slots -> Items \cup {NoItem}]
    /\ size \in 0 .. BufferSize
    /\ head \in Slots
    /\ tail \in -1 .. BufferSize - 1
    /\ mutex \in Threads \cup {Nobody}
    /\ condEnqueue \subseteq Enqueuers
    /\ condDequeue \subseteq Dequeuers
    /\ pc \in [Threads -> Locations]
    /\ item \in [Threads -> Items \cup {NoItem}]

(* The i-th oldest item and the items in the queue, oldest first.          *)
Nth(i) == buffer[(head + i - 1) % BufferSize]
Contents == [i \in 1 .. size |-> Nth(i)]

(* A thread between taking and releasing the mutex is its holder, so no    *)
(* two threads touch size, head, tail or the buffer at once; and a thread  *)
(* counted as blocked on a condition variable is really blocked there.     *)
MutexInv ==
    /\ \A t \in Threads : pc[t] \in {"test", "signal", "unlock"} <=> mutex = t
    /\ condEnqueue = {t \in Enqueuers : pc[t] = "wait"}
    /\ condDequeue = {t \in Dequeuers : pc[t] = "wait"}

(* The ring stays well formed across wrap-around and across the first      *)
(* enqueue, which starts from tail = -1: tail is the slot of the last of   *)
(* size items counted from head, and every slot in between was written.    *)
RingInv ==
    /\ (tail + 1) % BufferSize = (head + size) % BufferSize
    /\ \A i \in 1 .. size : Nth(i) \in Items
    /\ \A t \in Enqueuers : pc[t] # "outside" => item[t] \in Items

(* No lost wake-up, although pthread_cond_signal wakes one thread and a    *)
(* thread that never waited may take the mutex, and the item, before the   *)
(* woken one does: while callers of dequeue are blocked, every item in the *)
(* queue is matched by a caller of dequeue on its way to the loop test or  *)
(* by a signal still to be sent; and the same for free slots and enqueue.  *)
DequeuersAwake == {t \in Dequeuers : pc[t] \in {"lock", "test"}}
EnqueuersAwake == {t \in Enqueuers : pc[t] \in {"lock", "test"}}
SignalsToDequeuers == {t \in Enqueuers : pc[t] = "signal"}
SignalsToEnqueuers == {t \in Dequeuers : pc[t] = "signal"}

NoLostWakeup ==
    /\ condDequeue # {} =>
         size <= Cardinality(DequeuersAwake \cup SignalsToDequeuers)
    /\ condEnqueue # {} =>
         BufferSize - size <= Cardinality(EnqueuersAwake \cup SignalsToEnqueuers)

(* The queue is a linearizable bounded FIFO: it implements BoundedBuffer,  *)
(* a call taking effect in Put or Take, with the mutex and the condition   *)
(* variables hidden and the ring read from head.                           *)
Abstract == INSTANCE BoundedBuffer WITH
    Capacity <- BufferSize,
    queue <- Contents,
    status <- [t \in Threads |->
                 CASE pc[t] = "outside" -> "outside"
                   [] pc[t] \in {"lock", "test", "wait"} -> "before"
                   [] OTHER -> "after"]

ImplementsBoundedBuffer == Abstract!Spec
=============================================================================
