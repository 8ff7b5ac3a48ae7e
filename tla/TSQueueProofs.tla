--------------------------- MODULE TSQueueProofs ---------------------------
(***************************************************************************)
(* What TSQueue guarantees for any number of threads, any items and any    *)
(* buffer size, and what the test program makes of it.                     *)
(***************************************************************************)
EXTENDS TSQueueTest, FiniteSetTheorems, SequenceTheorems, TLAPS

-----------------------------------------------------------------------------
(* Indices modulo the buffer size.  head stays below BufferSize and size   *)
(* does not exceed it, so at most one wrap-around is ever undone.          *)

(* An index taken modulo the buffer size is a slot of the buffer.          *)
LEMMA ModRange ==
    ASSUME NEW n \in Nat \ {0}, NEW x \in Int
    PROVE  x % n \in 0 .. n - 1
  OBVIOUS

(* A number below the modulus is its own remainder.                        *)
LEMMA ModSmall ==
    ASSUME NEW n \in Nat \ {0}, NEW x \in 0 .. n - 1
    PROVE  x % n = x
  OBVIOUS

(* One wrap-around subtracts the modulus.                                  *)
LEMMA ModWrap ==
    ASSUME NEW n \in Nat \ {0}, NEW x \in Int, n <= x, x < n + n
    PROVE  x % n = x - n
  OBVIOUS

(* Advancing an index that was reduced modulo the buffer size is the same  *)
(* as reducing the advanced index.                                         *)
LEMMA ModAdvance ==
    ASSUME NEW n \in Nat \ {0}, NEW x \in 0 .. 2 * n - 2, NEW k \in 0 .. n - 1,
           x + k <= 2 * n - 1
    PROVE  ((x % n) + k) % n = (x + k) % n
  <1>1. CASE x < n
    BY <1>1, ModSmall
  <1>2. CASE x >= n
    <2>1. x % n = x - n
      <3>1. x \in Int /\ n <= x /\ x < n + n
        BY <1>2
      <3> QED
        BY <3>1, ModWrap
    <2>2. /\ x + k - n \in 0 .. n - 1
          /\ x + k \in Int /\ n <= x + k /\ x + k < n + n
      BY <1>2
    <2>3. (x + k) % n = x + k - n
      BY <2>2
    <2>4. (x - n + k) % n = x - n + k
      BY <2>2, ModSmall
    <2> QED
      BY <2>1, <2>3, <2>4
  <1> QED
    BY <1>1, <1>2

(* Two indices less than one turn apart are different slots.               *)
LEMMA ModDistinct ==
    ASSUME NEW n \in Nat \ {0}, NEW x \in Nat, NEW y \in Nat,
           y < n + n, x < y, y - x <= n - 1
    PROVE  x % n # y % n
  <1>1. x < n => x % n = x
    BY ModSmall
  <1>2. y < n => y % n = y
    BY ModSmall
  <1>3. x >= n => x % n = x - n
    <2>1. x \in Int /\ (n <= x <=> x >= n) /\ x < n + n
      OBVIOUS
    <2> QED
      BY <2>1, ModWrap
  <1>4. y >= n => y % n = y - n
    <2>1. y \in Int /\ (n <= y <=> y >= n) /\ y < n + n
      OBVIOUS
    <2> QED
      BY <2>1, ModWrap
  <1> QED
    BY <1>1, <1>2, <1>3, <1>4

-----------------------------------------------------------------------------
(* Every variable keeps its type: in particular size never leaves          *)
(* 0 .. BufferSize, and head and tail always index the buffer.             *)
THEOREM TypeCorrect == Spec => []TypeOK
  <1> USE ThreadsAssumption, ItemsAssumption, BufferSizeAssumption
  <1>1. Init => TypeOK
    BY DEF Init, TypeOK, Slots, Locations
  <1>2. TypeOK /\ [Next]_vars => TypeOK'
    <2> SUFFICES ASSUME TypeOK, [Next]_vars PROVE TypeOK'
      OBVIOUS
    <2> USE DEF TypeOK, Slots, Locations, Goto, ring, waiters, Threads
    <2>1. ASSUME NEW t \in Enqueuers, NEW x \in Items, CallEnqueue(t, x)
          PROVE  TypeOK'
      BY <2>1 DEF CallEnqueue
    <2>2. ASSUME NEW t \in Dequeuers, CallDequeue(t)
          PROVE  TypeOK'
      BY <2>2 DEF CallDequeue
    <2>3. ASSUME NEW t \in Threads, Lock(t)
          PROVE  TypeOK'
      BY <2>3 DEF Lock, MutexFree
    <2>4. ASSUME NEW t \in Enqueuers, WaitNotFull(t)
          PROVE  TypeOK'
      BY <2>4 DEF WaitNotFull
    <2>5. ASSUME NEW t \in Enqueuers, Put(t)
          PROVE  TypeOK'
      <3>1. (tail + 1) % BufferSize \in 0 .. BufferSize - 1
        BY ModRange
      <3> QED
        BY <2>5, <3>1 DEF Put, Advance
    <2>6. ASSUME NEW t \in Dequeuers, WaitNotEmpty(t)
          PROVE  TypeOK'
      BY <2>6 DEF WaitNotEmpty
    <2>7. ASSUME NEW t \in Dequeuers, Take(t)
          PROVE  TypeOK'
      <3>1. (head + 1) % BufferSize \in 0 .. BufferSize - 1
        BY ModRange
      <3> QED
        BY <2>7, <3>1 DEF Take, NextHead, First, Advance
    <2>8. ASSUME NEW t \in Enqueuers, SignalNotEmpty(t)
          PROVE  TypeOK'
      BY <2>8 DEF SignalNotEmpty
    <2>9. ASSUME NEW t \in Dequeuers, SignalNotFull(t)
          PROVE  TypeOK'
      BY <2>9 DEF SignalNotFull
    <2>10. ASSUME NEW t \in Threads, Unlock(t)
           PROVE  TypeOK'
      BY <2>10 DEF Unlock
    <2>11. ASSUME NEW t \in Threads, SpuriousWake(t)
           PROVE  TypeOK'
      BY <2>11 DEF SpuriousWake
    <2>12. CASE UNCHANGED vars
      BY <2>12 DEF vars
    <2> QED
      BY <2>1, <2>2, <2>3, <2>4, <2>5, <2>6, <2>7, <2>8, <2>9, <2>10, <2>11, <2>12
      DEF Next, Enqueue, Dequeue
  <1> QED
    BY <1>1, <1>2, PTL DEF Spec

-----------------------------------------------------------------------------
(* The mutex protects every access to the ring, and the two sets of        *)
(* waiters are exactly the threads blocked in pthread_cond_wait.           *)
THEOREM MutualExclusion == Spec => []MutexInv
  <1> USE ThreadsAssumption
  <1>1. Init => MutexInv
    BY DEF Init, MutexInv, Threads
  <1>2. TypeOK /\ MutexInv /\ [Next]_vars => MutexInv'
    <2> SUFFICES ASSUME TypeOK, MutexInv, [Next]_vars PROVE MutexInv'
      OBVIOUS
    <2> USE DEF TypeOK, MutexInv, Locations, Goto, ring, waiters, Threads
    <2>1. ASSUME NEW t \in Enqueuers, NEW x \in Items, CallEnqueue(t, x)
          PROVE  MutexInv'
      BY <2>1 DEF CallEnqueue
    <2>2. ASSUME NEW t \in Dequeuers, CallDequeue(t)
          PROVE  MutexInv'
      BY <2>2 DEF CallDequeue
    <2>3. ASSUME NEW t \in Threads, Lock(t)
          PROVE  MutexInv'
      BY <2>3 DEF Lock, MutexFree
    <2>4. ASSUME NEW t \in Enqueuers, WaitNotFull(t)
          PROVE  MutexInv'
      BY <2>4 DEF WaitNotFull
    <2>5. ASSUME NEW t \in Enqueuers, Put(t)
          PROVE  MutexInv'
      BY <2>5 DEF Put, Advance
    <2>6. ASSUME NEW t \in Dequeuers, WaitNotEmpty(t)
          PROVE  MutexInv'
      BY <2>6 DEF WaitNotEmpty
    <2>7. ASSUME NEW t \in Dequeuers, Take(t)
          PROVE  MutexInv'
      BY <2>7 DEF Take, NextHead, First, Advance
    <2>8. ASSUME NEW t \in Enqueuers, SignalNotEmpty(t)
          PROVE  MutexInv'
      BY <2>8 DEF SignalNotEmpty
    <2>9. ASSUME NEW t \in Dequeuers, SignalNotFull(t)
          PROVE  MutexInv'
      BY <2>9 DEF SignalNotFull
    <2>10. ASSUME NEW t \in Threads, Unlock(t)
           PROVE  MutexInv'
      BY <2>10 DEF Unlock
    <2>11. ASSUME NEW t \in Threads, SpuriousWake(t)
           PROVE  MutexInv'
      BY <2>11 DEF SpuriousWake
    <2>12. CASE UNCHANGED vars
      BY <2>12 DEF vars
    <2> QED
      BY <2>1, <2>2, <2>3, <2>4, <2>5, <2>6, <2>7, <2>8, <2>9, <2>10, <2>11, <2>12
      DEF Next, Enqueue, Dequeue
  <1> QED
    BY <1>1, <1>2, TypeCorrect, PTL DEF Spec

-----------------------------------------------------------------------------
(* The ring stays well formed across wrap-around: the slot enqueue writes  *)
(* next is always the one after the newest item, and dequeue never returns *)
(* a slot that was not written.                                            *)
THEOREM RingWellFormed == Spec => []RingInv
  <1> USE ThreadsAssumption, BufferSizeAssumption
  <1>1. Init => RingInv
    BY ModSmall DEF Init, RingInv, Threads
  <1>2. TypeOK /\ MutexInv /\ RingInv /\ [Next]_vars => RingInv'
    <2> SUFFICES ASSUME TypeOK, MutexInv, RingInv, [Next]_vars PROVE RingInv'
      OBVIOUS
    <2> USE DEF TypeOK, Locations, Goto, ring, waiters, Threads, Slots
    <2>1. ASSUME NEW t \in Enqueuers, NEW x \in Items, CallEnqueue(t, x)
          PROVE  RingInv'
      BY <2>1 DEF CallEnqueue, RingInv, Nth
    <2>2. ASSUME NEW t \in Dequeuers, CallDequeue(t)
          PROVE  RingInv'
      BY <2>2 DEF CallDequeue, RingInv, Nth
    <2>3. ASSUME NEW t \in Threads, Lock(t)
          PROVE  RingInv'
      BY <2>3 DEF Lock, MutexFree, RingInv, Nth
    <2>4. ASSUME NEW t \in Enqueuers, WaitNotFull(t)
          PROVE  RingInv'
      BY <2>4 DEF WaitNotFull, RingInv, Nth
    <2>5. ASSUME NEW t \in Enqueuers, Put(t)
          PROVE  RingInv'
      <3>1. tail' = (head + size) % BufferSize /\ head' = head /\ size' = size + 1
        BY <2>5 DEF Put, Advance, RingInv
      <3>2. tail' \in Slots /\ buffer' = [buffer EXCEPT ![tail'] = item[t]]
        BY <2>5, <3>1, ModRange DEF Put, Advance
      <3>3. (tail' + 1) % BufferSize = (head' + size') % BufferSize
        <4>1. head + size \in 0 .. 2 * BufferSize - 2
          BY <2>5 DEF Put, Advance
        <4>2. CASE BufferSize = 1
          <5>1. \A x \in Int : x % BufferSize = 0
            BY <4>2, ModRange
          <5>2. tail' + 1 \in Int /\ head' + size' \in Int
            BY <3>1, <3>2
          <5> QED
            BY <5>1, <5>2
        <4>3. CASE BufferSize # 1
          BY <3>1, <4>1, <4>3, ModAdvance
        <4> QED
          BY <4>2, <4>3
      <3>4. ASSUME NEW i \in 1 .. size' PROVE Nth(i)' \in Items
        <4>1. item[t] \in Items
          BY <2>5 DEF Put, Advance, RingInv
        <4>2. (head + i - 1) % BufferSize \in Slots
          BY ModRange, <3>1
        <4>3. CASE i = size + 1
          BY <3>1, <3>2, <4>1, <4>3 DEF Nth
        <4>4. CASE i # size + 1
          <5>1. i \in 1 .. size
            BY <3>1, <4>4
          <5>2. Nth(i) \in Items
            BY <5>1 DEF RingInv
          <5> QED
            BY <3>1, <3>2, <4>1, <4>2, <5>2 DEF Nth
        <4> QED
          BY <4>3, <4>4
      <3>5. \A e \in Enqueuers : pc'[e] # "outside" => item'[e] \in Items
        BY <2>5 DEF Put, Advance, RingInv
      <3> QED
        BY <3>3, <3>4, <3>5 DEF RingInv
    <2>6. ASSUME NEW t \in Dequeuers, WaitNotEmpty(t)
          PROVE  RingInv'
      BY <2>6 DEF WaitNotEmpty, RingInv, Nth
    <2>7. ASSUME NEW t \in Dequeuers, Take(t)
          PROVE  RingInv'
      <3>1. /\ head' = (head + 1) % BufferSize /\ size' = size - 1
            /\ tail' = tail /\ buffer' = buffer
            /\ size \in 1 .. BufferSize
        BY <2>7 DEF Take, NextHead, First, Advance
      <3>2. ASSUME NEW k \in 0 .. size - 1
            PROVE  (head' + k) % BufferSize = (head + 1 + k) % BufferSize
        <4>1. CASE BufferSize = 1
          <5>1. \A x \in Int : x % BufferSize = 0
            BY <4>1, ModRange
          <5> QED
            BY <5>1, <3>1
        <4>2. CASE BufferSize # 1
          <5>1. /\ head + 1 \in 0 .. 2 * BufferSize - 2
                /\ k \in 0 .. BufferSize - 1
                /\ head + 1 + k <= 2 * BufferSize - 1
            BY <3>1, <4>2
          <5> QED
            BY <5>1, <3>1, ModAdvance
        <4> QED
          BY <4>1, <4>2
      <3>3. (tail' + 1) % BufferSize = (head' + size') % BufferSize
        BY <3>1, <3>2 DEF RingInv
      <3>4. ASSUME NEW i \in 1 .. size' PROVE Nth(i)' \in Items
        <4>1. i + 1 \in 1 .. size /\ i - 1 \in 0 .. size - 1
          BY <3>1
        <4>2. (head' + (i - 1)) % BufferSize = (head + 1 + (i - 1)) % BufferSize
          BY <3>2, <4>1
        <4>3. head' \in Int /\ i \in Int
          BY <3>1, ModRange
        <4>4. /\ head' + (i - 1) = head' + i - 1
              /\ head + 1 + (i - 1) = head + (i + 1) - 1
          BY <4>3
        <4>5. Nth(i)' = Nth(i + 1)
          BY <3>1, <4>2, <4>4 DEF Nth
        <4> QED
          BY <4>1, <4>5 DEF RingInv
      <3>5. \A e \in Enqueuers : pc'[e] # "outside" => item'[e] \in Items
        BY <2>7 DEF Take, NextHead, First, Advance, RingInv
      <3> QED
        BY <3>3, <3>4, <3>5 DEF RingInv
    <2>8. ASSUME NEW t \in Enqueuers, SignalNotEmpty(t)
          PROVE  RingInv'
      BY <2>8 DEF SignalNotEmpty, RingInv, Nth
    <2>9. ASSUME NEW t \in Dequeuers, SignalNotFull(t)
          PROVE  RingInv'
      BY <2>9 DEF SignalNotFull, RingInv, Nth, MutexInv
    <2>10. ASSUME NEW t \in Threads, Unlock(t)
           PROVE  RingInv'
      BY <2>10 DEF Unlock, RingInv, Nth
    <2>11. ASSUME NEW t \in Threads, SpuriousWake(t)
           PROVE  RingInv'
      BY <2>11 DEF SpuriousWake, RingInv, Nth
    <2>12. CASE UNCHANGED vars
      BY <2>12 DEF vars, RingInv, Nth
    <2> QED
      BY <2>1, <2>2, <2>3, <2>4, <2>5, <2>6, <2>7, <2>8, <2>9, <2>10, <2>11, <2>12
      DEF Next, Enqueue, Dequeue
  <1> QED
    BY <1>1, <1>2, TypeCorrect, MutualExclusion, PTL DEF Spec

-----------------------------------------------------------------------------
(* No wake-up is lost for any number of threads: signalling one thread per *)
(* call is enough, because a thread blocks only when there is nothing to   *)
(* match it, and every item or free slot that appears later brings a       *)
(* signal with it.  A woken thread that finds the queue empty again has    *)
(* lost its item to a thread that was awake as well.                       *)
THEOREM NoLostWakeupCorrect == Spec => []NoLostWakeup
  <1> USE ThreadsAssumption, BufferSizeAssumption
  <1> DEFINE D == DequeuersAwake \cup SignalsToDequeuers
             E == EnqueuersAwake \cup SignalsToEnqueuers
  <1>1. Init => NoLostWakeup
    BY DEF Init, NoLostWakeup
  <1>2. TypeOK /\ MutexInv /\ NoLostWakeup /\ [Next]_vars => NoLostWakeup'
    <2> SUFFICES ASSUME TypeOK, MutexInv, NoLostWakeup, [Next]_vars
                 PROVE  NoLostWakeup'
      OBVIOUS
    <2>1. /\ IsFiniteSet(Threads)
          /\ D \subseteq Threads /\ E \subseteq Threads
          /\ D' \subseteq Threads /\ E' \subseteq Threads
      <3>1. IsFiniteSet(Threads)
        BY FS_Union DEF Threads
      <3> QED
        BY <3>1 DEF Threads, DequeuersAwake, SignalsToDequeuers,
                    EnqueuersAwake, SignalsToEnqueuers
    <2>2. /\ IsFiniteSet(D) /\ IsFiniteSet(E) /\ IsFiniteSet(D') /\ IsFiniteSet(E')
          /\ Cardinality(D) \in Nat /\ Cardinality(E) \in Nat
          /\ Cardinality(D') \in Nat /\ Cardinality(E') \in Nat
      BY <2>1, FS_Subset, FS_CardinalityType
    <2>3. ASSUME D \subseteq D', E \subseteq E', size' = size,
                 condDequeue' # {} => condDequeue # {},
                 condEnqueue' # {} => condEnqueue # {}
          PROVE  NoLostWakeup'
      <3>1. Cardinality(D) <= Cardinality(D') /\ Cardinality(E) <= Cardinality(E')
        BY <2>2, <2>3, FS_Subset
      <3> QED
        BY <2>2, <2>3, <3>1 DEF NoLostWakeup, TypeOK
    <2>4. ASSUME NEW t \in Enqueuers, NEW x \in Items, CallEnqueue(t, x)
          PROVE  NoLostWakeup'
      <3>1. D \subseteq D' /\ E \subseteq E'
        BY <2>4 DEF CallEnqueue, Goto, TypeOK, Threads, DequeuersAwake,
                    SignalsToDequeuers, EnqueuersAwake, SignalsToEnqueuers
      <3> QED
        BY <2>3, <2>4, <3>1 DEF CallEnqueue, ring, waiters
    <2>5. ASSUME NEW t \in Dequeuers, CallDequeue(t)
          PROVE  NoLostWakeup'
      <3>1. D \subseteq D' /\ E \subseteq E'
        BY <2>5 DEF CallDequeue, Goto, TypeOK, Threads, DequeuersAwake,
                    SignalsToDequeuers, EnqueuersAwake, SignalsToEnqueuers
      <3> QED
        BY <2>3, <2>5, <3>1 DEF CallDequeue, ring, waiters
    <2>6. ASSUME NEW t \in Threads, Lock(t)
          PROVE  NoLostWakeup'
      <3>1. D \subseteq D' /\ E \subseteq E'
        BY <2>6 DEF Lock, MutexFree, Goto, TypeOK, Threads, DequeuersAwake,
                    SignalsToDequeuers, EnqueuersAwake, SignalsToEnqueuers
      <3> QED
        BY <2>3, <2>6, <3>1 DEF Lock, MutexFree, ring, waiters
    <2>7. ASSUME NEW t \in Enqueuers, WaitNotFull(t)
          PROVE  NoLostWakeup'
      <3>1. D' = D
        BY <2>7 DEF WaitNotFull, Goto, TypeOK, Threads, DequeuersAwake,
                    SignalsToDequeuers
      <3>2. /\ size = BufferSize /\ size' = size
            /\ condDequeue' = condDequeue
        BY <2>7 DEF WaitNotFull, ring
      <3> QED
        BY <2>2, <3>1, <3>2 DEF NoLostWakeup
    <2>8. ASSUME NEW t \in Enqueuers, Put(t)
          PROVE  NoLostWakeup'
      <3>1. D' = D \cup {t} /\ t \notin D
        BY <2>8 DEF Put, Advance, Goto, TypeOK, Threads, DequeuersAwake,
                    SignalsToDequeuers
      <3>2. E' = E \ {t} /\ t \in E
        BY <2>8 DEF Put, Advance, Goto, TypeOK, Threads, EnqueuersAwake,
                    SignalsToEnqueuers
      <3>3. Cardinality(D') = Cardinality(D) + 1
        BY <2>2, <3>1, FS_AddElement
      <3>4. Cardinality(E') = Cardinality(E) - 1
        BY <2>2, <3>2, FS_RemoveElement
      <3>5. /\ size' = size + 1
            /\ condDequeue' = condDequeue /\ condEnqueue' = condEnqueue
        BY <2>8 DEF Put, Advance, waiters
      <3> QED
        BY <2>2, <3>3, <3>4, <3>5 DEF NoLostWakeup, TypeOK
    <2>9. ASSUME NEW t \in Dequeuers, WaitNotEmpty(t)
          PROVE  NoLostWakeup'
      <3>1. E' = E
        BY <2>9 DEF WaitNotEmpty, Goto, TypeOK, Threads, EnqueuersAwake,
                    SignalsToEnqueuers
      <3>2. /\ size = 0 /\ size' = size
            /\ condEnqueue' = condEnqueue
        BY <2>9 DEF WaitNotEmpty, ring
      <3> QED
        BY <2>2, <3>1, <3>2 DEF NoLostWakeup
    <2>10. ASSUME NEW t \in Dequeuers, Take(t)
           PROVE  NoLostWakeup'
      <3>1. E' = E \cup {t} /\ t \notin E
        BY <2>10 DEF Take, NextHead, First, Advance, Goto, TypeOK, Threads, EnqueuersAwake,
                     SignalsToEnqueuers
      <3>2. D' = D \ {t} /\ t \in D
        BY <2>10 DEF Take, NextHead, First, Advance, Goto, TypeOK, Threads, DequeuersAwake,
                     SignalsToDequeuers
      <3>3. Cardinality(E') = Cardinality(E) + 1
        BY <2>2, <3>1, FS_AddElement
      <3>4. Cardinality(D') = Cardinality(D) - 1
        BY <2>2, <3>2, FS_RemoveElement
      <3>5. /\ size' = size - 1
            /\ condDequeue' = condDequeue /\ condEnqueue' = condEnqueue
        BY <2>10 DEF Take, NextHead, First, Advance, waiters
      <3> QED
        BY <2>2, <3>3, <3>4, <3>5 DEF NoLostWakeup, TypeOK
    <2>11. ASSUME NEW t \in Enqueuers, SignalNotEmpty(t)
           PROVE  NoLostWakeup'
      <3>1. size' = size /\ condEnqueue' = condEnqueue
        BY <2>11 DEF SignalNotEmpty, ring
      <3>2. E' = E
        BY <2>11 DEF SignalNotEmpty, Goto, TypeOK, MutexInv, Threads,
                     EnqueuersAwake, SignalsToEnqueuers
      <3>3. CASE condDequeue = {}
        BY <2>2, <2>11, <3>1, <3>2, <3>3 DEF SignalNotEmpty, NoLostWakeup
      <3>4. ASSUME NEW w \in condDequeue, condDequeue' = condDequeue \ {w},
                   pc' = [pc EXCEPT ![t] = "unlock", ![w] = "lock"]
            PROVE  NoLostWakeup'
        <4>1. /\ D' = (D \ {t}) \cup {w}
              /\ t \in D /\ w \notin D \ {t}
          BY <2>11, <3>4 DEF SignalNotEmpty, TypeOK, MutexInv, Threads,
                             DequeuersAwake, SignalsToDequeuers
        <4>2. /\ IsFiniteSet(D \ {t})
              /\ Cardinality(D \ {t}) = Cardinality(D) - 1
          BY <2>2, <4>1, FS_RemoveElement
        <4>3. Cardinality((D \ {t}) \cup {w}) = Cardinality(D \ {t}) + 1
          BY <4>1, <4>2, FS_AddElement
        <4>4. Cardinality(D') = Cardinality(D \ {t}) + 1
          BY <4>1, <4>3
        <4>5. Cardinality(D') = Cardinality(D)
          BY <2>2, <4>2, <4>4
        <4> QED
          BY <3>1, <3>2, <3>4, <4>5 DEF NoLostWakeup
      <3> QED
        BY <2>11, <3>3, <3>4 DEF SignalNotEmpty
    <2>12. ASSUME NEW t \in Dequeuers, SignalNotFull(t)
           PROVE  NoLostWakeup'
      <3>1. size' = size /\ condDequeue' = condDequeue
        BY <2>12 DEF SignalNotFull, ring
      <3>2. D' = D
        BY <2>12 DEF SignalNotFull, Goto, TypeOK, MutexInv, Threads,
                     DequeuersAwake, SignalsToDequeuers
      <3>3. CASE condEnqueue = {}
        BY <2>2, <2>12, <3>1, <3>2, <3>3 DEF SignalNotFull, NoLostWakeup
      <3>4. ASSUME NEW w \in condEnqueue, condEnqueue' = condEnqueue \ {w},
                   pc' = [pc EXCEPT ![t] = "unlock", ![w] = "lock"]
            PROVE  NoLostWakeup'
        <4>1. /\ E' = (E \ {t}) \cup {w}
              /\ t \in E /\ w \notin E \ {t}
          BY <2>12, <3>4 DEF SignalNotFull, TypeOK, MutexInv, Threads,
                             EnqueuersAwake, SignalsToEnqueuers
        <4>2. /\ IsFiniteSet(E \ {t})
              /\ Cardinality(E \ {t}) = Cardinality(E) - 1
          BY <2>2, <4>1, FS_RemoveElement
        <4>3. Cardinality((E \ {t}) \cup {w}) = Cardinality(E \ {t}) + 1
          BY <4>1, <4>2, FS_AddElement
        <4>4. Cardinality(E') = Cardinality(E \ {t}) + 1
          BY <4>1, <4>3
        <4>5. Cardinality(E') = Cardinality(E)
          BY <2>2, <4>2, <4>4
        <4> QED
          BY <3>1, <3>2, <3>4, <4>5 DEF NoLostWakeup
      <3> QED
        BY <2>12, <3>3, <3>4 DEF SignalNotFull
    <2>13. ASSUME NEW t \in Threads, Unlock(t)
           PROVE  NoLostWakeup'
      <3>1. D \subseteq D' /\ E \subseteq E'
        BY <2>13 DEF Unlock, Goto, TypeOK, Threads, DequeuersAwake,
                     SignalsToDequeuers, EnqueuersAwake, SignalsToEnqueuers
      <3> QED
        BY <2>3, <2>13, <3>1 DEF Unlock, ring, waiters
    <2>14. ASSUME NEW t \in Threads, SpuriousWake(t)
           PROVE  NoLostWakeup'
      <3>1. D \subseteq D' /\ E \subseteq E'
        BY <2>14 DEF SpuriousWake, Goto, TypeOK, Threads, DequeuersAwake,
                     SignalsToDequeuers, EnqueuersAwake, SignalsToEnqueuers
      <3> QED
        BY <2>3, <2>14, <3>1 DEF SpuriousWake, ring
    <2>15. CASE UNCHANGED vars
      BY <2>3, <2>15 DEF vars, DequeuersAwake, SignalsToDequeuers,
                         EnqueuersAwake, SignalsToEnqueuers
    <2> QED
      BY <2>4, <2>5, <2>6, <2>7, <2>8, <2>9, <2>10, <2>11, <2>12, <2>13, <2>14,
         <2>15 DEF Next, Enqueue, Dequeue
  <1> QED
    BY <1>1, <1>2, TypeCorrect, MutualExclusion, PTL DEF Spec

-----------------------------------------------------------------------------
(* The ring read from head is a sequence of size items.                    *)
LEMMA ContentsIsSeq ==
    ASSUME TypeOK, RingInv
    PROVE  /\ Contents \in Seq(Items)
           /\ Len(Contents) = size
           /\ DOMAIN Contents = 1 .. size
           /\ \A i \in 1 .. size : Contents[i] = Nth(i)
  BY DEF Contents, TypeOK, RingInv

(* The slot written by Put is the end of the queue.                        *)
LEMMA PutAppends ==
    ASSUME TypeOK, RingInv, TypeOK', RingInv', NEW t \in Enqueuers, Put(t)
    PROVE  Contents' = Append(Contents, item[t])
  <1> USE ThreadsAssumption, BufferSizeAssumption
  <1>1. /\ tail' = (head + size) % BufferSize /\ head' = head /\ size' = size + 1
        /\ size \in 0 .. BufferSize - 1 /\ head \in 0 .. BufferSize - 1
    BY DEF Put, Advance, RingInv, TypeOK, Slots
  <1>2. buffer' = [buffer EXCEPT ![tail'] = item[t]] /\ tail' \in Slots
    BY ModRange DEF Put, Advance, Slots, TypeOK
  <1>3. /\ Contents \in Seq(Items) /\ Len(Contents) = size
        /\ Contents' \in Seq(Items) /\ Len(Contents') = size + 1
    BY <1>1, ContentsIsSeq DEF ContentsIsSeq, TypeOK, RingInv, Contents
  <1>4. item[t] \in Items
    BY DEF Put, Advance, RingInv
  <1>5. Contents'[size + 1] = item[t]
    <2>1. Contents'[size + 1] = buffer'[(head' + (size + 1) - 1) % BufferSize]
      BY <1>1 DEF Contents, Nth
    <2>2. head' + (size + 1) - 1 = head + size
      BY <1>1
    <2>3. Contents'[size + 1] = buffer'[tail']
      BY <1>1, <2>1, <2>2
    <2> QED
      BY <1>2, <2>3 DEF TypeOK
  <1>6. ASSUME NEW i \in 1 .. size PROVE Contents'[i] = Contents[i]
    <2>1. (head + i - 1) % BufferSize # tail'
      <3> DEFINE old == head + i - 1
                 new == head + size
      <3>1. /\ old \in Nat /\ new \in Nat
            /\ new < BufferSize + BufferSize /\ old < new /\ new - old <= BufferSize - 1
        BY <1>1
      <3> HIDE DEF old, new
      <3>2. old % BufferSize # new % BufferSize
        BY <3>1, ModDistinct
      <3> QED
        BY <1>1, <3>2 DEF old, new
    <2>2. (head + i - 1) % BufferSize \in Slots
      BY <1>1, ModRange DEF Slots
    <2>3. Nth(i)' = Nth(i)
      BY <1>1, <1>2, <2>1, <2>2 DEF Nth, TypeOK
    <2> QED
      BY <1>1, <2>3 DEF Contents
  <1>7. /\ Append(Contents, item[t]) \in Seq(Items)
        /\ Len(Append(Contents, item[t])) = size + 1
        /\ \A i \in 1 .. size : Append(Contents, item[t])[i] = Contents[i]
        /\ Append(Contents, item[t])[size + 1] = item[t]
    BY <1>3, <1>4, AppendProperties
  <1>8. \A i \in 1 .. size + 1 : Contents'[i] = Append(Contents, item[t])[i]
    BY <1>1, <1>5, <1>6, <1>7
  <1> QED
    BY <1>1, <1>3, <1>7, <1>8, SeqEqual

(* The slot read by Take is the front of the queue.                        *)
LEMMA TakeRemoves ==
    ASSUME TypeOK, RingInv, TypeOK', RingInv', NEW t \in Dequeuers, Take(t)
    PROVE  /\ Contents # <<>>
           /\ Head(Contents) = buffer[head]
           /\ Contents' = Tail(Contents)
  <1> USE BufferSizeAssumption
  <1>1. /\ head' = (head + 1) % BufferSize /\ size' = size - 1
        /\ buffer' = buffer
        /\ size \in 1 .. BufferSize /\ head \in 0 .. BufferSize - 1
    BY DEF Take, NextHead, First, Advance, TypeOK, Slots
  <1>2. /\ Contents \in Seq(Items) /\ Len(Contents) = size
        /\ Contents' \in Seq(Items) /\ Len(Contents') = size - 1
    BY <1>1, ContentsIsSeq DEF TypeOK, RingInv, Contents
  <1>3. Contents # <<>>
    BY <1>1, <1>2
  <1>4. Head(Contents) = buffer[head]
    <2>1. Contents[1] = Nth(1)
      BY <1>1 DEF Contents
    <2>2. head + 1 - 1 = head /\ head % BufferSize = head
      BY <1>1, ModSmall
    <2> QED
      BY <1>2, <1>3, <2>1, <2>2 DEF Nth
  <1>5. ASSUME NEW i \in 1 .. size - 1 PROVE Contents'[i] = Contents[i + 1]
    <2>1. (head' + (i - 1)) % BufferSize = (head + 1 + (i - 1)) % BufferSize
      <3>1. head + 1 \in 0 .. 2 * BufferSize - 2
        BY <1>1
      <3> QED
        BY <1>1, <3>1, ModAdvance
    <2>2. head' \in Int
      BY <1>1, ModRange
    <2>3. /\ head' + (i - 1) = head' + i - 1
          /\ head + 1 + (i - 1) = head + (i + 1) - 1
      BY <1>1, <2>2
    <2>4. Nth(i)' = Nth(i + 1)
      BY <1>1, <2>1, <2>3 DEF Nth
    <2> QED
      BY <1>1, <2>4 DEF Contents
  <1>6. /\ Tail(Contents) \in Seq(Items)
        /\ Len(Tail(Contents)) = size - 1
        /\ \A i \in 1 .. size - 1 : Tail(Contents)[i] = Contents[i + 1]
    BY <1>1, <1>2, <1>3, HeadTailProperties
  <1> QED
    BY <1>2, <1>3, <1>4, <1>5, <1>6, SeqEqual

(* The monitor is a linearizable bounded FIFO queue for any number of      *)
(* threads, any items and any buffer size: each step of a thread is one    *)
(* step of BoundedBuffer or leaves its state alone.                        *)
THEOREM Refinement == Spec => ImplementsBoundedBuffer
  <1> USE ThreadsAssumption, ItemsAssumption, BufferSizeAssumption
  <1>1. Init => Abstract!Init
    BY DEF Init, Abstract!Init, Contents, Abstract!Callers, Threads
  <1>2. /\ TypeOK /\ RingInv /\ MutexInv /\ TypeOK' /\ RingInv'
        /\ [Next]_vars
        => [Abstract!Next]_(Abstract!vars)
    <2> SUFFICES ASSUME TypeOK, RingInv, MutexInv, TypeOK', RingInv', [Next]_vars
                 PROVE  [Abstract!Next]_(Abstract!vars)
      OBVIOUS
    <2> DEFINE Status(u) == CASE pc[u] = "outside" -> "outside"
                              [] pc[u] \in {"lock", "test", "wait"} -> "before"
                              [] OTHER -> "after"
               status == [u \in Threads |-> Status(u)]
    <2> USE DEF Goto, Threads, Abstract!Callers
    <2>1. ASSUME NEW t \in Enqueuers, NEW x \in Items, CallEnqueue(t, x)
          PROVE  Abstract!CallEnqueue(t, x)
      BY <2>1 DEF CallEnqueue, Abstract!CallEnqueue, Contents, Nth, ring, TypeOK
    <2>2. ASSUME NEW t \in Dequeuers, CallDequeue(t)
          PROVE  Abstract!CallDequeue(t)
      BY <2>2 DEF CallDequeue, Abstract!CallDequeue, Contents, Nth, ring, TypeOK
    <2>3. ASSUME NEW t \in Enqueuers, Put(t)
          PROVE  Abstract!Put(t)
      <3>1. Contents' = Append(Contents, item[t])
        BY <2>3, PutAppends
      <3>2. Len(Contents) = size /\ size < BufferSize
        BY <2>3, ContentsIsSeq DEF Put, Advance, TypeOK
      <3>3. Len(Contents) # BufferSize
        BY <3>2 DEF TypeOK
      <3> QED
        BY <2>3, <3>1, <3>3 DEF Put, Advance, Abstract!Put, TypeOK
    <2>4. ASSUME NEW t \in Dequeuers, Take(t)
          PROVE  Abstract!Take(t)
      <3>1. /\ Contents # <<>> /\ Head(Contents) = buffer[head]
            /\ Contents' = Tail(Contents)
        BY <2>4, TakeRemoves
      <3> QED
        BY <2>4, <3>1 DEF Take, NextHead, First, Advance, Abstract!Take, TypeOK
    <2>5. ASSUME NEW t \in Threads, Unlock(t)
          PROVE  Abstract!Return(t)
      BY <2>5 DEF Unlock, Abstract!Return, Contents, Nth, ring, TypeOK
    <2>6. ASSUME Contents' = Contents, item' = item,
                 \A u \in Threads : Status(u)' = Status(u)
          PROVE  UNCHANGED Abstract!vars
      BY <2>6 DEF Abstract!vars
    <2>7. ASSUME NEW t \in Threads, Lock(t)
          PROVE  UNCHANGED Abstract!vars
      BY <2>6, <2>7 DEF Lock, MutexFree, Contents, Nth, ring, TypeOK
    <2>8. ASSUME NEW t \in Enqueuers, WaitNotFull(t)
          PROVE  UNCHANGED Abstract!vars
      BY <2>6, <2>8 DEF WaitNotFull, Contents, Nth, ring, TypeOK
    <2>9. ASSUME NEW t \in Dequeuers, WaitNotEmpty(t)
          PROVE  UNCHANGED Abstract!vars
      BY <2>6, <2>9 DEF WaitNotEmpty, Contents, Nth, ring, TypeOK
    <2>10. ASSUME NEW t \in Enqueuers, SignalNotEmpty(t)
           PROVE  UNCHANGED Abstract!vars
      BY <2>6, <2>10 DEF SignalNotEmpty, Contents, Nth, ring, TypeOK, MutexInv
    <2>11. ASSUME NEW t \in Dequeuers, SignalNotFull(t)
           PROVE  UNCHANGED Abstract!vars
      BY <2>6, <2>11 DEF SignalNotFull, Contents, Nth, ring, TypeOK, MutexInv
    <2>12. ASSUME NEW t \in Threads, SpuriousWake(t)
           PROVE  UNCHANGED Abstract!vars
      BY <2>6, <2>12 DEF SpuriousWake, Contents, Nth, ring, TypeOK
    <2>13. CASE UNCHANGED vars
      BY <2>6, <2>13 DEF vars, Contents, Nth
    <2> QED
      BY <2>1, <2>2, <2>3, <2>4, <2>5, <2>7, <2>8, <2>9, <2>10, <2>11, <2>12,
         <2>13 DEF Next, Enqueue, Dequeue, Abstract!Next
  <1> QED
    BY <1>1, <1>2, TypeCorrect, MutualExclusion, RingWellFormed, PTL
    DEF Spec, Abstract!Spec, ImplementsBoundedBuffer

-----------------------------------------------------------------------------
(* The test program: its threads are callers of the queue, and its history *)
(* says which value is where.                                              *)
(* Where a value can be: at a position of the ring, or at a position of    *)
(* what one consume thread has received.                                   *)
Distinct ==
    /\ \A i, j \in 1 .. size : Nth(i) = Nth(j) => i = j
    /\ \A t \in Dequeuers : \A j \in 1 .. Len(Received(t)), i \in 1 .. size :
          Received(t)[j] # Nth(i)
    /\ \A t, u \in Dequeuers : \A j \in 1 .. Len(Received(t)), k \in 1 .. Len(Received(u)) :
          Received(t)[j] = Received(u)[k] => t = u /\ j = k

(* What has been put is in the ring or received, and nothing else is.      *)
IsPut(v) == \E t \in Enqueuers, i \in 1 .. NumConsumer : v = Value(t, i) /\ HasPut(t, i)

InRing(v) == \E i \in 1 .. size : Nth(i) = v
IsReceived(v) == \E t \in Dequeuers : \E j \in 1 .. Len(Received(t)) : Received(t)[j] = v

Complete ==
    /\ \A i \in 1 .. size : IsPut(Nth(i))
    /\ \A t \in Dequeuers : \A j \in 1 .. Len(Received(t)) : IsPut(Received(t)[j])
    /\ \A t \in Enqueuers, i \in 1 .. NumConsumer :
          HasPut(t, i) => InRing(Value(t, i)) \/ IsReceived(Value(t, i))

(* Of two values of one produce thread, the first was enqueued earlier.    *)
Older(v, w) == v[1] = w[1] => v[2] < w[2]
Ordered ==
    /\ \A i, j \in 1 .. size : i < j => Older(Nth(i), Nth(j))
    /\ \A t \in Dequeuers : \A j \in 1 .. Len(Received(t)), i \in 1 .. size :
          Older(Received(t)[j], Nth(i))
    /\ ProducerOrderKept

(* Between calls and in one: what a thread has in its hand, and how many   *)
(* calls its loop has still to make.                                       *)
CallInv ==
    /\ \A t \in Enqueuers : pc[t] # "outside" => sent[t] > 0 /\ item[t] = Value(t, sent[t])
    /\ \A t \in Dequeuers : pc[t] # "outside" => Len(result[t]) < NumProducer
    /\ result \in [Dequeuers -> Seq(Items)]
    /\ \A t \in Dequeuers : Len(result[t]) <= NumProducer
    /\ \A t \in Dequeuers : pc[t] \in {"signal", "unlock"} => item[t] \in Items

(* The numbers of threads are numbers.                                     *)
LEMMA CountsAreNat == NumConsumer \in Nat /\ NumProducer \in Nat
  BY ThreadsAssumption, FS_CardinalityType DEF NumConsumer, NumProducer

(* A produce thread enqueues as many values as there are consume threads.  *)
SentOK == sent \in [Enqueuers -> 0 .. NumConsumer]

(* The loop of produce keeps its count.                                    *)
LEMMA SentBounded == TestSpec => []SentOK
  <1>1. TestInit => SentOK
    BY CountsAreNat DEF TestInit, SentOK
  <1>2. SentOK /\ [TestNext]_allVars => SentOK'
    <2> SUFFICES ASSUME SentOK, [TestNext]_allVars PROVE SentOK'
      OBVIOUS
    <2>1. ASSUME NEW t \in Enqueuers, ProduceCall(t) PROVE SentOK'
      <3>1. sent[t] \in 0 .. NumConsumer /\ sent[t] < NumConsumer
        BY <2>1 DEF ProduceCall, MoreToProduce, SentOK
      <3>2. sent[t] + 1 \in 0 .. NumConsumer
        BY <3>1, CountsAreNat
      <3>3. sent' = [sent EXCEPT ![t] = sent[t] + 1]
        BY <2>1 DEF ProduceCall
      <3> QED
        BY <3>2, <3>3 DEF SentOK
    <2>2. CASE UNCHANGED sent
      BY <2>2 DEF SentOK
    <2> QED
      BY <2>1, <2>2 DEF TestNext, allVars, Produce, Consume, ProduceStep, ConsumeCall,
         ConsumeStep, ConsumeReturn, TestSpuriousWake, MainDone
  <1> QED
    BY <1>1, <1>2, PTL DEF TestSpec

(* Every step of the test program is a step of threads that call the       *)
(* queue, so what holds of the queue whoever calls it holds here.          *)
LEMMA TestStepIsStep ==
    ASSUME SentOK, [TestNext]_allVars PROVE [Next]_vars
  <1>1. ASSUME NEW t \in Enqueuers, ProduceCall(t) PROVE Next
    <2>1. sent[t] \in 0 .. NumConsumer /\ sent[t] < NumConsumer
      BY <1>1 DEF ProduceCall, MoreToProduce, SentOK
    <2>2. sent[t] + 1 \in 1 .. NumConsumer
      BY <2>1, CountsAreNat
    <2>3. Value(t, sent[t] + 1) \in Items
      BY <2>2, TestItemsAssumption DEF TestItems
    <2>4. CallEnqueue(t, Value(t, sent[t] + 1))
      BY <1>1 DEF ProduceCall
    <2> QED
      BY <2>3, <2>4 DEF Next
  <1>2. ASSUME NEW t \in Enqueuers, ProduceStep(t) PROVE Next
    BY <1>2 DEF ProduceStep, Next, Threads
  <1>3. ASSUME NEW t \in Dequeuers, Consume(t) PROVE Next
    BY <1>3 DEF Consume, ConsumeCall, ConsumeStep, ConsumeReturn, Next, Threads
  <1>4. ASSUME NEW t \in Threads, TestSpuriousWake(t) PROVE Next
    BY <1>4 DEF TestSpuriousWake, Next
  <1>5. CASE UNCHANGED allVars
    BY <1>5 DEF allVars, vars
  <1> QED
    BY <1>1, <1>2, <1>3, <1>4, <1>5 DEF TestNext, Produce, MainDone

(* So the test program is one of the programs TSQueue is about.            *)
LEMMA TestIsSpec == TestSpec => Spec
  <1>1. TestInit => Init
    BY DEF TestInit
  <1>2. SentOK /\ [TestNext]_allVars => [Next]_vars
    BY TestStepIsStep
  <1> QED
    BY <1>1, <1>2, SentBounded, PTL DEF TestSpec, Spec

(* The calls: the thread's own value is in its hand until the call returns *)
(* and nobody calls more often than the loop of its thread says.           *)
LEMMA CallsInOrder == TestSpec => []CallInv
  <1> USE CountsAreNat, ThreadsAssumption
  <1>1. TestInit => CallInv
    BY DEF TestInit, Init, CallInv, Threads
  <1>2. TypeOK /\ MutexInv /\ RingInv /\ SentOK /\ CallInv /\ [TestNext]_allVars => CallInv'
    <2> SUFFICES ASSUME TypeOK, MutexInv, RingInv, SentOK, CallInv, [TestNext]_allVars
                 PROVE  CallInv'
      OBVIOUS
    <2> USE DEF Goto, Threads, CallInv
    <2>1. ASSUME NEW t \in Enqueuers, ProduceCall(t) PROVE CallInv'
      BY <2>1 DEF ProduceCall, CallEnqueue, TypeOK, SentOK
    <2>2. ASSUME NEW t \in Enqueuers, Put(t), UNCHANGED <<sent, result>> PROVE CallInv'
      BY <2>2 DEF Put, TypeOK
    <2>3. ASSUME NEW t \in Enqueuers, WaitNotFull(t), UNCHANGED <<sent, result>> PROVE CallInv'
      BY <2>3 DEF WaitNotFull, TypeOK
    <2>4. ASSUME NEW t \in Enqueuers, SignalNotEmpty(t), UNCHANGED <<sent, result>> PROVE CallInv'
      BY <2>4 DEF SignalNotEmpty, TypeOK, MutexInv
    <2>5. ASSUME NEW t \in Threads, Lock(t), UNCHANGED <<sent, result>> PROVE CallInv'
      BY <2>5 DEF Lock, TypeOK
    <2>6. ASSUME NEW t \in Enqueuers, Unlock(t), UNCHANGED <<sent, result>> PROVE CallInv'
      BY <2>6 DEF Unlock, TypeOK
    <2>7. ASSUME NEW t \in Dequeuers, ConsumeCall(t) PROVE CallInv'
      BY <2>7 DEF ConsumeCall, CallDequeue, TypeOK
    <2>8. ASSUME NEW t \in Dequeuers, WaitNotEmpty(t), UNCHANGED <<sent, result>> PROVE CallInv'
      BY <2>8 DEF WaitNotEmpty, TypeOK
    <2>9. ASSUME NEW t \in Dequeuers, Take(t), UNCHANGED <<sent, result>> PROVE CallInv'
      <3>1. Nth(1) = buffer[head]
        <4>1. head \in 0 .. BufferSize - 1 /\ head + 1 - 1 = head
          BY DEF TypeOK, Slots
        <4>2. head % BufferSize = head
          BY <4>1, ModSmall, BufferSizeAssumption
        <4> QED
          BY <4>1, <4>2 DEF Nth
      <3>2. buffer[head] \in Items
        <4>1. 1 \in 1 .. size
          BY <2>9 DEF Take, TypeOK
        <4> QED
          BY <3>1, <4>1 DEF RingInv
      <3> QED
        BY <2>9, <3>2 DEF Take, First, TypeOK
    <2>10. ASSUME NEW t \in Dequeuers, SignalNotFull(t), UNCHANGED <<sent, result>> PROVE CallInv'
      BY <2>10 DEF SignalNotFull, TypeOK, MutexInv
    <2>11. ASSUME NEW t \in Dequeuers, ConsumeReturn(t) PROVE CallInv'
      BY <2>11 DEF ConsumeReturn, Unlock, TypeOK
    <2>12. ASSUME NEW t \in Threads, TestSpuriousWake(t) PROVE CallInv'
      BY <2>12 DEF TestSpuriousWake, SpuriousWake, TypeOK
    <2>13. CASE UNCHANGED allVars
      BY <2>13 DEF allVars, vars
    <2> QED
      BY <2>1, <2>2, <2>3, <2>4, <2>5, <2>6, <2>7, <2>8, <2>9, <2>10, <2>11, <2>12, <2>13
      DEF TestNext, Produce, ProduceStep, Enqueue, Consume, ConsumeStep, Dequeue, MainDone
  <1> QED
    BY <1>1, <1>2, TestIsSpec, SentBounded, TypeCorrect, MutualExclusion, RingWellFormed, PTL
    DEF TestSpec

(* Put adds one value, at the position after the newest.                   *)
LEMMA PutAtEnd ==
    ASSUME TypeOK, RingInv, TypeOK', RingInv', NEW t \in Enqueuers, Put(t)
    PROVE  /\ size' = size + 1 /\ size \in Nat
           /\ Nth(size)' = item[t]
           /\ \A i \in 1 .. size : Nth(i)' = Nth(i)
  <1>1. Contents' = Append(Contents, item[t]) /\ item[t] \in Items
    BY PutAppends DEF Put, RingInv
  <1>2. size' = size + 1 /\ size \in Nat
    BY DEF Put, TypeOK
  <1>3. Contents \in Seq(Items) /\ Len(Contents) = size
    BY ContentsIsSeq
  <1>4. Contents'[size + 1] = item[t] /\ \A i \in 1 .. size : Contents'[i] = Contents[i]
    BY <1>1, <1>2, <1>3, AppendProperties
  <1>5. \A i \in 1 .. size : Contents[i] = Nth(i)
    BY DEF Contents
  <1>6. \A i \in 1 .. size + 1 : Contents'[i] = Nth(i)'
    BY <1>2 DEF Contents
  <1> QED
    BY <1>2, <1>4, <1>5, <1>6

(* Take returns the oldest value, and the others move up by one.           *)
LEMMA TakeAtFront ==
    ASSUME TypeOK, RingInv, TypeOK', RingInv', NEW t \in Dequeuers, Take(t)
    PROVE  /\ size' = size - 1 /\ size \in Nat \ {0}
           /\ item'[t] = Nth(1)
           /\ \A i \in 1 .. size - 1 : Nth(i)' = Nth(i + 1)
  <1>1. Contents # <<>> /\ Head(Contents) = buffer[head] /\ Contents' = Tail(Contents)
    BY TakeRemoves
  <1>2. size' = size - 1 /\ size \in Nat \ {0} /\ item'[t] = buffer[head]
    BY DEF Take, First, TypeOK, Threads
  <1>3. Contents \in Seq(Items) /\ Len(Contents) = size
    BY ContentsIsSeq
  <1>4. /\ Contents[1] = buffer[head]
        /\ \A i \in 1 .. size - 1 : Contents'[i] = Contents[i + 1]
    BY <1>1, <1>2, <1>3, HeadTailProperties
  <1>5. \A i \in 1 .. size : Contents[i] = Nth(i)
    BY DEF Contents
  <1>6. \A i \in 1 .. size - 1 : Contents'[i] = Nth(i)'
    BY <1>2 DEF Contents
  <1> QED
    BY <1>2, <1>4, <1>5, <1>6

(* The places of values: what a step leaves alone, what Put adds and what  *)
(* Take moves.                                                             *)
PutKept == \A t \in Enqueuers, i \in 1 .. NumConsumer : HasPut(t, i)' = HasPut(t, i)

ReceivedKept == \A t \in Dequeuers : Received(t)' = Received(t)

RingKept == size' = size /\ \A i \in 1 .. size : Nth(i)' = Nth(i)

PlacesInv == Distinct /\ Complete /\ Ordered

(* A step that changes none of this disturbs no place.                     *)
LEMMA QuietKept ==
    ASSUME PutKept, ReceivedKept, RingKept, PlacesInv
    PROVE  PlacesInv'
  <1>1. Distinct'
    BY DEF PutKept, ReceivedKept, RingKept, PlacesInv, Distinct
  <1>2. \A v : IsPut(v)' = IsPut(v) /\ InRing(v)' = InRing(v) /\ IsReceived(v)' = IsReceived(v)
    BY DEF PutKept, ReceivedKept, RingKept, IsPut, InRing, IsReceived
  <1>3. Complete'
    BY <1>2 DEF PutKept, ReceivedKept, RingKept, PlacesInv, Complete
  <1>4. Ordered'
    BY DEF ReceivedKept, RingKept, PlacesInv, Ordered, Older, ProducerOrderKept
  <1> QED
    BY <1>1, <1>3, <1>4 DEF PlacesInv

(* The value Put stores was in no place before, and is newer than all.     *)
LEMMA PutPlaces ==
    ASSUME TypeOK, RingInv, TypeOK', RingInv', SentOK, CallInv, PlacesInv, MutexInv,
           NEW t \in Enqueuers, Put(t), UNCHANGED <<sent, result>>
    PROVE  PlacesInv'
  <1> USE CountsAreNat
  <1>0. PICK v : v = item[t]
    OBVIOUS
  <1>1. /\ size' = size + 1 /\ size \in Nat
        /\ Nth(size)' = v
        /\ \A i \in 1 .. size : Nth(i)' = Nth(i)
    BY <1>0, PutAtEnd
  <1>2. v = Value(t, sent[t]) /\ sent[t] \in 1 .. NumConsumer /\ pc[t] = "test"
        /\ pc' = [pc EXCEPT ![t] = "signal"]
    BY <1>0 DEF CallInv, SentOK, Put, Goto
  <1>3. /\ ~ HasPut(t, sent[t]) /\ HasPut(t, sent[t])'
        /\ \A u \in Enqueuers, i \in 1 .. NumConsumer :
              <<u, i>> # <<t, sent[t]>> => HasPut(u, i)' = HasPut(u, i)
        /\ \A i \in 1 .. NumConsumer : HasPut(t, i) => i < sent[t]
    BY <1>2 DEF HasPut, TypeOK, SentOK, Threads
  <1>4. ReceivedKept
    BY <1>2, ThreadsAssumption DEF ReceivedKept, Received, TypeOK, Threads, Put
  <1>5. ~ IsPut(v)
    BY <1>2, <1>3 DEF IsPut, Value
  <1>6. \A w : IsPut(w)' <=> IsPut(w) \/ w = v
    BY <1>2, <1>3 DEF IsPut, Value
  <1>7. (\A w : IsReceived(w)' = IsReceived(w)) /\ (\A w : InRing(w)' <=> InRing(w) \/ w = v)
    BY <1>1, <1>4 DEF ReceivedKept, IsReceived, InRing
  <1>8. \A i \in 1 .. size' : i \in 1 .. size \/ i = size + 1
    BY <1>1
  <1>9. /\ \A i \in 1 .. size : Nth(i) # v
        /\ \A u \in Dequeuers : \A j \in 1 .. Len(Received(u)) : Received(u)[j] # v
    BY <1>5 DEF PlacesInv, Complete
  <1>10. Distinct'
    BY <1>1, <1>4, <1>8, <1>9 DEF PlacesInv, Distinct, ReceivedKept
  <1>11. Complete'
    <2>1. \A i \in 1 .. size' : IsPut(Nth(i))'
      BY <1>1, <1>6, <1>8 DEF PlacesInv, Complete, IsPut
    <2>2. \A u \in Dequeuers : \A j \in 1 .. Len(Received(u)') : IsPut(Received(u)[j])'
      BY <1>4, <1>6 DEF PlacesInv, Complete, ReceivedKept, IsPut
    <2>3. ASSUME NEW u \in Enqueuers, NEW i \in 1 .. NumConsumer, HasPut(u, i)'
          PROVE  InRing(Value(u, i))' \/ IsReceived(Value(u, i))'
      BY <1>2, <1>3, <1>7, <2>3 DEF PlacesInv, Complete, Value
    <2> QED
      BY <2>1, <2>2, <2>3 DEF Complete
  <1>12. ASSUME NEW w, IsPut(w) PROVE Older(w, v)
    BY <1>2, <1>3, <1>12 DEF IsPut, Older, Value
  <1>13. Ordered'
    <2>1. ASSUME NEW i \in 1 .. size', NEW j \in 1 .. size', i < j
          PROVE  Older(Nth(i)', Nth(j)')
      <3>1. CASE j = size + 1
        BY <1>1, <1>12, <2>1, <3>1 DEF PlacesInv, Complete
      <3>2. CASE j # size + 1
        BY <1>1, <2>1, <3>2 DEF PlacesInv, Ordered
      <3> QED
        BY <3>1, <3>2
    <2>2. ASSUME NEW u \in Dequeuers, NEW j \in 1 .. Len(Received(u)'), NEW i \in 1 .. size'
          PROVE  Older(Received(u)'[j], Nth(i)')
      BY <1>1, <1>4, <1>8, <1>12 DEF PlacesInv, Complete, Ordered, ReceivedKept
    <2>3. ProducerOrderKept'
      BY <1>4 DEF PlacesInv, Ordered, ProducerOrderKept, ReceivedKept
    <2> QED
      BY <2>1, <2>2, <2>3 DEF Ordered, Older
  <1> QED
    BY <1>10, <1>11, <1>13 DEF PlacesInv

(* The value Take returns leaves the ring as it enters what was received,  *)
(* and it is older than all that stay.                                     *)
LEMMA TakePlaces ==
    ASSUME TypeOK, RingInv, TypeOK', RingInv', SentOK, CallInv, PlacesInv, MutexInv,
           NEW t \in Dequeuers, Take(t), UNCHANGED <<sent, result>>
    PROVE  PlacesInv'
  <1> USE CountsAreNat
  <1>0. PICK v, n : v = Nth(1) /\ n = Len(Received(t))
    OBVIOUS
  <1>1. /\ size' = size - 1 /\ size \in Nat \ {0}
        /\ item'[t] = v
        /\ \A i \in 1 .. size - 1 : Nth(i)' = Nth(i + 1)
    BY <1>0, TakeAtFront
  <1>2. PutKept
    BY ThreadsAssumption DEF PutKept, HasPut, Take, Goto, TypeOK, Threads
  <1>3. \A u \in Dequeuers \ {t} : Received(u)' = Received(u)
    BY DEF Received, Take, Goto, TypeOK, Threads
  <1>4. Received(t) = result[t] /\ Received(t)' = Append(result[t], v)
    BY <1>1 DEF Received, Take, Goto, TypeOK, Threads
  <1>5. /\ n \in Nat /\ Len(Received(t)') = n + 1
        /\ Received(t)'[n + 1] = v
        /\ \A j \in 1 .. n : Received(t)'[j] = Received(t)[j]
    <2>1. result[t] \in Seq(Items) /\ v \in Items
      BY <1>0, <1>1 DEF CallInv, RingInv
    <2> QED
      BY <1>0, <1>4, <2>1, AppendProperties, LenProperties
  <1>6. /\ \A i \in 1 .. size' : /\ i + 1 \in 1 .. size /\ i + 1 # 1 /\ 1 < i + 1
                                 /\ i \in 1 .. size - 1
        /\ \A j \in 1 .. n + 1 : j \in 1 .. n \/ j = n + 1
        /\ 1 \in 1 .. size /\ n + 1 \in 1 .. n + 1 /\ 1 .. n \subseteq 1 .. n + 1
        /\ n + 1 \notin 1 .. n
    BY <1>1, <1>5
  <1>7. ASSUME NEW u \in Dequeuers, NEW j \in 1 .. Len(Received(u)')
        PROVE  \/ u = t /\ j = n + 1 /\ Received(u)'[j] = v
               \/ j \in 1 .. Len(Received(u)) /\ Received(u)'[j] = Received(u)[j]
    BY <1>0, <1>3, <1>5, <1>6
  <1>8. Distinct'
    <2>1. \A i, j \in 1 .. size' : Nth(i)' = Nth(j)' => i = j
      <3> SUFFICES ASSUME NEW i \in 1 .. size', NEW j \in 1 .. size', Nth(i)' = Nth(j)' PROVE i = j
        OBVIOUS
      <3>1. Nth(i + 1) = Nth(j + 1) /\ i + 1 \in 1 .. size /\ j + 1 \in 1 .. size
        BY <1>1, <1>6
      <3>2. i + 1 = j + 1
        BY <3>1 DEF PlacesInv, Distinct
      <3> QED
        BY <3>2
    <2>2. ASSUME NEW u \in Dequeuers, NEW j \in 1 .. Len(Received(u)'), NEW i \in 1 .. size'
          PROVE  Received(u)'[j] # Nth(i)'
      <3>1. Nth(i)' = Nth(i + 1) /\ i + 1 \in 1 .. size /\ i + 1 # 1 /\ 1 \in 1 .. size
        BY <1>1, <1>6
      <3>2. Nth(i + 1) # v
        BY <1>0, <3>1 DEF PlacesInv, Distinct
      <3> QED
        BY <1>7, <3>1, <3>2 DEF PlacesInv, Distinct
    <2>3. ASSUME NEW u \in Dequeuers, NEW w \in Dequeuers,
                 NEW j \in 1 .. Len(Received(u)'), NEW k \in 1 .. Len(Received(w)'),
                 Received(u)'[j] = Received(w)'[k]
          PROVE  u = w /\ j = k
      <3>1. \A x \in Dequeuers : \A i \in 1 .. Len(Received(x)) : Received(x)[i] # v
        BY <1>0, <1>6 DEF PlacesInv, Distinct
      <3>2. \/ u = t /\ j = n + 1 /\ Received(u)'[j] = v
            \/ j \in 1 .. Len(Received(u)) /\ Received(u)'[j] = Received(u)[j]
        BY <1>7
      <3>3. \/ w = t /\ k = n + 1 /\ Received(w)'[k] = v
            \/ k \in 1 .. Len(Received(w)) /\ Received(w)'[k] = Received(w)[k]
        BY <1>7
      <3> QED
        BY <2>3, <3>1, <3>2, <3>3 DEF PlacesInv, Distinct
    <2> QED
      BY <2>1, <2>2, <2>3 DEF Distinct
  <1>9. \A w : IsPut(w)' <=> IsPut(w)
    BY <1>2 DEF IsPut, PutKept
  <1>10. /\ \A w : InRing(w) => InRing(w)' \/ w = v
         /\ \A w : IsReceived(w)' <=> IsReceived(w) \/ w = v
    <2>1. ASSUME NEW w, InRing(w) PROVE InRing(w)' \/ w = v
      <3>1. PICK i \in 1 .. size : Nth(i) = w
        BY <2>1 DEF InRing
      <3>2. i # 1 => i - 1 \in 1 .. size - 1 /\ i - 1 + 1 = i
        BY <1>1
      <3> QED
        BY <1>0, <1>1, <3>1, <3>2 DEF InRing
    <2>2. ASSUME NEW w, IsReceived(w)' PROVE IsReceived(w) \/ w = v
      BY <1>7, <2>2 DEF IsReceived
    <2>3. ASSUME NEW w, IsReceived(w) PROVE IsReceived(w)'
      <3>0. PICK u \in Dequeuers : \E j \in 1 .. Len(Received(u)) : Received(u)[j] = w
        BY <2>3 DEF IsReceived
      <3>1. PICK j \in 1 .. Len(Received(u)) : Received(u)[j] = w
        BY <3>0
      <3>2. j \in 1 .. Len(Received(u)') /\ Received(u)'[j] = w
        BY <1>0, <1>3, <1>5, <1>6, <3>1
      <3> QED
        BY <3>2 DEF IsReceived
    <2>4. IsReceived(v)'
      BY <1>5, <1>6 DEF IsReceived
    <2> QED
      BY <2>1, <2>2, <2>3, <2>4
  <1>11. Complete'
    <2>1. \A i \in 1 .. size' : IsPut(Nth(i))'
      BY <1>1, <1>6, <1>9 DEF PlacesInv, Complete, IsPut
    <2>2. ASSUME NEW u \in Dequeuers, NEW j \in 1 .. Len(Received(u)')
          PROVE  IsPut(Received(u)[j])'
      <3>1. IsPut(v) /\ \A k \in 1 .. Len(Received(u)) : IsPut(Received(u)[k])
        BY <1>0, <1>6 DEF PlacesInv, Complete
      <3>2. PICK w : w = Received(u)'[j]
        OBVIOUS
      <3>3. IsPut(w)
        BY <1>7, <3>1, <3>2
      <3>4. IsPut(w)'
        BY <1>9, <3>3
      <3> QED
        BY <3>2, <3>4 DEF IsPut
    <2>3. ASSUME NEW u \in Enqueuers, NEW i \in 1 .. NumConsumer, HasPut(u, i)'
          PROVE  InRing(Value(u, i))' \/ IsReceived(Value(u, i))'
      BY <1>2, <1>10, <2>3 DEF PlacesInv, Complete, PutKept
    <2> QED
      BY <2>1, <2>2, <2>3 DEF Complete
  <1>12. Ordered'
    <2>1. ASSUME NEW i \in 1 .. size', NEW j \in 1 .. size', i < j
          PROVE  Older(Nth(i)', Nth(j)')
      <3>1. i + 1 < j + 1 /\ i + 1 \in 1 .. size /\ j + 1 \in 1 .. size
        BY <1>6, <2>1
      <3> QED
        BY <1>1, <1>6, <3>1 DEF PlacesInv, Ordered
    <2>2. ASSUME NEW u \in Dequeuers, NEW j \in 1 .. Len(Received(u)'), NEW i \in 1 .. size'
          PROVE  Older(Received(u)'[j], Nth(i)')
      <3>1. Nth(i)' = Nth(i + 1) /\ i + 1 \in 1 .. size /\ 1 < i + 1 /\ 1 \in 1 .. size
        BY <1>1, <1>6
      <3>2. Older(v, Nth(i + 1))
        BY <1>0, <3>1 DEF PlacesInv, Ordered
      <3> QED
        BY <1>7, <3>1, <3>2 DEF PlacesInv, Ordered
    <2>3. ASSUME NEW u \in Dequeuers, NEW j \in 1 .. Len(Received(u)'),
                 NEW k \in 1 .. Len(Received(u)'), j < k
          PROVE  Older(Received(u)'[j], Received(u)'[k])
      <3>1. CASE u = t /\ k = n + 1
        <4>1. j \in 1 .. n /\ Received(u)'[k] = v /\ Received(u)'[j] = Received(u)[j]
          BY <1>5, <2>3, <3>1
        <4>2. Older(Received(u)[j], v)
          BY <1>0, <1>6, <3>1, <4>1 DEF PlacesInv, Ordered
        <4> QED
          BY <4>1, <4>2
      <3>2. CASE ~ (u = t /\ k = n + 1)
        <4>1. k \in 1 .. Len(Received(u)) /\ Received(u)'[k] = Received(u)[k]
          BY <1>7, <3>2
        <4>2. j \in 1 .. Len(Received(u)) /\ Received(u)'[j] = Received(u)[j]
          <5>1. u = t => k <= n
            BY <1>0, <4>1
          <5>2. ~ (u = t /\ j = n + 1)
            BY <1>5, <2>3, <5>1
          <5> QED
            BY <1>7, <5>2
        <4> QED
          BY <2>3, <4>1, <4>2 DEF PlacesInv, Ordered, ProducerOrderKept, Older
      <3> QED
        BY <3>1, <3>2
    <2>4. ProducerOrderKept'
      BY <2>3 DEF ProducerOrderKept, Older
    <2> QED
      BY <2>1, <2>2, <2>4 DEF Ordered, Older
  <1> QED
    BY <1>8, <1>11, <1>12 DEF PlacesInv

(* The inductive invariant of the test program.                            *)
LEMMA PlacesKept == TestSpec => []PlacesInv
  <1> USE CountsAreNat, ThreadsAssumption
  <1>1. TestInit => PlacesInv
    BY DEF TestInit, Init, PlacesInv, Distinct, Complete, Ordered, Older, ProducerOrderKept,
           Received, HasPut, Threads, IsPut, InRing, IsReceived
  <1>2. /\ TypeOK /\ MutexInv /\ RingInv /\ SentOK /\ CallInv /\ PlacesInv /\ TypeOK' /\ RingInv'
        /\ [TestNext]_allVars
        => PlacesInv'
    <2> SUFFICES ASSUME TypeOK, MutexInv, RingInv, SentOK, CallInv, PlacesInv, TypeOK', RingInv',
                        [TestNext]_allVars
                 PROVE  PlacesInv'
      OBVIOUS
    <2> USE QuietKept DEF Goto, Threads, PutKept, ReceivedKept, RingKept, Nth
    <2>1. ASSUME NEW t \in Enqueuers, ProduceCall(t) PROVE PlacesInv'
      <3>1. PutKept
        BY <2>1 DEF ProduceCall, CallEnqueue, TypeOK, SentOK, HasPut
      <3>2. ReceivedKept
        BY <2>1 DEF ProduceCall, CallEnqueue, TypeOK, Received
      <3> QED
        BY <2>1, <3>1, <3>2 DEF ProduceCall, CallEnqueue, ring
    <2>2. ASSUME NEW t \in Enqueuers, Put(t), UNCHANGED <<sent, result>> PROVE PlacesInv'
      BY <2>2, PutPlaces
    <2>3. ASSUME UNCHANGED <<ring, sent, result, item>>,
                 \A u \in Dequeuers :
                    pc'[u] \in {"signal", "unlock"} <=> pc[u] \in {"signal", "unlock"},
                 \A u \in Enqueuers :
                    pc'[u] \in {"signal", "unlock", "outside"}
                       <=> pc[u] \in {"signal", "unlock", "outside"}
          PROVE  PlacesInv'
      <3>1. PutKept
        BY <2>3 DEF HasPut
      <3>2. ReceivedKept
        BY <2>3 DEF Received
      <3> QED
        BY <2>3, <3>1, <3>2 DEF ring
    <2>4. ASSUME NEW t \in Enqueuers, WaitNotFull(t), UNCHANGED <<sent, result>> PROVE PlacesInv'
      BY <2>3, <2>4 DEF WaitNotFull, TypeOK
    <2>5. ASSUME NEW t \in Enqueuers, SignalNotEmpty(t), UNCHANGED <<sent, result>> PROVE PlacesInv'
      BY <2>3, <2>5 DEF SignalNotEmpty, TypeOK, MutexInv
    <2>6. ASSUME NEW t \in Threads, Lock(t), UNCHANGED <<sent, result>> PROVE PlacesInv'
      BY <2>3, <2>6 DEF Lock, TypeOK
    <2>7. ASSUME NEW t \in Enqueuers, Unlock(t), UNCHANGED <<sent, result>> PROVE PlacesInv'
      <3>1. PutKept
        BY <2>7 DEF Unlock, TypeOK, SentOK, HasPut
      <3>2. ReceivedKept
        BY <2>7 DEF Unlock, TypeOK, Received
      <3> QED
        BY <2>7, <3>1, <3>2 DEF Unlock, ring
    <2>8. ASSUME NEW t \in Dequeuers, ConsumeCall(t) PROVE PlacesInv'
      <3>1. PutKept
        BY <2>8 DEF ConsumeCall, CallDequeue, TypeOK, SentOK, HasPut
      <3>2. ReceivedKept
        BY <2>8 DEF ConsumeCall, CallDequeue, TypeOK, Received
      <3> QED
        BY <2>8, <3>1, <3>2 DEF ConsumeCall, CallDequeue, ring
    <2>9. ASSUME NEW t \in Dequeuers, WaitNotEmpty(t), UNCHANGED <<sent, result>> PROVE PlacesInv'
      BY <2>3, <2>9 DEF WaitNotEmpty, TypeOK
    <2>10. ASSUME NEW t \in Dequeuers, Take(t), UNCHANGED <<sent, result>> PROVE PlacesInv'
      BY <2>10, TakePlaces
    <2>11. ASSUME NEW t \in Dequeuers, SignalNotFull(t), UNCHANGED <<sent, result>> PROVE PlacesInv'
      BY <2>3, <2>11 DEF SignalNotFull, TypeOK, MutexInv
    <2>12. ASSUME NEW t \in Dequeuers, ConsumeReturn(t) PROVE PlacesInv'
      <3>1. PutKept
        BY <2>12 DEF ConsumeReturn, Unlock, TypeOK, SentOK, HasPut
      <3>2. ReceivedKept
        BY <2>12 DEF ConsumeReturn, Unlock, TypeOK, Received, CallInv
      <3> QED
        BY <2>12, <3>1, <3>2 DEF ConsumeReturn, Unlock, ring
    <2>13. ASSUME NEW t \in Threads, TestSpuriousWake(t) PROVE PlacesInv'
      BY <2>3, <2>13 DEF TestSpuriousWake, SpuriousWake, TypeOK
    <2>14. CASE UNCHANGED allVars
      BY <2>3, <2>14 DEF allVars, vars, ring
    <2> QED
      BY <2>1, <2>2, <2>4, <2>5, <2>6, <2>7, <2>8, <2>9, <2>10, <2>11, <2>12, <2>13, <2>14
      DEF TestNext, Produce, ProduceStep, Enqueue, Consume, ConsumeStep, Dequeue, MainDone
  <1> QED
    BY <1>1, <1>2, TestIsSpec, SentBounded, CallsInOrder, TypeCorrect, MutualExclusion,
       RingWellFormed, PTL DEF TestSpec

(* The bound on spurious returns is kept.                                  *)
SpuriousOK == spurious \in 0 .. MaxSpurious

LEMMA SpuriousBounded == TestSpec => []SpuriousOK
  <1>1. TestInit => SpuriousOK
    BY MaxSpuriousAssumption DEF TestInit, SpuriousOK
  <1>2. SpuriousOK /\ [TestNext]_allVars => SpuriousOK'
    BY MaxSpuriousAssumption DEF SpuriousOK, TestNext, allVars, Produce, ProduceCall, ProduceStep,
       Consume, ConsumeCall, ConsumeStep, ConsumeReturn, TestSpuriousWake, MainDone
  <1> QED
    BY <1>1, <1>2, PTL DEF TestSpec

(* A value that has been put is in one place, and any other in none: the   *)
(* positions that hold it in the ring and in what was received, counted.   *)
LEMMA CopiesCounted ==
    ASSUME PlacesInv, CallInv, TypeOK, NEW t \in Enqueuers, NEW i \in 1 .. NumConsumer
    PROVE  Copies(Value(t, i)) = (IF HasPut(t, i) THEN 1 ELSE 0)
  <1> USE CountsAreNat
  <1> DEFINE v == Value(t, i)
             InR == {k \in 1 .. size : Nth(k) = v}
             InC == {x \in Dequeuers \X (1 .. NumProducer) :
                       x[2] <= Len(Received(x[1])) /\ Received(x[1])[x[2]] = v}
  <1>1. Copies(v) = Cardinality(InR) + Cardinality(InC)
    BY DEF Copies
  <1>2. \A u \in Dequeuers : Len(Received(u)) \in 0 .. NumProducer
    BY DEF Received, CallInv
  <1>3. Cardinality({}) = 0 /\ \A x : Cardinality({x}) = 1
    BY FS_EmptySet, FS_Singleton
  <1>4. IsPut(v) <=> HasPut(t, i)
    BY DEF IsPut, Value
  <1>5. CASE ~ HasPut(t, i)
    <2>1. InR = {} /\ InC = {}
      BY <1>2, <1>4, <1>5 DEF PlacesInv, Complete
    <2> HIDE DEF InR, InC
    <2> QED
      BY <1>1, <1>3, <1>5, <2>1
  <1>6. CASE HasPut(t, i) /\ InRing(v)
    <2>1. PICK k \in 1 .. size : Nth(k) = v
      BY <1>6 DEF InRing
    <2>2. InR = {k} /\ InC = {}
      BY <1>2, <2>1 DEF PlacesInv, Distinct
    <2>3. Cardinality(InR) = 1 /\ Cardinality(InC) = 0
      BY <1>3, <2>2, Zenon
    <2> HIDE DEF InR, InC
    <2> QED
      BY <1>1, <1>6, <2>3
  <1>7. CASE HasPut(t, i) /\ ~ InRing(v)
    <2>1. IsReceived(v)
      BY <1>7 DEF PlacesInv, Complete
    <2>2. PICK u \in Dequeuers : \E j \in 1 .. Len(Received(u)) : Received(u)[j] = v
      BY <2>1 DEF IsReceived
    <2>3. PICK j \in 1 .. Len(Received(u)) : Received(u)[j] = v
      BY <2>2
    <2>4. InR = {}
      BY <1>7 DEF InRing
    <2>5. <<u, j>> \in InC
      BY <1>2, <2>3
    <2>6. ASSUME NEW x \in InC PROVE x = <<u, j>>
      <3>1. PICK w \in Dequeuers, k \in 1 .. NumProducer : x = <<w, k>>
        OBVIOUS
      <3>2. k \in 1 .. Len(Received(w)) /\ Received(w)[k] = v
        BY <1>2, <3>1
      <3> QED
        BY <2>3, <3>1, <3>2 DEF PlacesInv, Distinct
    <2>7. InC = {<<u, j>>}
      BY <2>5, <2>6
    <2>8. Cardinality(InR) = 0 /\ Cardinality(InC) = 1
      BY <1>3, <2>4, <2>7, Zenon
    <2> HIDE DEF InR, InC
    <2> QED
      BY <1>1, <1>7, <2>8
  <1> QED
    BY <1>5, <1>6, <1>7

(* No value is lost, duplicated or made up, for any number of produce and  *)
(* consume threads and any buffer size, spurious returns included.         *)
THEOREM ExactlyOnceCorrect == TestSpec => []ExactlyOnce
  <1>1. TypeOK /\ SentOK /\ CallInv /\ SpuriousOK /\ PlacesInv => ExactlyOnce
    <2> SUFFICES ASSUME TypeOK, SentOK, CallInv, SpuriousOK, PlacesInv,
                        result \in [Dequeuers -> Seq(Items)]
                 PROVE  ExactlyOnce
      BY DEF CallInv
    <2>1. TestTypeOK
      BY DEF TestTypeOK, SentOK, SpuriousOK
    <2> QED
      BY <2>1, CopiesCounted DEF ExactlyOnce
  <1> QED
    BY <1>1, TestIsSpec, TypeCorrect, SentBounded, CallsInOrder, SpuriousBounded, PlacesKept, PTL

(* Each consume thread receives one producer's values in the order they    *)
(* were enqueued, whichever threads it takes turns with.                   *)
THEOREM ProducerOrderCorrect == TestSpec => []ProducerOrderKept
  <1>1. PlacesInv => ProducerOrderKept
    BY DEF PlacesInv, Ordered
  <1> QED
    BY <1>1, PlacesKept, PTL
=============================================================================
