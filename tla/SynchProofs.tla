---------------------------- MODULE SynchProofs ----------------------------
(***************************************************************************)
(* What Synch guarantees for any set of threads, and SynchList for any     *)
(* threads, any items and any number of calls.                             *)
(***************************************************************************)
EXTENDS SynchList, FiniteSetTheorems, TLAPS

-----------------------------------------------------------------------------
(* Queues without repetition, seen as sets.                                *)

(* Append adds one element.                                                *)
LEMMA AppendToSet ==
    ASSUME NEW S, NEW q \in Seq(S), NEW x \in S
    PROVE  /\ ToSet(Append(q, x)) = ToSet(q) \cup {x}
           /\ IsInjective(q) /\ x \notin ToSet(q) => IsInjective(Append(q, x))
  <1>1. /\ DOMAIN Append(q, x) = 1 .. Len(q) + 1
        /\ Append(q, x)[Len(q) + 1] = x
        /\ DOMAIN q = 1 .. Len(q)
        /\ \A i \in 1 .. Len(q) : Append(q, x)[i] = q[i]
    OBVIOUS
  <1>2. ToSet(Append(q, x)) = ToSet(q) \cup {x}
    BY <1>1 DEF ToSet
  <1>3. IsInjective(q) /\ x \notin ToSet(q) => IsInjective(Append(q, x))
    BY <1>1 DEF ToSet, IsInjective
  <1> QED
    BY <1>2, <1>3

(* RemoveFront takes the first element away and no other.                  *)
LEMMA TailToSet ==
    ASSUME NEW S, NEW q \in Seq(S), q # <<>>, IsInjective(q)
    PROVE  /\ Head(q) \in ToSet(q)
           /\ ToSet(Tail(q)) = ToSet(q) \ {Head(q)}
           /\ IsInjective(Tail(q))
           /\ Tail(q) \in Seq(S)
  <1>1. /\ Head(q) = q[1]
        /\ DOMAIN q = 1 .. Len(q)
        /\ Len(q) \in Nat \ {0}
        /\ DOMAIN Tail(q) = 1 .. Len(q) - 1
        /\ \A i \in 1 .. Len(q) - 1 : Tail(q)[i] = q[i + 1]
        /\ Tail(q) \in Seq(S)
    OBVIOUS
  <1>2. Head(q) \in ToSet(q)
    BY <1>1 DEF ToSet
  <1>3. IsInjective(Tail(q))
    BY <1>1 DEF IsInjective
  <1>4. ASSUME NEW x \in ToSet(Tail(q))
        PROVE  x \in ToSet(q) \ {Head(q)}
    <2>1. PICK i \in 1 .. Len(q) - 1 : x = q[i + 1]
      BY <1>1 DEF ToSet
    <2> QED
      BY <1>1, <2>1 DEF ToSet, IsInjective
  <1>5. ASSUME NEW x \in ToSet(q) \ {Head(q)}
        PROVE  x \in ToSet(Tail(q))
    <2>1. PICK i \in 1 .. Len(q) : x = q[i]
      BY <1>1 DEF ToSet
    <2>2. i - 1 \in 1 .. Len(q) - 1 /\ Tail(q)[i - 1] = q[i]
      BY <1>1, <2>1
    <2> QED
      BY <1>1, <2>1, <2>2 DEF ToSet
  <1> QED
    BY <1>1, <1>2, <1>3, <1>4, <1>5

(* The queue that V leaves, whether or not a thread was in it.             *)
LEMMA WithoutFrontToSet ==
    ASSUME TypeOK, NEW s \in Semaphores, IsInjective(queue[s])
    PROVE  /\ FrontOf(s) \subseteq ToSet(queue[s])
           /\ ToSet(WithoutFront(queue[s])) = ToSet(queue[s]) \ FrontOf(s)
           /\ IsInjective(WithoutFront(queue[s]))
           /\ WithoutFront(queue[s]) \in Seq(Threads)
  <1>1. queue[s] \in Seq(Threads)
    BY DEF TypeOK
  <1>2. CASE queue[s] = <<>>
    BY <1>1, <1>2 DEF FrontOf, WithoutFront
  <1>3. CASE queue[s] # <<>>
    BY <1>1, <1>3, TailToSet DEF FrontOf, WithoutFront
  <1> QED
    BY <1>2, <1>3

-----------------------------------------------------------------------------
(* The queues of the semaphores.                                           *)

(* A thread is in P on one semaphore at a time.                            *)
LEMMA InPUnique ==
    ASSUME NEW t \in Threads, NEW r \in Semaphores, NEW s \in Semaphores,
           InP(t, r), InP(t, s)
    PROVE  r = s
  BY SynchAssumption DEF InP

(* A thread that is not in P is not blocked, and nobody is queued on its   *)
(* semaphore.                                                              *)
LEMMA OutsideP ==
    ASSUME TypeOK, QueueInv, NEW t \in Threads,
           pc[t] \notin {"acquire", "reacquire", "sleep"}
    PROVE  t \notin blocked /\ queue[t] = <<>>
  <1>1. t \notin blocked
    BY DEF QueueInv, InP
  <1>2. t \in Semaphores /\ queue[t] \in Seq(Threads)
    BY DEF Semaphores, TypeOK
  <1>3. ToSet(queue[t]) = {}
    BY <1>2, SynchAssumption DEF QueueInv, InP, TypeOK
  <1>4. queue[t] = <<>>
    <2>1. Len(queue[t]) \in Nat /\ DOMAIN queue[t] = 1 .. Len(queue[t])
      BY <1>2
    <2>2. \A i \in DOMAIN queue[t] : queue[t][i] \in ToSet(queue[t])
      BY DEF ToSet
    <2>3. 1 \notin 1 .. Len(queue[t])
      BY <1>3, <2>1, <2>2
    <2>4. Len(queue[t]) = 0
      BY <2>1, <2>3
    <2> QED
      BY <1>2, <2>4
  <1> QED
    BY <1>1, <1>4

(* A step that only moves a thread that is not blocked.                    *)
LEMMA QueueMove ==
    ASSUME TypeOK, QueueInv, NEW t \in Threads \ blocked, NEW l,
           pc' = [pc EXCEPT ![t] = l], UNCHANGED <<queue, blocked>>
    PROVE  QueueInv'
  <1>1. blocked \subseteq Threads /\ pc \in [Threads -> Locations]
    BY DEF TypeOK
  <1>2. \A u \in blocked, s \in Semaphores : InP(u, s)' <=> InP(u, s)
    BY <1>1 DEF InP
  <1> QED
    BY <1>2 DEF QueueInv

(* A thread that goes to sleep in P.                                       *)
LEMMA QueueSleep ==
    ASSUME TypeOK, QueueInv, NEW t \in Threads \ blocked, NEW s \in Semaphores,
           InP(t, s), pc' = pc,
           queue' = [queue EXCEPT ![s] = Append(@, t)], blocked' = blocked \cup {t}
    PROVE  QueueInv'
  <1>1. /\ queue \in [Semaphores -> Seq(Threads)]
        /\ queue'[s] = Append(queue[s], t)
        /\ \A r \in Semaphores \ {s} : queue'[r] = queue[r]
    BY DEF TypeOK
  <1>2. \A u, r : InP(u, r)' <=> InP(u, r)
    BY DEF InP
  <1>3. ASSUME NEW r \in Semaphores
        PROVE  ToSet(queue'[r]) = {u \in blocked' : InP(u, r)'} /\ IsInjective(queue'[r])
    <2>1. CASE r = s
      <3>1. t \notin ToSet(queue[s]) /\ IsInjective(queue[s])
        BY DEF QueueInv
      <3>2. ToSet(queue'[s]) = ToSet(queue[s]) \cup {t} /\ IsInjective(queue'[s])
        BY <1>1, <3>1, AppendToSet
      <3> QED
        BY <1>2, <2>1, <3>2 DEF QueueInv
    <2>2. CASE r # s
      <3>1. ~InP(t, r)
        BY <2>2, InPUnique
      <3> QED
        BY <1>1, <1>2, <2>2, <3>1 DEF QueueInv
    <2> QED
      BY <2>1, <2>2
  <1>4. \A u \in blocked' : \E r \in Semaphores : InP(u, r)'
    BY <1>2 DEF QueueInv
  <1> QED
    BY <1>3, <1>4 DEF QueueInv

(* A V by a thread that is not blocked.                                    *)
LEMMA QueueWake ==
    ASSUME TypeOK, QueueInv, NEW t \in Threads \ blocked, NEW l, NEW s \in Semaphores,
           pc' = [pc EXCEPT ![t] = l],
           queue' = [queue EXCEPT ![s] = WithoutFront(@)], blocked' = blocked \ FrontOf(s)
    PROVE  QueueInv'
  <1>1. /\ queue \in [Semaphores -> Seq(Threads)]
        /\ queue'[s] = WithoutFront(queue[s])
        /\ \A r \in Semaphores \ {s} : queue'[r] = queue[r]
        /\ blocked \subseteq Threads
        /\ pc \in [Threads -> Locations]
    BY DEF TypeOK
  <1>2. \A u \in blocked, r \in Semaphores : InP(u, r)' <=> InP(u, r)
    BY <1>1 DEF InP
  <1>3. IsInjective(queue[s])
    BY DEF QueueInv
  <1>4. \A u \in FrontOf(s) : u \in blocked /\ InP(u, s)
    BY <1>3, WithoutFrontToSet DEF QueueInv
  <1>5. ASSUME NEW r \in Semaphores
        PROVE  ToSet(queue'[r]) = {u \in blocked' : InP(u, r)'} /\ IsInjective(queue'[r])
    <2>1. CASE r = s
      BY <1>1, <1>2, <1>3, <2>1, WithoutFrontToSet DEF QueueInv
    <2>2. CASE r # s
      <3>1. \A u \in FrontOf(s) : ~InP(u, r)
        BY <1>1, <1>4, <2>2, InPUnique
      <3> QED
        BY <1>1, <1>2, <2>2, <3>1 DEF QueueInv
    <2> QED
      BY <2>1, <2>2
  <1>6. \A u \in blocked' : \E r \in Semaphores : InP(u, r)'
    BY <1>2 DEF QueueInv
  <1> QED
    BY <1>5, <1>6 DEF QueueInv
-----------------------------------------------------------------------------
(* The steps, grouped by what they do to the semaphores.                   *)

(* Steps that only move a thread or set the holder.                        *)
Moves(t) ==
    CallAcquire(t) \/ SetHolder(t) \/ DeleteWaiter(t) \/ CallBroadcast(t)
    \/ (Goto(t, "inside", "inside") /\ lockHolder = t /\ NoWaiter)
    \/ (Goto(t, "broadcast", "inside") /\ NoWaiter)

(* A woken waiter: Signal or one turn of Broadcast.                        *)
Wakes(t) ==
    /\ lockHolder = t
    /\ Goto(t, "inside", "inside") \/ Goto(t, "broadcast", "broadcast")
    /\ Wake

(* Every step is one of these.                                             *)
LEMMA StepCases ==
    ASSUME Next
    PROVE  \E t \in Threads :
              \/ Moves(t) \/ Wakes(t) \/ Release(t) \/ Wait(t)
              \/ Acquire(t) \/ Sleep(t) \/ Reacquire(t)
  BY Zenon DEF Next, Moves, Wakes, Signal, Broadcast

IInv == TypeOK /\ LockInv /\ WaiterInv /\ QueueInv /\ NoLostWakeup

(* What holds of the first waiter when it is woken.                        *)
LEMMA FirstWaiter ==
    ASSUME IInv, waitQueue # <<>>
    PROVE  /\ Head(waitQueue) \in Threads
           /\ pc[Head(waitQueue)] = "sleep"
           /\ value[Head(waitQueue)] = 0
           /\ ToSet(Tail(waitQueue)) = Waiting \ {Head(waitQueue)}
           /\ IsInjective(Tail(waitQueue))
           /\ Tail(waitQueue) \in Seq(Threads)
  BY TailToSet DEF IInv, WaiterInv, Waiting, TypeOK

-----------------------------------------------------------------------------
(* Type correctness.                                                       *)

LEMMA InitTypeOK == Init => TypeOK
  BY DEF Init, TypeOK, Semaphores, Locations

LEMMA NextTypeOK ==
    ASSUME IInv, [Next]_vars
    PROVE  TypeOK'
  <1> USE DEF IInv
  <1>0. TheLock \in Semaphores /\ Threads \subseteq Semaphores
    BY DEF Semaphores
  <1>1. ASSUME NEW t \in Threads, Moves(t)
        PROVE  TypeOK'
    BY <1>1 DEF TypeOK, Locations, Moves, CallAcquire, SetHolder, DeleteWaiter,
        CallBroadcast, NoWaiter, Goto
  <1>2. ASSUME NEW t \in Threads, NEW s \in Semaphores, NEW f, NEW l \in Locations,
               P(t, s, f, l), UNCHANGED <<lockHolder, waitQueue>>
        PROVE  TypeOK'
    <2>1. pc' \in [Threads -> Locations]
      BY <1>2 DEF TypeOK, P, Goto
    <2>2. CASE Busy(s)
      <3>1. Append(queue[s], t) \in Seq(Threads)
        BY DEF TypeOK
      <3> QED
        BY <1>2, <2>1, <2>2, <3>1 DEF TypeOK, P
    <2>3. CASE ~Busy(s)
      <3>1. value[s] - 1 \in Nat
        BY <2>3 DEF TypeOK, Busy
      <3> QED
        BY <1>2, <2>1, <2>3, <3>1 DEF TypeOK, P
    <2> QED
      BY <2>2, <2>3
  <1>3. \A s \in Semaphores : WithoutFront(queue[s]) \in Seq(Threads)
    BY WithoutFrontToSet DEF QueueInv
  <1>4. ASSUME NEW s \in Semaphores, V(s)
        PROVE  /\ value' \in [Semaphores -> Nat]
               /\ queue' \in [Semaphores -> Seq(Threads)]
               /\ blocked' \subseteq Threads
    BY <1>3, <1>4 DEF TypeOK, V
  <1>5. ASSUME NEW t \in Threads, Wakes(t)
        PROVE  TypeOK'
    <2>1. Head(waitQueue) \in Semaphores /\ waitQueue' \in Seq(Threads)
      BY <1>0, <1>5, FirstWaiter DEF Wakes, Wake, WaiterRemoved
    <2> QED
      BY <1>4, <1>5, <2>1 DEF TypeOK, Wakes, Wake, Goto, Locations
  <1>6. ASSUME NEW t \in Threads, Release(t)
        PROVE  TypeOK'
    BY <1>0, <1>4, <1>6 DEF TypeOK, Release, Goto, Locations, NoHolder
  <1>7. ASSUME NEW t \in Threads, Wait(t)
        PROVE  TypeOK'
    <2>1. value' = [value EXCEPT ![t] = 0, ![TheLock] = value[TheLock] + 1]
      BY <1>0, <1>7, SynchAssumption DEF TypeOK, Wait
    <2>2. queue' = [queue EXCEPT ![t] = <<>>, ![TheLock] = WithoutFront(queue[TheLock])]
      BY <1>0, <1>7, SynchAssumption DEF TypeOK, Wait
    <2>3. pc' \in [Threads -> Locations]
      BY <1>7 DEF TypeOK, Wait, Goto, Locations
    <2>4. waitQueue' \in Seq(Threads)
      BY <1>7 DEF TypeOK, Wait, WaiterAdded
    <2>5. value' \in [Semaphores -> Nat]
      <3>1. value \in [Semaphores -> Nat] /\ value[TheLock] + 1 \in Nat
        BY <1>0 DEF TypeOK
      <3> QED
        BY <1>0, <2>1, <3>1
    <2>6. queue' \in [Semaphores -> Seq(Threads)]
      <3>1. /\ queue \in [Semaphores -> Seq(Threads)]
            /\ <<>> \in Seq(Threads)
            /\ WithoutFront(queue[TheLock]) \in Seq(Threads)
        BY <1>0, <1>3 DEF TypeOK
      <3> QED
        BY <1>0, <2>2, <3>1
    <2>7. blocked' \subseteq Threads /\ lockHolder' \in Threads \cup {Nobody}
      BY <1>7 DEF TypeOK, Wait, NoHolder
    <2> QED
      BY <2>3, <2>4, <2>5, <2>6, <2>7 DEF TypeOK
  <1>8. ASSUME NEW t \in Threads, Acquire(t) \/ Sleep(t) \/ Reacquire(t)
        PROVE  TypeOK'
    BY <1>0, <1>2, <1>8 DEF Acquire, Sleep, Reacquire, Locations
  <1>9. CASE UNCHANGED vars
    BY <1>9 DEF TypeOK, vars
  <1> QED
    BY <1>1, <1>5, <1>6, <1>7, <1>8, <1>9, StepCases

-----------------------------------------------------------------------------
(* Queues.                                                                 *)

LEMMA InitQueueInv == Init => QueueInv
  BY DEF Init, QueueInv, ToSet, IsInjective

LEMMA NextQueueInv ==
    ASSUME IInv, [Next]_vars
    PROVE  QueueInv'
  <1> USE DEF IInv, Semaphores
  <1>1. ASSUME NEW t \in Threads, Moves(t)
        PROVE  QueueInv'
    <2>1. t \notin blocked
      BY <1>1, OutsideP DEF Moves, CallAcquire, SetHolder, DeleteWaiter, CallBroadcast, Goto
    <2>2. UNCHANGED <<queue, blocked>> /\ \E l : pc' = [pc EXCEPT ![t] = l]
      BY <1>1 DEF Moves, CallAcquire, SetHolder, DeleteWaiter, CallBroadcast, Goto, NoWaiter
    <2> QED
      BY <2>1, <2>2, QueueMove
  <1>2. ASSUME NEW t \in Threads, NEW s \in Semaphores, NEW f, NEW l,
               P(t, s, f, l), InP(t, s)
        PROVE  QueueInv'
    <2>1. CASE Busy(s)
      <3>1. pc' = pc
        BY <1>2, <2>1 DEF P, Goto, TypeOK
      <3> QED
        BY <1>2, <2>1, <3>1, QueueSleep DEF P
    <2>2. CASE ~Busy(s)
      BY <1>2, <2>2, QueueMove DEF P, Goto
    <2> QED
      BY <2>1, <2>2
  <1>3. ASSUME NEW t \in Threads, Acquire(t) \/ Sleep(t) \/ Reacquire(t)
        PROVE  QueueInv'
    <2>1. \A s, f, l : P(t, s, f, l) => pc[t] = f
      BY DEF P, Goto
    <2> QED
      BY <1>2, <1>3, <2>1 DEF Acquire, Sleep, Reacquire, InP
  <1>4. ASSUME NEW t \in Threads, Wakes(t)
        PROVE  QueueInv'
    <2>1. t \notin blocked /\ \E l : pc' = [pc EXCEPT ![t] = l]
      BY <1>4, OutsideP DEF Wakes, Goto
    <2>2. Head(waitQueue) \in Semaphores
      BY <1>4, FirstWaiter DEF Wakes, Wake
    <2> QED
      BY <1>4, <2>1, <2>2, QueueWake DEF Wakes, Wake, V
  <1>5. ASSUME NEW t \in Threads, Release(t)
        PROVE  QueueInv'
    <2>1. t \notin blocked
      BY <1>5, OutsideP DEF Release, Goto
    <2> QED
      BY <1>5, <2>1, QueueWake DEF Release, Goto, V
  <1>6. ASSUME NEW t \in Threads, Wait(t)
        PROVE  QueueInv'
    <2>1. t \notin blocked /\ queue[t] = <<>>
      BY <1>6, OutsideP DEF Wait, Goto
    <2>2. queue' = [queue EXCEPT ![TheLock] = WithoutFront(@)]
      BY <1>6, <2>1, SynchAssumption DEF Wait, TypeOK
    <2> QED
      BY <1>6, <2>1, <2>2, QueueWake DEF Wait, Goto
  <1>7. CASE UNCHANGED vars
    BY <1>7 DEF QueueInv, vars, InP
  <1> QED
    BY <1>1, <1>3, <1>4, <1>5, <1>6, <1>7, StepCases

-----------------------------------------------------------------------------
(* The lock.                                                               *)

LEMMA InitLockInv == Init => LockInv
  <1> SUFFICES ASSUME Init PROVE LockInv
    OBVIOUS
  <1>1. Owners = {} /\ \A t \in Threads : pc[t] = "outside" /\ lockHolder # t
    BY SynchAssumption DEF Init, Owners
  <1>2. value[TheLock] = 1
    BY DEF Init, Semaphores
  <1> QED
    BY <1>1, <1>2 DEF LockInv

LEMMA NextLockInv ==
    ASSUME IInv, [Next]_vars
    PROVE  LockInv'
  <1> USE DEF IInv
  <1>0. TheLock \in Semaphores /\ Threads \subseteq Semaphores /\ TheLock \notin Threads
        /\ value \in [Semaphores -> Nat] /\ pc \in [Threads -> Locations]
    BY SynchAssumption DEF Semaphores, TypeOK
  <1>1. ASSUME NEW t \in Threads, Moves(t)
        PROVE  LockInv'
    BY <1>0, <1>1 DEF LockInv, Owners, Moves, CallAcquire, SetHolder, DeleteWaiter,
        CallBroadcast, NoWaiter, Goto
  <1>2. ASSUME NEW t \in Threads, Acquire(t) \/ Reacquire(t)
        PROVE  LockInv'
    <2>1. PICK f \in {"acquire", "reacquire"}, l \in {"acquired", "reacquired"} :
             P(t, TheLock, f, l) /\ UNCHANGED lockHolder
      BY <1>2 DEF Acquire, Reacquire
    <2>2. CASE Busy(TheLock)
      BY <1>0, <2>1, <2>2 DEF P, Goto, LockInv, Owners
    <2>3. CASE ~Busy(TheLock)
      <3>1. Owners = {} /\ value[TheLock] = 1
        BY <2>3 DEF Busy, LockInv
      <3>2. Owners' = {t} /\ value'[TheLock] = 0
        BY <1>0, <2>1, <2>3, <3>1 DEF P, Goto, Owners
      <3> QED
        BY <1>0, <2>1, <2>3, <3>2 DEF P, Goto, LockInv
    <2> QED
      BY <2>2, <2>3
  <1>3. ASSUME NEW t \in Threads, Sleep(t)
        PROVE  LockInv'
    <2>1. Owners' = Owners /\ value'[TheLock] = value[TheLock]
      BY <1>0, <1>3 DEF Sleep, P, Goto, Owners
    <2> QED
      BY <1>0, <1>3, <2>1 DEF Sleep, P, Goto, LockInv
  <1>4. ASSUME NEW t \in Threads, Wakes(t)
        PROVE  LockInv'
    <2>1. Head(waitQueue) \in Threads
      BY <1>4, FirstWaiter DEF Wakes, Wake
    <2>2. value'[TheLock] = value[TheLock] /\ pc' = pc /\ lockHolder' = lockHolder
      BY <1>0, <1>4, <2>1 DEF Wakes, Wake, V, Goto
    <2> QED
      BY <2>2 DEF LockInv, Owners
  <1>5. ASSUME NEW t \in Threads, Release(t) \/ Wait(t)
        PROVE  LockInv'
    <2>1. /\ pc[t] = "inside"
          /\ \E l \in {"outside", "sleep"} : pc' = [pc EXCEPT ![t] = l]
          /\ lockHolder' = Nobody
      BY <1>5 DEF Release, Wait, Goto, NoHolder
    <2>2. Owners = {t} /\ value[TheLock] = 0
      BY <2>1 DEF LockInv, Owners
    <2>3. value'[TheLock] = 1
      BY <1>0, <1>5, <2>2 DEF Release, Wait, V
    <2>4. Owners' = {}
      BY <1>0, <2>1, <2>2 DEF Owners
    <2>5. \A u \in Threads : pc'[u] \notin {"inside", "broadcast"}
      BY <2>4 DEF Owners
    <2> QED
      BY <2>1, <2>3, <2>4, <2>5, SynchAssumption DEF LockInv
  <1>6. CASE UNCHANGED vars
    BY <1>6 DEF LockInv, Owners, vars
  <1> QED
    BY <1>1, <1>2, <1>3, <1>4, <1>5, <1>6, StepCases

-----------------------------------------------------------------------------
(* The waiters.                                                            *)

LEMMA InitWaiterInv == Init => WaiterInv
  BY SynchAssumption DEF Init, WaiterInv, Waiting, ToSet, IsInjective, Semaphores

LEMMA NextWaiterInv ==
    ASSUME IInv, [Next]_vars
    PROVE  WaiterInv'
  <1> USE DEF IInv
  <1>0. TheLock \in Semaphores /\ Threads \subseteq Semaphores /\ TheLock \notin Threads
        /\ value \in [Semaphores -> Nat] /\ pc \in [Threads -> Locations]
    BY SynchAssumption DEF Semaphores, TypeOK
  <1>1. ASSUME NEW t \in Threads, NEW l, pc[t] # "sleep", l # "sleep",
               pc' = [pc EXCEPT ![t] = l], UNCHANGED waitQueue,
               \A u \in Threads : value'[u] = value[u]
        PROVE  WaiterInv'
    <2>1. Waiting' = Waiting
      BY <1>0, <1>1 DEF Waiting
    <2> QED
      BY <1>0, <1>1, <2>1 DEF WaiterInv
  <1>2. ASSUME NEW t \in Threads, Moves(t)
        PROVE  WaiterInv'
    BY <1>0, <1>1, <1>2 DEF Moves, CallAcquire, SetHolder, DeleteWaiter,
        CallBroadcast, NoWaiter, Goto
  <1>3. ASSUME NEW t \in Threads, Acquire(t) \/ Reacquire(t)
        PROVE  WaiterInv'
    <2>1. \A u \in Threads : value'[u] = value[u]
      BY <1>0, <1>3 DEF Acquire, Reacquire, P
    <2> QED
      BY <1>1, <1>3, <2>1 DEF Acquire, Reacquire, P, Goto
  <1>4. ASSUME NEW t \in Threads, Sleep(t)
        PROVE  WaiterInv'
    <2>1. CASE Busy(t)
      <3>1. pc' = pc /\ value' = value /\ waitQueue' = waitQueue
        BY <1>0, <1>4, <2>1 DEF Sleep, P, Goto
      <3> QED
        BY <3>1 DEF WaiterInv, Waiting
    <2>2. CASE ~Busy(t)
      <3>1. /\ pc[t] = "sleep" /\ value[t] = 1
            /\ pc' = [pc EXCEPT ![t] = "reacquire"]
            /\ value' = [value EXCEPT ![t] = 0]
            /\ waitQueue' = waitQueue
        BY <1>0, <1>4, <2>2 DEF Sleep, P, Goto, Busy, WaiterInv
      <3>2. Waiting' = Waiting
        BY <1>0, <3>1 DEF Waiting
      <3> QED
        BY <1>0, <3>1, <3>2 DEF WaiterInv
    <2> QED
      BY <2>1, <2>2
  <1>5. ASSUME NEW t \in Threads, Wakes(t)
        PROVE  WaiterInv'
    <2> DEFINE w == Head(waitQueue)
    <2>1. /\ w \in Threads /\ pc[w] = "sleep" /\ value[w] = 0
          /\ ToSet(waitQueue') = Waiting \ {w} /\ IsInjective(waitQueue')
      BY <1>5, FirstWaiter DEF Wakes, Wake, WaiterRemoved
    <2>2. value' = [value EXCEPT ![w] = 1] /\ pc' = pc
      BY <1>0, <1>5, <2>1 DEF Wakes, Wake, V, Goto
    <2> HIDE DEF w
    <2>3. Waiting' = Waiting \ {w}
      BY <1>0, <2>1, <2>2 DEF Waiting
    <2> QED
      BY <1>0, <2>1, <2>2, <2>3 DEF WaiterInv
  <1>6. ASSUME NEW t \in Threads, Release(t)
        PROVE  WaiterInv'
    <2>1. \A u \in Threads : value'[u] = value[u]
      BY <1>0, <1>6 DEF Release, V
    <2> QED
      BY <1>1, <1>6, <2>1 DEF Release, Goto
  <1>7. ASSUME NEW t \in Threads, Wait(t)
        PROVE  WaiterInv'
    <2>1. /\ pc[t] = "inside" /\ pc' = [pc EXCEPT ![t] = "sleep"]
          /\ waitQueue' = Append(waitQueue, t)
      BY <1>7 DEF Wait, Goto, WaiterAdded
    <2>2. \A u \in Threads : value'[u] = value[u]
      BY <1>0, <1>7, <2>1 DEF Wait, WaiterInv
    <2>3. t \notin Waiting /\ value[t] = 0
      BY <2>1 DEF Waiting, WaiterInv
    <2>4. Waiting' = Waiting \cup {t}
      BY <1>0, <2>1, <2>2, <2>3 DEF Waiting
    <2>5. ToSet(waitQueue') = Waiting \cup {t} /\ IsInjective(waitQueue')
      BY <2>1, <2>3, AppendToSet DEF WaiterInv, TypeOK
    <2> QED
      BY <1>0, <2>1, <2>2, <2>3, <2>4, <2>5 DEF WaiterInv
  <1>8. CASE UNCHANGED vars
    BY <1>8 DEF WaiterInv, Waiting, vars
  <1> QED
    BY <1>2, <1>3, <1>4, <1>5, <1>6, <1>7, <1>8, StepCases

-----------------------------------------------------------------------------
(* Wake-ups.                                                               *)

LEMMA InitNoLostWakeup == Init => NoLostWakeup
  BY DEF Init, NoLostWakeup, Semaphores

LEMMA NextNoLostWakeup ==
    ASSUME IInv, [Next]_vars
    PROVE  NoLostWakeup'
  <1> USE DEF IInv
  <1>0. TheLock \in Semaphores /\ Threads \subseteq Semaphores /\ TheLock \notin Threads
        /\ value \in [Semaphores -> Nat] /\ pc \in [Threads -> Locations]
        /\ queue \in [Semaphores -> Seq(Threads)] /\ blocked \subseteq Threads
    BY SynchAssumption DEF Semaphores, TypeOK
  <1>1. ASSUME NEW t \in Threads, NEW l, pc' = [pc EXCEPT ![t] = l],
               pc[t] \notin {"acquire", "reacquire", "sleep"},
               UNCHANGED <<value, queue, blocked>>
        PROVE  NoLostWakeup'
    <2>1. t \notin blocked
      BY <1>1, OutsideP
    <2>2. \A u \in Threads \ {t} : pc'[u] = pc[u]
      BY <1>0, <1>1
    <2>3. ~InP(t, TheLock)
      BY <1>0, <1>1 DEF InP
    <2> QED
      BY <1>0, <1>1, <2>1, <2>2, <2>3 DEF NoLostWakeup, InP
  <1>2. ASSUME NEW t \in Threads, Moves(t)
        PROVE  NoLostWakeup'
    BY <1>1, <1>2 DEF Moves, CallAcquire, SetHolder, DeleteWaiter,
        CallBroadcast, NoWaiter, Goto
  <1>3. ASSUME NEW t \in Threads, Acquire(t) \/ Reacquire(t)
        PROVE  NoLostWakeup'
    <2>1. PICK f \in {"acquire", "reacquire"}, l \in {"acquired", "reacquired"} :
             P(t, TheLock, f, l)
      BY <1>3 DEF Acquire, Reacquire
    <2>2. CASE Busy(TheLock)
      <3>1. value' = value /\ value[TheLock] = 0 /\ pc' = pc /\ blocked' = blocked \cup {t}
            /\ pc[t] # "sleep"
        BY <1>0, <2>1, <2>2 DEF P, Goto, Busy
      <3> QED
        BY <3>1 DEF NoLostWakeup
    <2>3. CASE ~Busy(TheLock)
      <3>1. value[TheLock] = 1 /\ t \notin blocked
        BY <2>1, <2>3 DEF P, Busy, LockInv
      <3>2. value' = [value EXCEPT ![TheLock] = 0] /\ pc' = [pc EXCEPT ![t] = l]
            /\ blocked' = blocked
        BY <1>0, <2>1, <2>3, <3>1 DEF P, Goto
      <3> QED
        BY <1>0, <3>1, <3>2 DEF NoLostWakeup
    <2> QED
      BY <2>2, <2>3
  <1>4. ASSUME NEW t \in Threads, Sleep(t)
        PROVE  NoLostWakeup'
    <2>1. t \notin blocked /\ pc[t] = "sleep"
      BY <1>4 DEF Sleep, P, Goto
    <2>2. CASE Busy(t)
      <3>1. /\ value' = value /\ value[t] = 0 /\ pc' = pc /\ blocked' = blocked \cup {t}
            /\ queue'[TheLock] = queue[TheLock]
        BY <1>0, <1>4, <2>2 DEF Sleep, P, Goto, Busy
      <3>2. ~InP(t, TheLock)
        BY <1>0, <2>1 DEF InP
      <3> QED
        BY <1>0, <3>1, <3>2 DEF NoLostWakeup, InP
    <2>3. CASE ~Busy(t)
      <3>1. /\ pc' = [pc EXCEPT ![t] = "reacquire"] /\ blocked' = blocked /\ queue' = queue
            /\ \A s \in Semaphores \ {t} : value'[s] = value[s]
        BY <1>0, <1>4, <2>3 DEF Sleep, P, Goto
      <3>2. InP(t, TheLock)'
        BY <1>0, <3>1 DEF InP
      <3>3. \A u \in blocked' : pc'[u] = "sleep" => value'[u] = 0
        BY <1>0, <2>1, <3>1 DEF NoLostWakeup
      <3> QED
        BY <2>1, <3>1, <3>2, <3>3 DEF NoLostWakeup
    <2> QED
      BY <2>2, <2>3
  <1>5. ASSUME NEW t \in Threads, Wakes(t)
        PROVE  NoLostWakeup'
    <2> DEFINE w == Head(waitQueue)
    <2>1. w \in Threads /\ pc[w] = "sleep"
      BY <1>5, FirstWaiter DEF Wakes, Wake
    <2>2. /\ V(w) /\ pc' = pc
      BY <1>0, <1>5 DEF Wakes, Wake, Goto
    <2> HIDE DEF w
    <2>3. value'[TheLock] = value[TheLock] /\ queue'[TheLock] = queue[TheLock]
          /\ blocked' \subseteq blocked /\ \A u \in Threads \ {w} : value'[u] = value[u]
      BY <1>0, <2>1, <2>2 DEF V
    <2>4. w \notin blocked'
      <3>1. CASE w \in blocked
        <4>1. ToSet(queue[w]) = {w} /\ IsInjective(queue[w]) /\ queue[w] \in Seq(Threads)
          <5>1. \A u \in Threads : InP(u, w) <=> u = w
            BY <1>0, <2>1 DEF InP
          <5> QED
            BY <1>0, <2>1, <3>1, <5>1 DEF QueueInv
        <4>2. queue[w] # <<>>
          BY <4>1 DEF ToSet
        <4>3. FrontOf(w) = {w}
          BY <4>1, <4>2, TailToSet DEF FrontOf
        <4> QED
          BY <2>2, <4>3 DEF V
      <3>2. CASE w \notin blocked
        BY <2>3, <3>2
      <3> QED
        BY <3>1, <3>2
    <2> QED
      BY <1>0, <2>2, <2>3, <2>4 DEF NoLostWakeup, InP
  <1>6. ASSUME NEW t \in Threads, Release(t) \/ Wait(t)
        PROVE  NoLostWakeup'
    <2>1. /\ pc[t] = "inside"
          /\ \E l \in {"outside", "sleep"} : pc' = [pc EXCEPT ![t] = l]
          /\ blocked' = blocked \ FrontOf(TheLock)
          /\ queue'[TheLock] = WithoutFront(queue[TheLock])
      BY <1>0, <1>6 DEF Release, Wait, Goto, V
    <2>2. \A u \in Threads : value'[u] = value[u]
      BY <1>0, <1>6, <2>1 DEF Release, Wait, V, WaiterInv
    <2>3. t \notin blocked
      BY <2>1, OutsideP
    <2>4. \A u \in blocked' : pc'[u] = "sleep" => value'[u] = 0
      BY <1>0, <2>1, <2>2, <2>3 DEF NoLostWakeup
    <2>5. ASSUME queue'[TheLock] # <<>>
          PROVE  \E u \in Threads \ blocked' : InP(u, TheLock)'
      <3>1. queue[TheLock] # <<>>
        BY <2>1, <2>5 DEF WithoutFront
      <3>2. PICK u : FrontOf(TheLock) = {u} /\ u \in ToSet(queue[TheLock])
        BY <1>0, <3>1, TailToSet DEF FrontOf, QueueInv
      <3>3. u \in blocked /\ InP(u, TheLock)
        BY <1>0, <3>2 DEF QueueInv
      <3>4. InP(u, TheLock)'
        BY <1>0, <2>1, <2>3, <3>3 DEF InP
      <3> QED
        BY <1>0, <2>1, <3>2, <3>3, <3>4
    <2> QED
      BY <2>4, <2>5 DEF NoLostWakeup
  <1>7. CASE UNCHANGED vars
    BY <1>7 DEF NoLostWakeup, InP, vars
  <1> QED
    BY <1>2, <1>3, <1>4, <1>5, <1>6, <1>7, StepCases

-----------------------------------------------------------------------------
(* The theorems.                                                           *)

LEMMA Inductive == Spec => []IInv
  <1>1. Init => IInv
    BY InitTypeOK, InitLockInv, InitWaiterInv, InitQueueInv, InitNoLostWakeup DEF IInv
  <1>2. IInv /\ [Next]_vars => IInv'
    BY NextTypeOK, NextLockInv, NextWaiterInv, NextQueueInv, NextNoLostWakeup DEF IInv
  <1> QED
    BY <1>1, <1>2, PTL DEF Spec

(* No semaphore ever has a negative value, and the queues hold threads.    *)
THEOREM SynchTypeCorrect == Spec => []TypeOK
  BY Inductive, PTL DEF IInv

(* At most one thread owns the lock, and no assertion of Lock and          *)
(* Condition fails.                                                        *)
THEOREM LockIsExclusive == Spec => []LockInv
  BY Inductive, PTL DEF IInv

(* The condition's queue and the semaphores in it are those of the waiting *)
(* threads; a signal is kept until the waiter sleeps.                      *)
THEOREM WaitersAccounted == Spec => []WaiterInv
  BY Inductive, PTL DEF IInv

(* Every sleeping thread is in the queue of its semaphore, and only there. *)
THEOREM SleepersQueued == Spec => []QueueInv
  BY Inductive, PTL DEF IInv

(* V loses no wake-up, with one waiter woken per V and a re-test by each.  *)
THEOREM NoWakeupLost == Spec => []NoLostWakeup
  BY Inductive, PTL DEF IInv

-----------------------------------------------------------------------------
(* Refinement.                                                             *)

absState == [t \in Threads |->
               CASE pc[t] = "outside" -> "outside"
                 [] t \in Owners -> "inside"
                 [] t \in Waiting -> "waiting"
                 [] OTHER -> "entering"]

(* The abstract state of a thread, case by case.                           *)
LEMMA StateCases ==
    ASSUME TypeOK, NEW t \in Threads
    PROVE  /\ absState[t] = "outside" <=> pc[t] = "outside"
           /\ absState[t] = "inside" <=> t \in Owners
           /\ absState[t] = "waiting" <=> t \in Waiting
           /\ absState[t] = "entering" <=>
                 pc[t] \in {"acquire", "reacquire"} \/ (pc[t] = "sleep" /\ value[t] # 0)
           /\ absState[t] \in {"outside", "inside", "waiting", "entering"}
  BY DEF absState, Owners, Waiting, TypeOK, Locations

LEMMA NextStateCases ==
    ASSUME TypeOK', NEW t \in Threads
    PROVE  /\ absState'[t] = "outside" <=> pc'[t] = "outside"
           /\ absState'[t] = "inside" <=> t \in Owners'
           /\ absState'[t] = "waiting" <=> t \in Waiting'
           /\ absState'[t] = "entering" <=>
                 pc'[t] \in {"acquire", "reacquire"} \/ (pc'[t] = "sleep" /\ value'[t] # 0)
           /\ absState'[t] \in {"outside", "inside", "waiting", "entering"}
  BY DEF absState, Owners, Waiting, TypeOK, Locations

(* The initial states are initial states of the monitor.                  *)
LEMMA AbstractInit == Init => Abstract!Init
  <1> SUFFICES ASSUME Init PROVE Abstract!Init
    OBVIOUS
  <1>1. absState = [t \in Threads |-> "outside"]
    <2>1. \A t \in Threads : absState[t] = "outside"
      BY InitTypeOK, StateCases DEF Init
    <2> QED
      BY <2>1 DEF absState
  <1>2. waitQueue = <<>>
    BY DEF Init
  <1> QED
    BY <1>1, <1>2 DEF Abstract!Init, absState

(* Two functions that differ at one point.                                 *)
LEMMA DifferAtOne ==
    ASSUME NEW S, NEW f, NEW g, NEW t \in S,
           f = [u \in S |-> f[u]], g = [u \in S |-> g[u]],
           \A u \in S \ {t} : g[u] = f[u]
    PROVE  g = [f EXCEPT ![t] = g[t]]
  OBVIOUS

(* A step that leaves the other threads where they are.                    *)
LEMMA OneMoves ==
    ASSUME TypeOK, TypeOK', NEW t \in Threads,
           \A u \in Threads \ {t} :
              /\ pc'[u] = pc[u]
              /\ pc[u] = "sleep" => value'[u] = value[u]
    PROVE  absState' = [absState EXCEPT ![t] = absState'[t]]
  <1>1. \A u \in Threads \ {t} : absState'[u] = absState[u]
    BY DEF absState, Owners, Waiting
  <1>2. /\ absState = [u \in Threads |-> absState[u]]
        /\ absState' = [u \in Threads |-> absState'[u]]
    BY DEF absState
  <1> QED
    BY <1>1, <1>2, DifferAtOne

(* Every step implements a step of the monitor or leaves it as it is.      *)
LEMMA AbstractNext ==
    ASSUME IInv, IInv', [Next]_vars
    PROVE  [Abstract!Next]_(Abstract!vars)
  <1> USE DEF IInv
  <1>0. TheLock \in Semaphores /\ Threads \subseteq Semaphores /\ TheLock \notin Threads
        /\ value \in [Semaphores -> Nat] /\ pc \in [Threads -> Locations]
    BY SynchAssumption DEF Semaphores, TypeOK
  <1> DEFINE Stutter == absState' = absState /\ waitQueue' = waitQueue
             Moved(t, from, to) ==
                absState[t] = from /\ absState' = [absState EXCEPT ![t] = to]
  <1>a. Stutter => [Abstract!Next]_(Abstract!vars)
    BY DEF Abstract!vars, absState
  <1>b. ASSUME NEW t \in Threads, Moved(t, "outside", "entering"), waitQueue' = waitQueue
        PROVE  Abstract!Next
    <2>1. Abstract!Request(t)
      BY <1>b DEF Abstract!Request, Abstract!Move, absState
    <2> QED
      BY <2>1 DEF Abstract!Next
  <1>c. ASSUME NEW t \in Threads, Moved(t, "entering", "inside"), waitQueue' = waitQueue,
               \A u \in Threads : absState[u] # "inside"
        PROVE  Abstract!Next
    <2>1. Abstract!Enter(t)
      BY <1>c DEF Abstract!Enter, Abstract!Move, absState
    <2> QED
      BY <2>1 DEF Abstract!Next
  <1>d. ASSUME NEW t \in Threads, Moved(t, "inside", "outside"), waitQueue' = waitQueue
        PROVE  Abstract!Next
    <2>1. Abstract!Exit(t)
      BY <1>d DEF Abstract!Exit, Abstract!Move, absState
    <2> QED
      BY <2>1 DEF Abstract!Next
  <1>e. ASSUME NEW t \in Threads, Moved(t, "inside", "waiting"),
               waitQueue' = Append(waitQueue, t)
        PROVE  Abstract!Next
    <2>1. Abstract!Wait(t)
      BY <1>e DEF Abstract!Wait, Abstract!Move, absState
    <2> QED
      BY <2>1 DEF Abstract!Next
  <1>f. ASSUME NEW t \in Threads, absState[t] = "inside", waitQueue # <<>>,
               Moved(Head(waitQueue), "waiting", "entering"), waitQueue' = Tail(waitQueue)
        PROVE  Abstract!Next
    <2>1. Abstract!Signal(t)
      BY <1>f DEF Abstract!Signal, Abstract!Move, absState
    <2> QED
      BY <2>1 DEF Abstract!Next
  <1> HIDE DEF Stutter, Moved
  <1>1. ASSUME NEW t \in Threads, Moves(t)
        PROVE  [Abstract!Next]_(Abstract!vars)
    <2>1. waitQueue' = waitQueue /\ value' = value
      BY <1>1 DEF Moves, CallAcquire, SetHolder, DeleteWaiter, CallBroadcast, NoWaiter
    <2>2. PICK l : pc' = [pc EXCEPT ![t] = l] /\
             \/ pc[t] = "outside" /\ l = "acquire"
             \/ pc[t] \in {"acquired", "reacquired", "inside", "broadcast"}
                 /\ l \in {"inside", "broadcast"}
      BY <1>1 DEF Moves, CallAcquire, SetHolder, DeleteWaiter, CallBroadcast, Goto
    <2>3. absState' = [absState EXCEPT ![t] = absState'[t]]
      BY <1>0, <2>1, <2>2, OneMoves
    <2>4. CASE pc[t] = "outside"
      <3>1. absState[t] = "outside" /\ absState'[t] = "entering"
        BY <1>0, <2>2, <2>4, StateCases, NextStateCases
      <3> QED
        BY <1>b, <2>1, <2>3, <3>1 DEF Moved
    <2>5. CASE pc[t] # "outside"
      <3>1. absState[t] = "inside" /\ absState'[t] = "inside"
        BY <1>0, <2>2, <2>5, StateCases, NextStateCases DEF Owners
      <3>2. absState' = absState
        BY <2>3, <3>1 DEF absState
      <3> QED
        BY <1>a, <2>1, <3>2 DEF Stutter
    <2> QED
      BY <2>4, <2>5
  <1>2. ASSUME NEW t \in Threads, Acquire(t) \/ Reacquire(t)
        PROVE  [Abstract!Next]_(Abstract!vars)
    <2>1. PICK f \in {"acquire", "reacquire"}, l \in {"acquired", "reacquired"} :
             P(t, TheLock, f, l) /\ waitQueue' = waitQueue
      BY <1>2 DEF Acquire, Reacquire
    <2>2. CASE Busy(TheLock)
      <3>1. pc' = pc /\ value' = value
        BY <1>0, <2>1, <2>2 DEF P, Goto
      <3> QED
        BY <1>a, <2>1, <3>1 DEF Stutter, absState, Owners, Waiting
    <2>3. CASE ~Busy(TheLock)
      <3>1. /\ pc[t] = f /\ pc' = [pc EXCEPT ![t] = l]
            /\ \A u \in Threads : value'[u] = value[u]
            /\ Owners = {}
        BY <1>0, <2>1, <2>3 DEF P, Goto, Busy, LockInv
      <3>2. absState' = [absState EXCEPT ![t] = absState'[t]]
        BY <1>0, <3>1, OneMoves
      <3>3. absState[t] = "entering" /\ absState'[t] = "inside"
        BY <1>0, <3>1, StateCases, NextStateCases DEF Owners
      <3>4. \A u \in Threads : absState[u] # "inside"
        BY <3>1, StateCases, NextStateCases
      <3> QED
        BY <1>c, <2>1, <3>2, <3>3, <3>4 DEF Moved
    <2> QED
      BY <2>2, <2>3
  <1>3. ASSUME NEW t \in Threads, Sleep(t)
        PROVE  [Abstract!Next]_(Abstract!vars)
    <2>1. CASE Busy(t)
      <3>1. pc' = pc /\ value' = value /\ waitQueue' = waitQueue
        BY <1>0, <1>3, <2>1 DEF Sleep, P, Goto
      <3> QED
        BY <1>a, <3>1 DEF Stutter, absState, Owners, Waiting
    <2>2. CASE ~Busy(t)
      <3>1. /\ pc[t] = "sleep" /\ pc' = [pc EXCEPT ![t] = "reacquire"]
            /\ value[t] # 0 /\ waitQueue' = waitQueue
            /\ \A u \in Threads \ {t} : value'[u] = value[u]
        BY <1>0, <1>3, <2>2 DEF Sleep, P, Goto, Busy
      <3>2. absState' = [absState EXCEPT ![t] = absState'[t]]
        BY <1>0, <3>1, OneMoves
      <3>3. absState[t] = "entering" /\ absState'[t] = "entering"
        BY <1>0, <3>1, StateCases, NextStateCases
      <3> QED
        BY <1>a, <3>1, <3>2, <3>3 DEF Stutter, absState
    <2> QED
      BY <2>1, <2>2
  <1>4. ASSUME NEW t \in Threads, Wakes(t)
        PROVE  [Abstract!Next]_(Abstract!vars)
    <2> DEFINE w == Head(waitQueue)
    <2>1. /\ w \in Threads /\ pc[w] = "sleep" /\ value[w] = 0
          /\ waitQueue # <<>> /\ waitQueue' = Tail(waitQueue)
          /\ pc[t] \in {"inside", "broadcast"}
      BY <1>4, FirstWaiter DEF Wakes, Wake, WaiterRemoved, Goto
    <2>2. value' = [value EXCEPT ![w] = 1] /\ pc' = pc
      BY <1>0, <1>4, <2>1 DEF Wakes, Wake, V, Goto
    <2>3. Moved(w, "waiting", "entering")
      <3> HIDE DEF w
      <3>1. absState' = [absState EXCEPT ![w] = absState'[w]]
        BY <1>0, <2>1, <2>2, OneMoves
      <3>2. absState[w] = "waiting" /\ absState'[w] = "entering"
        BY <1>0, <2>1, <2>2, StateCases, NextStateCases DEF Waiting
      <3> QED
        BY <3>1, <3>2 DEF Moved
    <2>4. absState[t] = "inside"
      BY <2>1, StateCases, NextStateCases DEF Owners
    <2> QED
      BY <1>f, <2>1, <2>3, <2>4
  <1>5. ASSUME NEW t \in Threads, Release(t)
        PROVE  [Abstract!Next]_(Abstract!vars)
    <2>1. /\ pc[t] = "inside" /\ pc' = [pc EXCEPT ![t] = "outside"]
          /\ waitQueue' = waitQueue
          /\ \A u \in Threads : value'[u] = value[u]
      BY <1>0, <1>5 DEF Release, Goto, V
    <2>2. absState' = [absState EXCEPT ![t] = absState'[t]]
      BY <1>0, <2>1, OneMoves
    <2>3. absState[t] = "inside" /\ absState'[t] = "outside"
      BY <1>0, <2>1, StateCases, NextStateCases DEF Owners
    <2> QED
      BY <1>d, <2>1, <2>2, <2>3 DEF Moved
  <1>6. ASSUME NEW t \in Threads, Wait(t)
        PROVE  [Abstract!Next]_(Abstract!vars)
    <2>1. /\ pc[t] = "inside" /\ pc' = [pc EXCEPT ![t] = "sleep"]
          /\ waitQueue' = Append(waitQueue, t)
          /\ value'[t] = 0
          /\ \A u \in Threads \ {t} : value'[u] = value[u]
      BY <1>0, <1>6 DEF Wait, Goto, WaiterAdded
    <2>2. absState' = [absState EXCEPT ![t] = absState'[t]]
      BY <1>0, <2>1, OneMoves
    <2>3. absState[t] = "inside" /\ absState'[t] = "waiting"
      BY <1>0, <2>1, StateCases, NextStateCases DEF Owners, Waiting
    <2> QED
      BY <1>e, <2>1, <2>2, <2>3 DEF Moved
  <1>7. CASE UNCHANGED vars
    BY <1>a, <1>7 DEF Stutter, vars, absState, Owners, Waiting
  <1> QED
    BY <1>1, <1>2, <1>3, <1>4, <1>5, <1>6, <1>7, StepCases

(* Lock and Condition implement the monitor for any set of threads: a      *)
(* waiter leaves the monitor and joins the queue in one step.              *)
THEOREM SynchImplementsMonitor == Spec => ImplementsMonitor
  <1>1. Init => Abstract!Init
    BY AbstractInit
  <1>2. IInv /\ IInv' /\ [Next]_vars => [Abstract!Next]_(Abstract!vars)
    BY AbstractNext
  <1> QED
    BY <1>1, <1>2, Inductive, PTL DEF Spec, ImplementsMonitor, Abstract!Spec

-----------------------------------------------------------------------------
(* The list only takes steps of Synch.                                     *)

LEMMA ListStepIsSynchStep == [ListNext]_allVars => [Next]_vars
  <1> SUFFICES ASSUME [ListNext]_allVars PROVE [Next]_vars
    OBVIOUS
  <1>1. ASSUME NEW t \in Threads, NEW o, NEW x, Call(t, o, x)
        PROVE  [Next]_vars
    BY <1>1 DEF Call, Next
  <1>2. ASSUME NEW t \in Threads, InLibrary(t)
        PROVE  [Next]_vars
    BY <1>2 DEF InLibrary, Next
  <1>3. ASSUME NEW t \in Threads, AppendItem(t)
        PROVE  [Next]_vars
    BY <1>3 DEF AppendItem, SignalOne, Next
  <1>4. ASSUME NEW t \in Threads, WaitForItem(t)
        PROVE  [Next]_vars
    BY <1>4 DEF WaitForItem, Next
  <1>5. ASSUME NEW t \in Threads, RemoveItem(t)
        PROVE  [Next]_vars
    BY <1>5 DEF RemoveItem
  <1>6. ASSUME NEW t \in Threads, ReleaseAndReturn(t)
        PROVE  [Next]_vars
    BY <1>6 DEF ReleaseAndReturn, Next
  <1>7. CASE UNCHANGED allVars
    BY <1>7 DEF allVars
  <1>8. Appenders \subseteq Threads /\ Removers \subseteq Threads
    BY SynchListAssumption
  <1>9. CASE ListNext
    <2>1. CASE \E t \in Appenders, x \in Items : Call(t, "append", x)
      BY <1>1, <1>8, <2>1
    <2>2. CASE \E t \in Removers : Call(t, "remove", NoItem)
      BY <1>1, <1>8, <2>2
    <2>3. CASE \E t \in Threads : Call(t, "apply", item[t]) \/ Run(t)
      BY <1>1, <1>2, <1>3, <1>4, <1>5, <1>6, <2>3 DEF Run
    <2> QED
      BY <1>9, <2>1, <2>2, <2>3 DEF ListNext
  <1> QED
    BY <1>7, <1>9

(* All that is proved of Lock and Condition holds where SynchList uses     *)
(* them.                                                                   *)
THEOREM ListUsesSynch == ListSpec => Spec
  <1>1. ListInit => Init
    BY DEF ListInit
  <1> QED
    BY <1>1, ListStepIsSynchStep, PTL DEF ListSpec, Spec

LEMMA SynchInvariant == ListSpec => []IInv
  BY ListUsesSynch, Inductive, PTL

-----------------------------------------------------------------------------
(* Type correctness.                                                       *)

(* What the steps do to op and pc.                                         *)
LEMMA LibraryKeepsOperations ==
    ASSUME TypeOK, NEW t \in Threads, InLibrary(t)
    PROVE  /\ pc[t] # "outside" /\ pc'[t] # "outside"
           /\ \A u \in Threads \ {t} : pc'[u] = pc[u]
  BY DEF InLibrary, Acquire, SetHolder, Sleep, Reacquire, DeleteWaiter, P, Goto, TypeOK

LEMMA InitListTypeOK == ListInit => ListTypeOK
  BY InitTypeOK, SynchListAssumption DEF ListInit, ListTypeOK, Operations, Init

LEMMA NextListTypeOK ==
    ASSUME IInv, IInv', ListTypeOK, [ListNext]_allVars
    PROVE  ListTypeOK'
  <1>0. /\ TypeOK' /\ TypeOK
        /\ pc \in [Threads -> Locations] /\ pc' \in [Threads -> Locations]
        /\ Appenders \subseteq Threads /\ Removers \subseteq Threads
    BY SynchListAssumption DEF IInv, TypeOK
  <1>1. ASSUME NEW t \in Threads, NEW o \in Operations \ {"none"}, NEW x \in Items \cup {NoItem},
               o = "append" => t \in Appenders /\ x \in Items, o = "remove" => t \in Removers, Call(t, o, x)
        PROVE  ListTypeOK'
    <2>1. calls + 1 \in 0 .. MaxCalls
      BY <1>1, SynchListAssumption DEF Call, ListTypeOK
    <2>2. pc' = [pc EXCEPT ![t] = "acquire"] /\ op' = [op EXCEPT ![t] = o]
      BY <1>1 DEF Call, CallAcquire, Goto
    <2>3. \A u \in Threads :
             /\ op'[u] = "none" <=> pc'[u] = "outside"
             /\ op'[u] = "append" => u \in Appenders /\ item'[u] \in Items
             /\ op'[u] = "remove" => u \in Removers
      BY <1>0, <1>1, <2>2 DEF ListTypeOK, Call
    <2> QED
      BY <1>0, <1>1, <2>1, <2>2, <2>3 DEF Call, ListTypeOK, Operations
  <1>2. ASSUME NEW t \in Threads, InLibrary(t)
        PROVE  ListTypeOK'
    BY <1>0, <1>2, LibraryKeepsOperations DEF InLibrary, ListTypeOK, listVars
  <1>3. ASSUME NEW t \in Threads, NEW x \in Items \cup {NoItem}, NEW q \in Seq(Items),
               Effect(t, q, x), op[t] # "none", pc' = pc
        PROVE  ListTypeOK'
    BY <1>0, <1>3 DEF Effect, ListTypeOK, Operations
  <1>4. ASSUME NEW t \in Threads, AppendItem(t)
        PROVE  ListTypeOK'
    <2>1. pc' = pc /\ op[t] = "append"
      BY <1>0, <1>4 DEF AppendItem, SignalOne, Signal, Goto
    <2>2. item[t] \in Items /\ Append(list, item[t]) \in Seq(Items)
      BY <2>1 DEF ListTypeOK
    <2> QED
      BY <1>3, <1>4, <2>1, <2>2 DEF AppendItem
  <1>5. ASSUME NEW t \in Threads, WaitForItem(t)
        PROVE  ListTypeOK'
    BY <1>0, <1>5 DEF WaitForItem, Wait, Goto, ListTypeOK, listVars
  <1>6. ASSUME NEW t \in Threads, RemoveItem(t)
        PROVE  ListTypeOK'
    <2>1. pc' = pc /\ op[t] = "remove" /\ list # <<>> /\ list \in Seq(Items)
      BY <1>6 DEF RemoveItem, vars, ListTypeOK
    <2>2. Tail(list) \in Seq(Items) /\ Head(list) \in Items
      BY <2>1
    <2> QED
      BY <1>3, <1>6, <2>1, <2>2 DEF RemoveItem, FirstItem
  <1>7. ASSUME NEW t \in Threads, ReleaseAndReturn(t)
        PROVE  ListTypeOK'
    BY <1>0, <1>7 DEF ReleaseAndReturn, Release, Goto, OperationEnded, ListTypeOK, Operations
  <1>8. CASE UNCHANGED allVars
    BY <1>0, <1>8 DEF ListTypeOK, allVars, listVars, vars
  <1>9. CASE ListNext
    <2>1. CASE \E t \in Appenders, x \in Items : Call(t, "append", x)
      BY <1>0, <1>1, <2>1 DEF Operations
    <2>2. CASE \E t \in Removers : Call(t, "remove", NoItem)
      BY <1>0, <1>1, <2>2 DEF Operations
    <2>3. CASE \E t \in Threads : Call(t, "apply", item[t]) \/ Run(t)
      <3>1. \A t \in Threads : item[t] \in Items \cup {NoItem}
        BY DEF ListTypeOK
      <3> QED
        BY <1>1, <1>2, <1>4, <1>5, <1>6, <1>7, <2>3, <3>1 DEF Run, Operations
    <2> QED
      BY <1>9, <2>1, <2>2, <2>3 DEF ListNext
  <1> QED
    BY <1>8, <1>9

LEMMA ListInductive == ListSpec => [](IInv /\ ListTypeOK)
  <1>1. IInv /\ IInv' /\ ListTypeOK /\ [ListNext]_allVars => ListTypeOK'
    BY NextListTypeOK
  <1> QED
    BY <1>1, InitListTypeOK, SynchInvariant, PTL DEF ListSpec

(* The list holds items only, and a thread that has an operation under way *)
(* is inside the library.                                                  *)
THEOREM ListTypeCorrect == ListSpec => []ListTypeOK
  BY ListInductive, PTL

-----------------------------------------------------------------------------
(* Refinement.                                                             *)

Status(t) ==
    CASE op[t] \in {"append", "remove"} -> "before"
      [] op[t] = "release" -> "after"
      [] OTHER -> "outside"

absStatus == [t \in Threads |-> Status(t)]

(* A step that changes the operation of one thread.                        *)
LEMMA StatusChanges ==
    ASSUME ListTypeOK, NEW t \in Threads, NEW o, op' = [op EXCEPT ![t] = o]
    PROVE  absStatus' = [absStatus EXCEPT ![t] = Status(t)']
  <1>1. \A u \in Threads \ {t} : absStatus'[u] = absStatus[u]
    BY DEF absStatus, Status, ListTypeOK
  <1>2. /\ absStatus = [u \in Threads |-> absStatus[u]]
        /\ absStatus' = [u \in Threads |-> absStatus'[u]]
        /\ absStatus'[t] = Status(t)'
    BY DEF absStatus
  <1> QED
    BY <1>1, <1>2, DifferAtOne

LEMMA AbstractListInit == ListInit => AbstractList!Init
  <1> SUFFICES ASSUME ListInit PROVE AbstractList!Init
    OBVIOUS
  <1>1. absStatus = [t \in Threads |-> "outside"]
    BY DEF ListInit, absStatus, Status
  <1>2. AbstractList!Callers = Threads
    BY SynchListAssumption DEF AbstractList!Callers
  <1> QED
    BY <1>1, <1>2 DEF ListInit, AbstractList!Init, absStatus, Status

LEMMA AbstractListNext ==
    ASSUME ListTypeOK, ListTypeOK', [ListNext]_allVars
    PROVE  [AbstractList!Next]_(AbstractList!vars)
  <1>0. /\ Appenders \subseteq Threads /\ Removers \subseteq Threads
        /\ AbstractList!Callers = Threads
        /\ op \in [Threads -> Operations]
    BY SynchListAssumption DEF AbstractList!Callers, ListTypeOK
  <1>1. ASSUME UNCHANGED <<list, op, item>>
        PROVE  UNCHANGED AbstractList!vars
    BY <1>1 DEF AbstractList!vars
  <1>2. ASSUME NEW t \in Appenders, NEW x \in Items, Call(t, "append", x)
        PROVE  AbstractList!Next
    <2>1. Status(t) = "outside" /\ Status(t)' = "before"
      BY <1>0, <1>2 DEF Call, CallAcquire, Goto, Status, ListTypeOK
    <2>2. absStatus' = [absStatus EXCEPT ![t] = "before"]
      BY <1>0, <1>2, <2>1, StatusChanges DEF Call
    <2>3. AbstractList!CallEnqueue(t, x)
      BY <1>0, <1>2, <2>1, <2>2 DEF Call, AbstractList!CallEnqueue, absStatus, Status
    <2> QED
      BY <2>3 DEF AbstractList!Next
  <1>3. ASSUME NEW t \in Removers, Call(t, "remove", NoItem)
        PROVE  AbstractList!Next
    <2>1. Status(t) = "outside" /\ Status(t)' = "before"
      BY <1>0, <1>3 DEF Call, CallAcquire, Goto, Status, ListTypeOK
    <2>2. absStatus' = [absStatus EXCEPT ![t] = "before"]
      BY <1>0, <1>3, <2>1, StatusChanges DEF Call
    <2>3. AbstractList!CallDequeue(t)
      BY <1>0, <1>3, <2>1, <2>2 DEF Call, AbstractList!CallDequeue, absStatus, Status
    <2> QED
      BY <2>3 DEF AbstractList!Next
  <1>4. ASSUME NEW t \in Threads, Call(t, "apply", item[t])
        PROVE  UNCHANGED AbstractList!vars
    <2>1. Status(t) = "outside" /\ Status(t)' = "outside"
      BY <1>0, <1>4 DEF Call, CallAcquire, Goto, Status, ListTypeOK
    <2>2. absStatus' = absStatus
      <3>1. absStatus' = [absStatus EXCEPT ![t] = "outside"]
        BY <1>0, <1>4, <2>1, StatusChanges DEF Call
      <3> QED
        BY <2>1, <3>1 DEF absStatus
    <2>3. item' = item /\ list' = list
      BY <1>4 DEF Call, ListTypeOK
    <2> QED
      BY <2>2, <2>3 DEF AbstractList!vars, absStatus, Status
  <1>5. ASSUME NEW t \in Threads, AppendItem(t)
        PROVE  AbstractList!Next
    <2>1. Status(t) = "before" /\ Status(t)' = "after" /\ t \in Appenders
      BY <1>0, <1>5 DEF AppendItem, Effect, Status, ListTypeOK
    <2>2. absStatus' = [absStatus EXCEPT ![t] = "after"]
      BY <1>0, <1>5, <2>1, StatusChanges DEF AppendItem, Effect
    <2>3. Len(list) # -1 /\ item' = item
      BY <1>5 DEF AppendItem, Effect, ListTypeOK
    <2>4. AbstractList!Put(t)
      BY <1>0, <1>5, <2>1, <2>2, <2>3
         DEF AppendItem, Effect, AbstractList!Put, absStatus, Status
    <2> QED
      BY <2>1, <2>4 DEF AbstractList!Next
  <1>6. ASSUME NEW t \in Threads, RemoveItem(t)
        PROVE  AbstractList!Next
    <2>1. Status(t) = "before" /\ Status(t)' = "after" /\ t \in Removers
      BY <1>0, <1>6 DEF RemoveItem, Effect, Status, ListTypeOK
    <2>2. absStatus' = [absStatus EXCEPT ![t] = "after"]
      BY <1>0, <1>6, <2>1, StatusChanges DEF RemoveItem, Effect
    <2>3. AbstractList!Take(t)
      BY <1>0, <1>6, <2>1, <2>2
         DEF RemoveItem, FirstItem, Effect, AbstractList!Take, absStatus, Status
    <2> QED
      BY <2>1, <2>3 DEF AbstractList!Next
  <1>7. ASSUME NEW t \in Threads, ReleaseAndReturn(t)
        PROVE  [AbstractList!Next]_(AbstractList!vars)
    <2>1. Status(t)' = "outside" /\ UNCHANGED <<list, item>>
      BY <1>0, <1>7 DEF ReleaseAndReturn, OperationEnded, Status
    <2>2. absStatus' = [absStatus EXCEPT ![t] = "outside"]
      BY <1>0, <1>7, <2>1, StatusChanges DEF ReleaseAndReturn, OperationEnded
    <2>3. CASE op[t] = "release"
      <3>1. AbstractList!Return(t)
        BY <1>0, <2>1, <2>2, <2>3 DEF AbstractList!Return, absStatus, Status
      <3> QED
        BY <1>0, <3>1 DEF AbstractList!Next
    <2>4. CASE op[t] = "apply"
      <3>1. absStatus' = absStatus
        BY <2>2, <2>4 DEF absStatus, Status
      <3> QED
        BY <2>1, <3>1 DEF AbstractList!vars, absStatus, Status
    <2> QED
      BY <1>7, <2>3, <2>4 DEF ReleaseAndReturn
  <1>8. ASSUME NEW t \in Threads, InLibrary(t) \/ WaitForItem(t)
        PROVE  UNCHANGED AbstractList!vars
    BY <1>1, <1>8 DEF InLibrary, WaitForItem, listVars
  <1>9. CASE UNCHANGED allVars
    BY <1>1, <1>9 DEF allVars, listVars
  <1>10. CASE ListNext
    BY <1>2, <1>3, <1>4, <1>5, <1>6, <1>7, <1>8, <1>10 DEF ListNext, Run
  <1> QED
    BY <1>9, <1>10

(* SynchList is a linearizable first-in first-out queue.                   *)
THEOREM ListImplementsQueue == ListSpec => ImplementsQueue
  <1>1. ListTypeOK /\ ListTypeOK' /\ [ListNext]_allVars
        => [AbstractList!Next]_(AbstractList!vars)
    BY AbstractListNext
  <1> QED
    BY <1>1, AbstractListInit, ListInductive, PTL
       DEF ListSpec, ImplementsQueue, AbstractList!Spec

-----------------------------------------------------------------------------
(* No item is stranded.                                                    *)

(* Only RemoveFront waits on the condition.                                *)
WaitsToRemove ==
    \A t \in Threads : pc[t] \in {"sleep", "reacquire", "reacquired"} => op[t] = "remove"

StrandedInv == WaitsToRemove /\ NoItemStranded

LEMMA NextWaitsToRemove ==
    ASSUME IInv, ListTypeOK, WaitsToRemove, [ListNext]_allVars
    PROVE  WaitsToRemove'
  <1>0. /\ pc \in [Threads -> Locations] /\ op \in [Threads -> Operations]
        /\ Appenders \subseteq Threads /\ Removers \subseteq Threads
    BY SynchListAssumption DEF IInv, TypeOK, ListTypeOK
  <1>1. ASSUME NEW t \in Threads, NEW o, NEW x, Call(t, o, x)
        PROVE  WaitsToRemove'
    BY <1>0, <1>1 DEF Call, CallAcquire, Goto, WaitsToRemove
  <1>2. ASSUME NEW t \in Threads, InLibrary(t)
        PROVE  WaitsToRemove'
    <2>1. op' = op /\ \A u \in Threads \ {t} : pc'[u] = pc[u]
      BY <1>0, <1>2, LibraryKeepsOperations DEF InLibrary, listVars, IInv
    <2>2. pc'[t] \in {"sleep", "reacquire", "reacquired"} =>
             pc[t] \in {"sleep", "reacquire", "reacquired"}
      BY <1>0, <1>2 DEF InLibrary, Acquire, SetHolder, Sleep, Reacquire, DeleteWaiter, P, Goto
    <2> QED
      BY <2>1, <2>2 DEF WaitsToRemove
  <1>3. ASSUME NEW t \in Threads, AppendItem(t) \/ RemoveItem(t)
        PROVE  WaitsToRemove'
    <2>1. pc' = pc /\ pc[t] = "inside" /\ \A u \in Threads \ {t} : op'[u] = op[u]
      BY <1>0, <1>3 DEF AppendItem, SignalOne, Signal, RemoveItem, Effect, Goto, vars
    <2> QED
      BY <2>1 DEF WaitsToRemove
  <1>4. ASSUME NEW t \in Threads, WaitForItem(t)
        PROVE  WaitsToRemove'
    BY <1>0, <1>4 DEF WaitForItem, Wait, Goto, WaitsToRemove, listVars
  <1>5. ASSUME NEW t \in Threads, ReleaseAndReturn(t)
        PROVE  WaitsToRemove'
    BY <1>0, <1>5 DEF ReleaseAndReturn, Release, Goto, OperationEnded, WaitsToRemove
  <1>6. CASE UNCHANGED allVars
    BY <1>6 DEF allVars, vars, listVars, WaitsToRemove
  <1>7. CASE ListNext
    BY <1>0, <1>1, <1>2, <1>3, <1>4, <1>5, <1>7 DEF ListNext, Run
  <1> QED
    BY <1>6, <1>7

(* More removers on their way and no more items.                           *)
LEMMA StrandedMonotone ==
    ASSUME ListTypeOK, ListTypeOK', NoItemStranded, OnTheWay \subseteq OnTheWay',
           list' = list, waitQueue' # <<>> => waitQueue # <<>>
    PROVE  NoItemStranded'
  <1>1. IsFiniteSet(OnTheWay')
    BY SynchListAssumption, FS_Subset DEF OnTheWay
  <1>2. Cardinality(OnTheWay) <= Cardinality(OnTheWay')
    BY <1>1, FS_Subset
  <1>3. /\ IsFiniteSet(OnTheWay) /\ Cardinality(OnTheWay) \in Nat
        /\ Cardinality(OnTheWay') \in Nat /\ Len(list) \in Nat
    BY <1>1, FS_Subset, FS_CardinalityType DEF ListTypeOK
  <1> QED
    BY <1>2, <1>3 DEF NoItemStranded

LEMMA NextNoItemStranded ==
    ASSUME IInv, IInv', ListTypeOK, ListTypeOK', StrandedInv, [ListNext]_allVars
    PROVE  NoItemStranded'
  <1>0. /\ pc \in [Threads -> Locations] /\ op \in [Threads -> Operations]
        /\ value \in [Semaphores -> Nat] /\ list \in Seq(Items)
        /\ Appenders \subseteq Threads /\ Removers \subseteq Threads
        /\ TheLock \in Semaphores /\ Threads \subseteq Semaphores /\ TheLock \notin Threads
    BY SynchListAssumption, SynchAssumption DEF IInv, TypeOK, ListTypeOK, Semaphores
  <1>a. IsFiniteSet(OnTheWay) /\ Cardinality(OnTheWay) \in Nat
    BY SynchListAssumption, FS_Subset, FS_CardinalityType DEF OnTheWay
  <1>1. ASSUME NEW t \in Threads, NEW o, NEW x, Call(t, o, x)
        PROVE  NoItemStranded'
    <2>1. OnTheWay \subseteq OnTheWay'
      BY <1>0, <1>1 DEF Call, CallAcquire, Goto, OnTheWay, Waiting, ListTypeOK
    <2> QED
      BY <1>1, <2>1, StrandedMonotone DEF Call, CallAcquire, StrandedInv
  <1>2. ASSUME NEW t \in Threads, InLibrary(t)
        PROVE  NoItemStranded'
    <2>1. Waiting' = Waiting
      <3>1. CASE Sleep(t) /\ ~Busy(t)
        <4>1. pc[t] = "sleep" /\ value[t] # 0 /\ pc' = [pc EXCEPT ![t] = "reacquire"]
              /\ \A u \in Threads \ {t} : value'[u] = value[u]
          BY <1>0, <3>1 DEF Sleep, P, Goto, Busy
        <4> QED
          BY <1>0, <4>1 DEF Waiting
      <3>2. CASE Sleep(t) /\ Busy(t)
        BY <1>0, <3>2 DEF Sleep, P, Goto, Waiting
      <3>3. CASE Acquire(t) \/ Reacquire(t)
        BY <1>0, <3>3 DEF Acquire, Reacquire, P, Goto, Waiting
      <3>4. CASE SetHolder(t) \/ DeleteWaiter(t)
        BY <1>0, <3>4 DEF SetHolder, DeleteWaiter, Goto, Waiting
      <3> QED
        BY <1>2, <3>1, <3>2, <3>3, <3>4 DEF InLibrary
    <2>2. list' = list /\ op' = op /\ waitQueue' = waitQueue
      BY <1>2 DEF InLibrary, listVars, Acquire, SetHolder, Sleep, Reacquire, DeleteWaiter
    <2> QED
      BY <2>1, <2>2, StrandedMonotone DEF StrandedInv, OnTheWay
  <1>3. ASSUME NEW t \in Threads, AppendItem(t)
        PROVE  NoItemStranded'
    <2>1. /\ op[t] = "append" /\ op' = [op EXCEPT ![t] = "release"]
          /\ list' = Append(list, item[t]) /\ pc' = pc
      BY <1>0, <1>3 DEF AppendItem, SignalOne, Signal, Effect, Goto
    <2>2. CASE waitQueue = <<>>
      BY <1>3, <2>2 DEF AppendItem, SignalOne, Signal, NoWaiter, Wake, NoItemStranded
    <2>3. CASE waitQueue # <<>>
      <3> DEFINE w == Head(waitQueue)
      <3>1. w \in Threads /\ pc[w] = "sleep" /\ value[w] = 0 /\ op[w] = "remove"
        BY <2>3, FirstWaiter DEF StrandedInv, WaitsToRemove
      <3>2. value' = [value EXCEPT ![w] = 1]
        BY <1>0, <1>3, <2>3, <3>1 DEF AppendItem, SignalOne, Signal, Wake, NoWaiter, V
      <3> HIDE DEF w
      <3>3. w \in Waiting /\ w \in Removers /\ w # t
        BY <2>1, <3>1 DEF Waiting, ListTypeOK
      <3>4. OnTheWay' = OnTheWay \cup {w}
        BY <1>0, <2>1, <3>1, <3>2, <3>3 DEF OnTheWay, Waiting
      <3>5. w \notin OnTheWay
        BY <3>3 DEF OnTheWay
      <3>6. Cardinality(OnTheWay') = Cardinality(OnTheWay) + 1
        BY <1>a, <3>4, <3>5, FS_AddElement
      <3>7. Len(list') = Len(list) + 1 /\ Len(list) \in Nat
        BY <1>0, <2>1
      <3> QED
        BY <1>a, <2>3, <3>6, <3>7 DEF StrandedInv, NoItemStranded
    <2> QED
      BY <2>2, <2>3
  <1>4. ASSUME NEW t \in Threads, WaitForItem(t)
        PROVE  NoItemStranded'
    <2>1. IsFiniteSet(OnTheWay')
      BY SynchListAssumption, FS_Subset DEF OnTheWay
    <2>2. Len(list') = 0 /\ Cardinality(OnTheWay') \in Nat
      BY <1>4, <2>1, FS_CardinalityType DEF WaitForItem, listVars
    <2> QED
      BY <2>2 DEF NoItemStranded
  <1>5. ASSUME NEW t \in Threads, RemoveItem(t)
        PROVE  NoItemStranded'
    <2>1. /\ op[t] = "remove" /\ op' = [op EXCEPT ![t] = "release"]
          /\ list # <<>> /\ list' = Tail(list) /\ pc[t] = "inside" /\ UNCHANGED vars
      BY <1>5 DEF RemoveItem, Effect
    <2>2. t \in OnTheWay /\ OnTheWay' = OnTheWay \ {t}
      BY <1>0, <2>1 DEF OnTheWay, Waiting, vars, ListTypeOK
    <2>3. Cardinality(OnTheWay') = Cardinality(OnTheWay) - 1
      BY <1>a, <2>2, FS_RemoveElement
    <2>4. Len(list') = Len(list) - 1 /\ Len(list) \in Nat
      BY <1>0, <2>1
    <2> QED
      BY <1>a, <2>1, <2>3, <2>4 DEF StrandedInv, NoItemStranded, vars
  <1>6. ASSUME NEW t \in Threads, ReleaseAndReturn(t)
        PROVE  NoItemStranded'
    <2>1. /\ op[t] \in {"release", "apply"} /\ op' = [op EXCEPT ![t] = "none"]
          /\ pc[t] = "inside" /\ pc' = [pc EXCEPT ![t] = "outside"]
          /\ \A u \in Threads : value'[u] = value[u]
          /\ UNCHANGED <<list, waitQueue>>
      BY <1>0, <1>6 DEF ReleaseAndReturn, OperationEnded, Release, Goto, V
    <2>2. OnTheWay' = OnTheWay
      BY <1>0, <2>1 DEF OnTheWay, Waiting
    <2> QED
      BY <2>1, <2>2, StrandedMonotone DEF StrandedInv
  <1>7. CASE UNCHANGED allVars
    BY <1>7 DEF allVars, vars, listVars, StrandedInv, NoItemStranded, OnTheWay, Waiting
  <1>8. CASE ListNext
    BY <1>0, <1>1, <1>2, <1>3, <1>4, <1>5, <1>6, <1>8 DEF ListNext, Run
  <1> QED
    BY <1>7, <1>8

(* While removers wait, every item has a remover on its way to it.         *)
THEOREM ListStrandsNoItem == ListSpec => []NoItemStranded
  <1>1. ListInit => StrandedInv
    BY DEF ListInit, Init, StrandedInv, WaitsToRemove, NoItemStranded
  <1>2. /\ IInv /\ IInv' /\ ListTypeOK /\ ListTypeOK' /\ StrandedInv
        /\ [ListNext]_allVars
        => StrandedInv'
    BY NextWaitsToRemove, NextNoItemStranded DEF StrandedInv
  <1>3. StrandedInv => NoItemStranded
    BY DEF StrandedInv
  <1> QED
    BY <1>1, <1>2, <1>3, ListInductive, PTL DEF ListSpec
=============================================================================
