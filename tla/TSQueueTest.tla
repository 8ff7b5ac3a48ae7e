---------------------------- MODULE TSQueueTest ----------------------------
(***************************************************************************)
(* The program of NTHU-OS-Pthreads/ts_queue_test.cpp: every produce thread *)
(* enqueues as many distinct values as there are consume threads, every    *)
(* consume thread dequeues as many values as there are produce threads,    *)
(* and main joins them all.  TSQueue's threads run until their loop ends.  *)
(***************************************************************************)
EXTENDS TSQueue, Sequences

CONSTANT MaxSpurious   \* bound: spurious returns of pthread_cond_wait per run

ASSUME MaxSpuriousAssumption == MaxSpurious \in Nat

VARIABLES sent,        \* per produce thread: how many values it has enqueued
          result,      \* per consume thread: the values it dequeued, in order
          spurious     \* number of spurious returns so far

allVars == <<vars, sent, result, spurious>>

NumProducer == Cardinality(Enqueuers)
NumConsumer == Cardinality(Dequeuers)

(* The values i of produce thread tid, from tid * num_consumer on.         *)
Value(t, i) == <<t, i>>
TestItems == {Value(t, i) : t \in Enqueuers, i \in 1 .. NumConsumer}

(* TSQueue<int> carries every value the produce threads enqueue.           *)
ASSUME TestItemsAssumption == TestItems \subseteq Items

TestInit ==
    /\ Init
    /\ sent = [t \in Enqueuers |-> 0]
    /\ result = [t \in Dequeuers |-> <<>>]
    /\ spurious = 0

MoreToProduce(t) == sent[t] < NumConsumer

(* One iteration of the loop of produce calls enqueue(i).                  *)
ProduceCall(t) ==
    /\ MoreToProduce(t)
    /\ CallEnqueue(t, Value(t, sent[t] + 1))
    /\ sent' = [sent EXCEPT ![t] = @ + 1]
    /\ UNCHANGED <<result, spurious>>

ProduceStep(t) ==
    /\ Enqueue(t) \/ Lock(t) \/ Unlock(t)
    /\ UNCHANGED <<sent, result, spurious>>

(* One iteration of the loop of consume calls dequeue ...                  *)
ConsumeCall(t) ==
    /\ Len(result[t]) < NumProducer
    /\ CallDequeue(t)
    /\ UNCHANGED <<sent, result, spurious>>

ConsumeStep(t) ==
    /\ Dequeue(t) \/ Lock(t)
    /\ UNCHANGED <<sent, result, spurious>>

(* ... and stores what it returned: result[tid][i] = val.                  *)
ConsumeReturn(t) ==
    /\ Unlock(t)
    /\ result' = [result EXCEPT ![t] = Append(@, item[t])]
    /\ UNCHANGED <<sent, spurious>>

TestSpuriousWake(t) ==
    /\ spurious < MaxSpurious
    /\ SpuriousWake(t)
    /\ spurious' = spurious + 1
    /\ UNCHANGED <<sent, result>>

Produced(t) == pc[t] = "outside" /\ sent[t] = NumConsumer
Consumed(t) == pc[t] = "outside" /\ Len(result[t]) = NumProducer

(* pthread_join has returned for every thread; main prints and exits.      *)
Joined == (\A t \in Enqueuers : Produced(t)) /\ (\A t \in Dequeuers : Consumed(t))

MainDone == Joined /\ UNCHANGED allVars

Produce(t) == ProduceCall(t) \/ ProduceStep(t)
Consume(t) == ConsumeCall(t) \/ ConsumeStep(t) \/ ConsumeReturn(t)

TestNext ==
    \/ \E t \in Enqueuers : Produce(t)
    \/ \E t \in Dequeuers : Consume(t)
    \/ \E t \in Threads : TestSpuriousWake(t)
    \/ MainDone

(* The kernel scheduler runs every thread that can run.                    *)
TestSpec ==
    /\ TestInit
    /\ [][TestNext]_allVars
    /\ \A t \in Enqueuers : WF_allVars(Produce(t))
    /\ \A t \in Dequeuers : WF_allVars(Consume(t))

-----------------------------------------------------------------------------
(* Type invariant of the test program's own variables.                     *)
TestTypeOK ==
    /\ TypeOK
    /\ sent \in [Enqueuers -> 0 .. NumConsumer]
    /\ result \in [Dequeuers -> Seq(Items)]
    /\ spurious \in 0 .. MaxSpurious

(* What consume thread t has received, a value still in hand included.     *)
Received(t) ==
    IF pc[t] \in {"signal", "unlock"} THEN Append(result[t], item[t]) ELSE result[t]

HasPut(t, i) ==
    \/ i < sent[t]
    \/ i = sent[t] /\ pc[t] \in {"signal", "unlock", "outside"}

Copies(v) ==
    Cardinality({i \in 1 .. size : Nth(i) = v}) +
    Cardinality({x \in Dequeuers \X (1 .. NumProducer) :
                    x[2] <= Len(Received(x[1])) /\ Received(x[1])[x[2]] = v})

(* No value is lost, duplicated or made up by concurrent calls: from the   *)
(* moment enqueue stores it, a value is in exactly one place, the ring or  *)
(* one thread's results, and before that moment it is nowhere.             *)
ExactlyOnce ==
    /\ TestTypeOK
    /\ \A t \in Enqueuers, i \in 1 .. NumConsumer :
           Copies(Value(t, i)) = (IF HasPut(t, i) THEN 1 ELSE 0)

(* FIFO as one consumer sees it: the values it received from one producer  *)
(* are in the order that producer enqueued them.                           *)
ProducerOrderKept ==
    \A t \in Dequeuers : \A j, k \in 1 .. Len(Received(t)) :
        j < k /\ Received(t)[j][1] = Received(t)[k][1]
            => Received(t)[j][2] < Received(t)[k][2]

(* Every thread returns from its loop, so main's joins all return: no      *)
(* interleaving leaves a caller blocked for ever on either condition.      *)
AllJoined == <>Joined
=============================================================================
