--------------------------- MODULE PipelineProofs ---------------------------
(***************************************************************************)
(* What the consumer controller of the pipeline guarantees for any number  *)
(* of lines, producers and consumers and any sizes and thresholds: its     *)
(* vector is sound, and it never cancels the only consumer that serves.    *)
(***************************************************************************)
EXTENDS Pipeline, FiniteSetTheorems, SequenceTheorems, TLAPS

(* The part of the state the controller and the loops of the consumers     *)
(* decide on.                                                              *)
poolVars == <<consumerAt, isCancel, controllerAt, consumers>>

-----------------------------------------------------------------------------
(* The inductive invariant.                                                *)
PoolTypeOK ==
    /\ consumerAt \in [Consumers -> {"none", "loop", "poll", "take", "put", "gone"}]
    /\ isCancel \in [Consumers -> BOOLEAN]
    /\ controllerAt \in {"check", "up", "flag", "cancel"}
    /\ consumers \in Seq(Consumers)

(* Consumers are created in the order of their numbers.                    *)
CreatedInOrder == \E k \in 0 .. MaxConsumers : Created = 1 .. k

(* The vector holds consumers that were created, each once.                *)
VectorOfCreated ==
    /\ \A i \in DOMAIN consumers : consumers[i] \in Created
    /\ \A i, j \in DOMAIN consumers : consumers[i] = consumers[j] => i = j

(* A consumer has been told to stop if it was created and is in the vector *)
(* no more, or is the one the controller is cancelling.                    *)
InVector(c) == \E i \in DOMAIN consumers : consumers[i] = c
Stopping(c) == controllerAt = "cancel" /\ c = Last(consumers)
CancelledExactly ==
    \A c \in Consumers : isCancel[c] <=> (c \in Created /\ ~InVector(c)) \/ Stopping(c)

(* A consumer leaves its loop only if it has been told to.                 *)
GoneIsCancelled == \A c \in Consumers : consumerAt[c] = "gone" => isCancel[c]

(* The controller cancels one of several, and so never the last one.       *)
VectorNotEmptied ==
    /\ Created # {} => Len(consumers) > 0
    /\ controllerAt \in {"flag", "cancel"} => Len(consumers) > 1

PoolInv ==
    /\ PoolTypeOK
    /\ CreatedInOrder
    /\ VectorOfCreated
    /\ CancelledExactly
    /\ GoneIsCancelled
    /\ VectorNotEmptied

-----------------------------------------------------------------------------
(* The number of consumers created is the number of the last one.          *)
LEMMA CreatedCount ==
    ASSUME NEW k \in 0 .. MaxConsumers, Created = 1 .. k
    PROVE  Cardinality(Created) = k
  <1>1. MaxConsumers \in Nat
    BY PipelineAssumption
  <1>2. k \in Int /\ k >= 0
    BY <1>1
  <1>3. Cardinality(1 .. k) = IF 1 > k THEN 0 ELSE k - 1 + 1
    BY <1>2, FS_Interval
  <1> QED
    BY <1>2, <1>3

(* The initial state has no consumers.                                     *)
LEMMA PoolInit == Init => PoolInv
  <1> SUFFICES ASSUME Init PROVE PoolInv
    OBVIOUS
  <1>1. PoolTypeOK
    BY DEF Init, PoolTypeOK
  <1>2. Created = {}
    BY DEF Init, Created
  <1>3. CreatedInOrder
    <2>1. 0 \in 0 .. MaxConsumers /\ 1 .. 0 = {}
      BY PipelineAssumption
    <2> QED
      BY <2>1, <1>2 DEF CreatedInOrder
  <1>4. consumers = <<>> /\ DOMAIN consumers = {}
    BY DEF Init
  <1>5. VectorOfCreated
    BY <1>4 DEF VectorOfCreated
  <1>6. CancelledExactly
    BY <1>2 DEF Init, CancelledExactly, Stopping
  <1>7. GoneIsCancelled
    BY DEF Init, GoneIsCancelled
  <1>8. VectorNotEmptied
    BY <1>2 DEF Init, VectorNotEmptied
  <1> QED
    BY <1>1, <1>3, <1>5, <1>6, <1>7, <1>8 DEF PoolInv

-----------------------------------------------------------------------------
(* A consumer that moves on in its loop: it was created before and does    *)
(* not leave unless it has been told to.                                   *)
LEMMA ConsumerMoves ==
    ASSUME PoolInv, NEW c \in Consumers,
           NEW there \in {"loop", "poll", "take", "put", "gone"},
           consumerAt[c] # "none",
           there = "gone" => isCancel[c],
           consumerAt' = [consumerAt EXCEPT ![c] = there],
           UNCHANGED <<isCancel, controllerAt, consumers>>
    PROVE  PoolInv'
  <1> USE DEF PoolInv
  <1>1. PoolTypeOK'
    BY DEF PoolTypeOK
  <1>2. \A d \in Consumers : consumerAt'[d] = IF d = c THEN there ELSE consumerAt[d]
    BY DEF PoolTypeOK
  <1>3. Created' = Created
    BY <1>2 DEF Created
  <1>4. CreatedInOrder'
    BY <1>3 DEF CreatedInOrder
  <1>5. VectorOfCreated'
    BY <1>3 DEF VectorOfCreated
  <1>6. CancelledExactly'
    BY <1>3 DEF CancelledExactly, InVector, Stopping
  <1>7. GoneIsCancelled'
    BY <1>2 DEF GoneIsCancelled
  <1>8. VectorNotEmptied'
    BY <1>3 DEF VectorNotEmptied
  <1> QED
    BY <1>1, <1>4, <1>5, <1>6, <1>7, <1>8

(* Whatever a consumer does keeps the pool sound.                          *)
LEMMA ConsumerKeepsPool ==
    ASSUME PoolInv, NEW c \in Consumers, Consumer(c)
    PROVE  PoolInv'
  <1>1. CASE ConsumerContinue(c)
    BY <1>1, ConsumerMoves DEF ConsumerContinue, controllerVars
  <1>2. CASE ConsumerExit(c)
    BY <1>2, ConsumerMoves DEF ConsumerExit, LoopEnds, controllerVars
  <1>3. CASE ConsumerPoll(c)
    <2>1. (IF Len(workerQueue) > 0 THEN "take" ELSE "loop") \in {"loop", "poll", "take", "put", "gone"}
      OBVIOUS
    <2> QED
      BY <1>3, <2>1, ConsumerMoves DEF ConsumerPoll, controllerVars
  <1>4. CASE ConsumerTake(c)
    BY <1>4, ConsumerMoves DEF ConsumerTake, controllerVars
  <1>5. CASE ConsumerPut(c)
    BY <1>5, ConsumerMoves DEF ConsumerPut, controllerVars
  <1> QED
    BY <1>1, <1>2, <1>3, <1>4, <1>5 DEF Consumer

-----------------------------------------------------------------------------
(* The controller's decision changes only what it does next.               *)
LEMMA CheckKeepsPool ==
    ASSUME PoolInv, ControllerCheck
    PROVE  PoolInv'
  <1> USE DEF PoolInv
  <1>1. UNCHANGED <<consumerAt, isCancel, consumers>>
    BY DEF ControllerCheck, consumerVars
  <1>2. controllerAt = "check" /\ controllerAt' \in {"check", "up", "flag"}
    BY DEF ControllerCheck
  <1>3. Created' = Created
    BY <1>1 DEF Created
  <1>4. PoolTypeOK'
    BY <1>1, <1>2 DEF PoolTypeOK
  <1>5. CreatedInOrder' /\ VectorOfCreated' /\ GoneIsCancelled'
    BY <1>1, <1>3 DEF CreatedInOrder, VectorOfCreated, GoneIsCancelled
  <1>6. CancelledExactly'
    BY <1>1, <1>2, <1>3 DEF CancelledExactly, InVector, Stopping
  <1>7. VectorNotEmptied'
    <2>1. controllerAt' = "flag" => Len(consumers) > 1
      BY <1>2 DEF ControllerCheck, TooMany
    <2> QED
      BY <2>1, <1>1, <1>2, <1>3 DEF VectorNotEmptied
  <1> QED
    BY <1>4, <1>5, <1>6, <1>7

(* A new consumer is created behind the others and put at the end.         *)
LEMMA ScaleUpKeepsPool ==
    ASSUME PoolInv, ScaleUp
    PROVE  PoolInv'
  <1> USE DEF PoolInv
  <1>1. /\ controllerAt = "up" /\ controllerAt' = "check"
        /\ isCancel' = isCancel
    BY DEF ScaleUp
  <1>2. CASE UNCHANGED <<consumerAt, consumers>>
    <2>1. Created' = Created
      BY <1>2 DEF Created
    <2>2. PoolTypeOK'
      BY <1>1, <1>2 DEF PoolTypeOK
    <2>3. CreatedInOrder' /\ VectorOfCreated' /\ GoneIsCancelled'
      BY <1>1, <1>2, <2>1 DEF CreatedInOrder, VectorOfCreated, GoneIsCancelled
    <2>4. CancelledExactly'
      BY <1>1, <1>2, <2>1 DEF CancelledExactly, InVector, Stopping
    <2>5. VectorNotEmptied'
      BY <1>1, <1>2, <2>1 DEF VectorNotEmptied
    <2> QED
      BY <2>2, <2>3, <2>4, <2>5
  <1>3. ASSUME NEW c \in Consumers,
               c = Cardinality(Created) + 1,
               consumerAt' = [consumerAt EXCEPT ![c] = "loop"],
               consumers' = Append(consumers, c)
        PROVE  PoolInv'
    <2>1. PICK k \in 0 .. MaxConsumers : Created = 1 .. k
      BY DEF CreatedInOrder
    <2>2. c = k + 1
      BY <1>3, <2>1, CreatedCount
    <2>3. MaxConsumers \in Nat /\ k \in Nat /\ k + 1 \in 0 .. MaxConsumers
      BY <2>2, PipelineAssumption DEF Consumers
    <2>4. \A d \in Consumers : consumerAt'[d] = IF d = c THEN "loop" ELSE consumerAt[d]
      BY <1>3 DEF PoolTypeOK
    <2>5. Created' = Created \cup {c}
      BY <2>4 DEF Created
    <2>6. c \notin Created
      BY <2>1, <2>2, <2>3
    <2>7. CreatedInOrder'
      <3>1. (1 .. k) \cup {k + 1} = 1 .. k + 1
        BY <2>3
      <3> QED
        BY <3>1, <2>1, <2>2, <2>3, <2>5 DEF CreatedInOrder
    <2>8. PoolTypeOK'
      BY <1>1, <1>3 DEF PoolTypeOK
    <2>9. /\ consumers \in Seq(Consumers)
          /\ Len(consumers) \in Nat
          /\ DOMAIN consumers = 1 .. Len(consumers)
          /\ Len(consumers') = Len(consumers) + 1
          /\ DOMAIN consumers' = 1 .. Len(consumers) + 1
          /\ \A i \in DOMAIN consumers : consumers'[i] = consumers[i]
          /\ consumers'[Len(consumers) + 1] = c
      BY <1>3 DEF PoolTypeOK
    <2>10. \A i \in DOMAIN consumers : consumers[i] # c
      BY <2>6 DEF VectorOfCreated
    <2>11. DOMAIN consumers' = DOMAIN consumers \cup {Len(consumers) + 1}
      BY <2>9
    <2>12. VectorOfCreated'
      BY <2>5, <2>9, <2>10, <2>11 DEF VectorOfCreated
    <2>13. \A d \in Consumers : InVector(d)' <=> InVector(d) \/ d = c
      BY <2>9, <2>11 DEF InVector
    <2>14. CancelledExactly'
      <3>1. \A d \in Consumers : ~Stopping(d) /\ ~Stopping(d)'
        BY <1>1 DEF Stopping
      <3> QED
        BY <3>1, <1>1, <2>5, <2>6, <2>13 DEF CancelledExactly
    <2>15. GoneIsCancelled'
      BY <1>1, <2>4 DEF GoneIsCancelled
    <2>16. VectorNotEmptied'
      BY <1>1, <2>9 DEF VectorNotEmptied
    <2> QED
      BY <2>7, <2>8, <2>12, <2>14, <2>15, <2>16
  <1> QED
    BY <1>2, <1>3 DEF ScaleUp

(* The flag is set for the last of several consumers.                      *)
LEMMA FlagKeepsPool ==
    ASSUME PoolInv, SetCancelFlag
    PROVE  PoolInv'
  <1> USE DEF PoolInv
  <1>1. /\ controllerAt = "flag" /\ controllerAt' = "cancel"
        /\ isCancel' = [isCancel EXCEPT ![Last(consumers)] = TRUE]
        /\ UNCHANGED <<consumerAt, consumers>>
    BY DEF SetCancelFlag
  <1>2. Created' = Created
    BY <1>1 DEF Created
  <1>3. Len(consumers) \in Nat /\ Len(consumers) > 1
    BY <1>1 DEF VectorNotEmptied, PoolTypeOK
  <1>4. /\ Len(consumers) \in DOMAIN consumers
        /\ Last(consumers) = consumers[Len(consumers)]
        /\ Last(consumers) \in Consumers
    BY <1>3 DEF PoolTypeOK, Last
  <1>5. \A d \in Consumers : isCancel'[d] = IF d = Last(consumers) THEN TRUE ELSE isCancel[d]
    BY <1>1, <1>4 DEF PoolTypeOK
  <1>6. PoolTypeOK'
    BY <1>1, <1>4 DEF PoolTypeOK
  <1>7. CreatedInOrder' /\ VectorOfCreated'
    BY <1>1, <1>2 DEF CreatedInOrder, VectorOfCreated
  <1>8. GoneIsCancelled'
    BY <1>1, <1>5 DEF GoneIsCancelled
  <1>9. CancelledExactly'
    <2>1. \A d \in Consumers : /\ InVector(d)' <=> InVector(d)
                               /\ ~Stopping(d)
                               /\ Stopping(d)' <=> d = Last(consumers)
      BY <1>1 DEF InVector, Stopping
    <2> QED
      BY <2>1, <1>2, <1>5 DEF CancelledExactly
  <1>10. VectorNotEmptied'
    BY <1>1, <1>2, <1>3 DEF VectorNotEmptied
  <1> QED
    BY <1>6, <1>7, <1>8, <1>9, <1>10

(* The one that is cancelled leaves the vector, and others stay in it.     *)
LEMMA PopKeepsPool ==
    ASSUME PoolInv, CancelAndPop
    PROVE  PoolInv'
  <1> USE DEF PoolInv
  <1>1. /\ controllerAt = "cancel" /\ controllerAt' = "check"
        /\ consumers' = Front(consumers)
        /\ UNCHANGED <<consumerAt, isCancel>>
    BY DEF CancelAndPop, Popped, consumerVars
  <1>2. Created' = Created
    BY <1>1 DEF Created
  <1>3. consumers \in Seq(Consumers) /\ Len(consumers) \in Nat /\ Len(consumers) > 1
    BY <1>1 DEF VectorNotEmptied, PoolTypeOK
  <1>4. /\ Len(consumers) \in DOMAIN consumers
        /\ Last(consumers) = consumers[Len(consumers)]
    BY <1>3 DEF Last
  <1>5. /\ consumers' \in Seq(Consumers)
        /\ Len(consumers') = Len(consumers) - 1
        /\ DOMAIN consumers' = 1 .. Len(consumers) - 1
        /\ \A i \in 1 .. Len(consumers) - 1 : consumers'[i] = consumers[i]
    BY <1>1, <1>3 DEF Front
  <1>6. DOMAIN consumers' = DOMAIN consumers \ {Len(consumers)}
    BY <1>3, <1>5
  <1>7. PoolTypeOK'
    BY <1>1, <1>5 DEF PoolTypeOK
  <1>8. CreatedInOrder' /\ GoneIsCancelled'
    BY <1>1, <1>2 DEF CreatedInOrder, GoneIsCancelled
  <1>9. VectorOfCreated'
    BY <1>2, <1>5, <1>6 DEF VectorOfCreated
  <1>10. \A d \in Consumers : InVector(d)' <=> InVector(d) /\ d # Last(consumers)
    BY <1>4, <1>5, <1>6 DEF InVector, VectorOfCreated
  <1>11. CancelledExactly'
    <2>1. \A d \in Consumers : /\ Stopping(d) <=> d = Last(consumers)
                               /\ ~Stopping(d)'
      BY <1>1 DEF Stopping
    <2>2. Last(consumers) \in Created
      BY <1>4 DEF VectorOfCreated
    <2> QED
      BY <2>1, <2>2, <1>1, <1>2, <1>10 DEF CancelledExactly
  <1>12. VectorNotEmptied'
    BY <1>1, <1>3, <1>5 DEF VectorNotEmptied
  <1> QED
    BY <1>7, <1>8, <1>9, <1>11, <1>12

-----------------------------------------------------------------------------
(* The other threads do not touch the pool.                                *)
LEMMA OthersKeepPool ==
    ASSUME PoolInv, UNCHANGED poolVars
    PROVE  PoolInv'
  BY DEF PoolInv, poolVars, PoolTypeOK, CreatedInOrder, VectorOfCreated, CancelledExactly,
         GoneIsCancelled, VectorNotEmptied, Created, InVector, Stopping

(* Every step of the program keeps the pool sound.                         *)
LEMMA PoolNext == PoolInv /\ [Next]_vars => PoolInv'
  <1> SUFFICES ASSUME PoolInv, [Next]_vars PROVE PoolInv'
    OBVIOUS
  <1>1. CASE ReadLine
    BY <1>1, OthersKeepPool DEF ReadLine, poolVars, consumerVars, controllerVars
  <1>2. CASE WriteLine
    BY <1>2, OthersKeepPool DEF WriteLine, poolVars, consumerVars, controllerVars
  <1>3. ASSUME NEW p \in Producers, Producer(p)
        PROVE  PoolInv'
    BY <1>3, OthersKeepPool DEF Producer, ProducerPoll, ProducerTake, ProducerPut,
                                poolVars, consumerVars, controllerVars
  <1>4. ASSUME NEW c \in Consumers, Consumer(c)
        PROVE  PoolInv'
    BY <1>4, ConsumerKeepsPool
  <1>5. CASE Controller
    BY <1>5, CheckKeepsPool, ScaleUpKeepsPool, FlagKeepsPool, PopKeepsPool DEF Controller
  <1>6. CASE Main
    BY <1>6, OthersKeepPool DEF Main, JoinReader, JoinWriter, DeleteThreads, DeleteQueue,
                                Return, poolVars, consumerVars, controllerVars
  <1>7. CASE UNCHANGED vars
    BY <1>7, OthersKeepPool DEF vars, poolVars, consumerVars, controllerVars
  <1> QED
    BY <1>1, <1>2, <1>3, <1>4, <1>5, <1>6, <1>7 DEF Next

(* The controller's vector and the flags agree in every reachable state.   *)
THEOREM PoolInductive == Spec => []PoolInv
  BY PoolInit, PoolNext, PTL DEF Spec

-----------------------------------------------------------------------------
(* VectorInv, the property the runs check: no consumer that may have       *)
(* deleted itself is left in ConsumerController::consumers, where the next *)
(* scaling down would cancel it again.                                     *)
THEOREM VectorSound == Spec => []VectorInv
  <1>1. PoolInv => VectorInv
    <2> SUFFICES ASSUME PoolInv PROVE VectorInv
      OBVIOUS
    <2> USE DEF PoolInv
    <2>1. consumers \in Seq(Consumers) /\ DOMAIN consumers = 1 .. Len(consumers)
      BY DEF PoolTypeOK
    <2>2. ToSet(consumers) = {c \in Consumers : InVector(c)}
      BY <2>1 DEF ToSet, InVector
    <2>3. BeingCancelled = {c \in Consumers : Stopping(c)}
      <3>1. controllerAt = "cancel" => Last(consumers) \in Consumers
        <4>1. controllerAt = "cancel" => Len(consumers) > 1
          BY DEF VectorNotEmptied
        <4> QED
          BY <4>1, <2>1 DEF Last
      <3> QED
        BY <3>1 DEF BeingCancelled, Stopping
    <2>4. \A c \in Consumers : Stopping(c) => InVector(c)
      <3>1. controllerAt = "cancel" => Len(consumers) > 1
        BY DEF VectorNotEmptied
      <3>2. controllerAt = "cancel" => Len(consumers) \in DOMAIN consumers
        BY <3>1, <2>1
      <3> QED
        BY <3>2 DEF Stopping, InVector, Last
    <2>5. Created \ ToSet(consumers) = {c \in Consumers : isCancel[c]} \ BeingCancelled
      BY <2>2, <2>3, <2>4 DEF CancelledExactly, Created
    <2>6. BeingCancelled \subseteq {c \in Consumers : isCancel[c]}
      BY <2>3 DEF CancelledExactly
    <2>7. IsInjective(consumers)
      BY DEF IsInjective, VectorOfCreated
    <2> QED
      BY <2>5, <2>6, <2>7 DEF VectorInv, GoneIsCancelled
  <1> QED
    BY <1>1, PoolInductive, PTL

(* OneConsumerStays, the property the runs check: whenever consumers were  *)
(* created, ConsumerController::process has left one of them in its loop.  *)
(* It is the first of the vector, which is cancelled only if it is also    *)
(* the last.                                                               *)
THEOREM AlwaysOneConsumer == Spec => []OneConsumerStays
  <1>1. PoolInv => OneConsumerStays
    <2> SUFFICES ASSUME PoolInv, Created # {}
                 PROVE  \E c \in Created : ~isCancel[c] /\ consumerAt[c] # "gone"
      BY DEF OneConsumerStays
    <2> USE DEF PoolInv
    <2>1. Len(consumers) \in Nat /\ Len(consumers) > 0 /\ DOMAIN consumers = 1 .. Len(consumers)
      BY DEF VectorNotEmptied, PoolTypeOK
    <2>2. 1 \in DOMAIN consumers /\ Len(consumers) \in DOMAIN consumers
      BY <2>1
    <2>3. consumers[1] \in Created /\ consumers[1] \in Consumers /\ InVector(consumers[1])
      BY <2>2 DEF VectorOfCreated, InVector, Created
    <2>4. ~Stopping(consumers[1])
      <3>1. controllerAt = "cancel" => Len(consumers) # 1
        BY <2>1 DEF VectorNotEmptied
      <3> QED
        BY <3>1, <2>2 DEF Stopping, Last, VectorOfCreated
    <2>5. ~isCancel[consumers[1]]
      BY <2>3, <2>4 DEF CancelledExactly
    <2> QED
      BY <2>3, <2>5 DEF GoneIsCancelled
  <1> QED
    BY <1>1, PoolInductive, PTL

-----------------------------------------------------------------------------
(* Lines in a queue or in the hands of threads: how many places of f, a    *)
(* sequence or a function of threads, hold line l.                         *)
Count(f, l) == Cardinality({x \in DOMAIN f : f[x] = l})

(* Finite places hold a number of lines.                                   *)
LEMMA CountNat ==
    ASSUME NEW f, IsFiniteSet(DOMAIN f), NEW l
    PROVE  Count(f, l) \in Nat /\ IsFiniteSet({x \in DOMAIN f : f[x] = l})
  <1>1. {x \in DOMAIN f : f[x] = l} \in SUBSET DOMAIN f
    OBVIOUS
  <1>2. IsFiniteSet({x \in DOMAIN f : f[x] = l})
    BY <1>1, FS_Subset
  <1> QED
    BY <1>2, FS_CardinalityType DEF Count

(* A queue has finitely many slots.                                        *)
LEMMA QueueFinite ==
    ASSUME NEW q \in Seq(Lines)
    PROVE  IsFiniteSet(DOMAIN q)
  <1>1. DOMAIN q = 1 .. Len(q) /\ 1 \in Int /\ Len(q) \in Int
    OBVIOUS
  <1> QED
    BY <1>1, FS_Interval

(* Enqueuing adds one place, for the line enqueued.                        *)
LEMMA CountAppend ==
    ASSUME NEW q \in Seq(Lines), NEW x \in Lines, NEW l
    PROVE  Count(Append(q, x), l) = Count(q, l) + (IF x = l THEN 1 ELSE 0)
  <1> DEFINE r == Append(q, x)
             old == {i \in DOMAIN q : q[i] = l}
             new == {i \in DOMAIN r : r[i] = l}
             n == Len(q) + 1
  <1>1. /\ Len(q) \in Nat
        /\ DOMAIN q = 1 .. Len(q)
        /\ DOMAIN r = 1 .. n
        /\ r[n] = x
        /\ \A i \in 1 .. Len(q) : r[i] = q[i]
    OBVIOUS
  <1> HIDE DEF r
  <1>2. DOMAIN r = DOMAIN q \cup {n} /\ n \notin DOMAIN q
    BY <1>1
  <1>3. IsFiniteSet(old) /\ Cardinality(old) \in Nat
    BY QueueFinite, CountNat DEF Count
  <1>4. CASE x = l
    <2>1. new = old \cup {n} /\ n \notin old
      BY <1>1, <1>2, <1>4
    <2>2. Cardinality(old \cup {n}) = Cardinality(old) + 1
      BY <2>1, <1>3, FS_AddElement
    <2> QED
      BY <2>1, <2>2, <1>4 DEF Count, r
  <1>5. CASE x # l
    <2>1. new = old
      BY <1>1, <1>2, <1>5
    <2>2. Count(Append(q, x), l) = Count(q, l) /\ Count(q, l) \in Nat
      BY <2>1, <1>3 DEF Count, r
    <2> QED
      BY <2>2, <1>5
  <1> QED
    BY <1>4, <1>5

(* Dequeuing gives one place up, that of the line dequeued.                *)
LEMMA CountTail ==
    ASSUME NEW q \in Seq(Lines), q # <<>>, NEW l
    PROVE  Count(q, l) = Count(Tail(q), l) + (IF Head(q) = l THEN 1 ELSE 0)
  <1> DEFINE r == Tail(q)
             old == {i \in DOMAIN q : q[i] = l}
             new == {i \in DOMAIN r : r[i] = l}
             rest == old \ {1}
             shift == [i \in new |-> i + 1]
  <1>1. /\ Len(q) \in Nat /\ Len(q) > 0
        /\ DOMAIN q = 1 .. Len(q)
        /\ Tail(q) \in Seq(Lines)
        /\ Len(Tail(q)) = Len(q) - 1
        /\ DOMAIN Tail(q) = 1 .. Len(q) - 1
        /\ \A i \in 1 .. Len(q) - 1 : Tail(q)[i] = q[i + 1]
        /\ Head(q) = q[1]
    BY HeadTailProperties
  <1>2. IsFiniteSet(old) /\ IsFiniteSet(new)
        /\ Cardinality(old) \in Nat /\ Cardinality(new) \in Nat
    BY <1>1, QueueFinite, CountNat DEF Count
  <1>3. /\ DOMAIN r = 1 .. Len(q) - 1
        /\ \A i \in 1 .. Len(q) - 1 : r[i] = q[i + 1]
    BY <1>1
  <1> HIDE DEF r
  <1>4. shift \in Bijection(new, rest)
    <2>1. shift \in [new -> rest]
      BY <1>1, <1>3
    <2>2. \A i, j \in new : shift[i] = shift[j] => i = j
      BY <1>3
    <2>3. \A j \in rest : \E i \in new : shift[i] = j
      <3>1. SUFFICES ASSUME NEW j \in rest PROVE \E i \in new : shift[i] = j
        OBVIOUS
      <3>2. j - 1 \in 1 .. Len(q) - 1 /\ q[j] = l /\ (j - 1) + 1 = j
        BY <1>1
      <3>3. j - 1 \in new
        BY <3>2, <1>3
      <3>4. shift[j - 1] = j
        BY <3>2, <3>3
      <3> QED
        BY <3>3, <3>4
    <2> HIDE DEF shift, new, rest
    <2> QED
      BY <2>1, <2>2, <2>3 DEF Bijection, Injection, Surjection, IsInjective
  <1>5. Cardinality(rest) = Cardinality(new)
    <2> HIDE DEF shift, new, rest
    <2>1. ExistsBijection(new, rest)
      BY <1>4 DEF ExistsBijection
    <2> QED
      BY <2>1, <1>2, FS_Bijection
  <1>6. Cardinality(rest) = IF 1 \in old THEN Cardinality(old) - 1 ELSE Cardinality(old)
    BY <1>2, FS_RemoveElement
  <1>7. 1 \in old <=> Head(q) = l
    BY <1>1
  <1>8. Count(q, l) = Cardinality(old) /\ Count(Tail(q), l) = Cardinality(new)
    BY DEF Count, r
  <1> HIDE DEF old, new, rest
  <1> QED
    BY <1>2, <1>5, <1>6, <1>7, <1>8

(* Between f and g one thread s has taken a line; from g to f it gives it  *)
(* away.                                                                   *)
LEMMA CountTaken ==
    ASSUME NEW S, IsFiniteSet(S), NEW f \in [S -> Held], NEW g \in [S -> Held],
           NEW s \in S, f[s] \notin Lines, \A x \in S \ {s} : g[x] = f[x], NEW l \in Lines
    PROVE  Count(g, l) = Count(f, l) + (IF g[s] = l THEN 1 ELSE 0)
  <1> DEFINE old == {x \in DOMAIN f : f[x] = l}
             new == {x \in DOMAIN g : g[x] = l}
  <1>1. DOMAIN f = S /\ DOMAIN g = S /\ s \notin old
    OBVIOUS
  <1>2. IsFiniteSet(old) /\ Cardinality(old) \in Nat
    BY <1>1, CountNat DEF Count
  <1>3. CASE g[s] = l
    <2>1. new = old \cup {s}
      BY <1>1, <1>3
    <2>2. Cardinality(old \cup {s}) = Cardinality(old) + 1
      BY <1>1, <1>2, FS_AddElement
    <2> QED
      BY <2>1, <2>2, <1>3 DEF Count
  <1>4. CASE g[s] # l
    <2>1. new = old
      BY <1>1, <1>4
    <2>2. Count(g, l) = Count(f, l) /\ Count(f, l) \in Nat
      BY <2>1, <1>2 DEF Count
    <2> QED
      BY <2>2, <1>4
  <1> QED
    BY <1>3, <1>4

-----------------------------------------------------------------------------
(* The inductive invariant for the lines.                                  *)
LineTypeOK ==
    /\ readerLines \in 0 .. NumLines
    /\ writerLines \in 0 .. NumLines
    /\ written \in [Lines -> Nat]
    /\ inputQueue \in Seq(Lines) /\ Len(inputQueue) <= InputSize
    /\ workerQueue \in Seq(Lines) /\ Len(workerQueue) <= WorkerSize
    /\ outputQueue \in Seq(Lines) /\ Len(outputQueue) <= OutputSize
    /\ producerAt \in [Producers -> {"poll", "take", "put"}]
    /\ producerItem \in [Producers -> Held]
    /\ consumerItem \in [Consumers -> Held]
    /\ mainAt \in {"reader", "writer", "delete", "exit"}
    /\ deleted \subseteq {"producers", "controller", "reader", "writer", "transformer",
                          "inputQueue", "workerQueue", "outputQueue"}

(* A thread has a line in its hands exactly from its dequeue to its        *)
(* enqueue.                                                                *)
HandsInv ==
    /\ \A p \in Producers : producerAt[p] = "put" <=> producerItem[p] # NoLine
    /\ \A c \in Consumers : consumerAt[c] = "put" <=> consumerItem[c] # NoLine

(* Conservation, with all places counted alike.                            *)
Unread(l) == IF l >= NextLine THEN 1 ELSE 0
Total(l) == Unread(l) + Count(inputQueue, l) + Count(producerItem, l) + Count(workerQueue, l)
            + Count(consumerItem, l) + Count(outputQueue, l) + written[l]
PlacedOnce == \A l \in Lines : Total(l) = 1

(* The writer has written as many lines as it has counted down.            *)
InFile == {l \in Lines : written[l] = 1}
WrittenCounted == Cardinality(InFile) = NumLines - writerLines

(* main deletes only when the writer has been joined.                      *)
DeleteInv == mainAt \in {"delete", "exit"} => writerLines = 0

LineInv ==
    /\ LineTypeOK
    /\ HandsInv
    /\ PlacedOnce
    /\ WrittenCounted
    /\ DeleteInv

(* The lines and the sets of threads are finite, and no line is NoLine.    *)
LEMMA FiniteParts ==
    /\ IsFiniteSet(Lines) /\ Cardinality(Lines) = NumLines /\ NumLines \in Nat
    /\ IsFiniteSet(Producers) /\ IsFiniteSet(Consumers)
    /\ NoLine \notin Lines /\ Lines \subseteq Int
  <1>1. NumLines \in Nat /\ MaxConsumers \in Nat /\ IsFiniteSet(Producers)
    BY PipelineAssumption
  <1>2. /\ IsFiniteSet(1 .. NumLines)
        /\ Cardinality(1 .. NumLines) = IF 1 > NumLines THEN 0 ELSE NumLines - 1 + 1
    BY <1>1, FS_Interval
  <1>3. IsFiniteSet(1 .. MaxConsumers)
    BY <1>1, FS_Interval
  <1> QED
    BY <1>1, <1>2, <1>3 DEF Lines, Consumers, NoLine

(* Every count is a number.                                                *)
LEMMA CountsAreNumbers ==
    ASSUME LineTypeOK, NEW l \in Lines
    PROVE  /\ Unread(l) \in Nat /\ written[l] \in Nat
           /\ Count(inputQueue, l) \in Nat /\ Count(workerQueue, l) \in Nat
           /\ Count(outputQueue, l) \in Nat
           /\ Count(producerItem, l) \in Nat /\ Count(consumerItem, l) \in Nat
  <1>1. /\ IsFiniteSet(DOMAIN inputQueue) /\ IsFiniteSet(DOMAIN workerQueue)
        /\ IsFiniteSet(DOMAIN outputQueue)
    BY QueueFinite DEF LineTypeOK
  <1>2. DOMAIN producerItem = Producers /\ DOMAIN consumerItem = Consumers
    BY DEF LineTypeOK
  <1>3. Unread(l) \in Nat /\ written[l] \in Nat
    BY DEF LineTypeOK, Unread
  <1> QED
    BY <1>1, <1>2, <1>3, FiniteParts, CountNat

-----------------------------------------------------------------------------
(* Initially all lines are in the input file.                              *)
LEMMA LineInit == Init => LineInv
  <1> SUFFICES ASSUME Init PROVE LineInv
    OBVIOUS
  <1>1. NumLines \in Nat /\ {InputSize, WorkerSize, OutputSize} \subseteq Nat
    BY PipelineAssumption
  <1>2. LineTypeOK
    <2>1. <<>> \in Seq(Lines) /\ Len(<<>>) = 0
      OBVIOUS
    <2> QED
      BY <1>1, <2>1 DEF Init, LineTypeOK, Held
  <1>3. HandsInv
    BY DEF Init, HandsInv
  <1>4. PlacedOnce
    <2> SUFFICES ASSUME NEW l \in Lines PROVE Total(l) = 1
      BY DEF PlacedOnce
    <2>1. Unread(l) = 1
      BY <1>1 DEF Init, Unread, NextLine, Lines
    <2>2. \A f : {x \in DOMAIN f : f[x] = l} = {} => Count(f, l) = 0
      BY FS_EmptySet DEF Count
    <2>3. Count(inputQueue, l) = 0 /\ Count(workerQueue, l) = 0 /\ Count(outputQueue, l) = 0
      BY <2>2 DEF Init
    <2>4. Count(producerItem, l) = 0 /\ Count(consumerItem, l) = 0
      <3>1. l # NoLine
        BY FiniteParts
      <3> QED
        BY <2>2, <3>1 DEF Init
    <2>5. written[l] = 0
      BY DEF Init
    <2> QED
      BY <2>1, <2>3, <2>4, <2>5 DEF Total
  <1>5. WrittenCounted
    <2>1. InFile = {}
      BY DEF Init, InFile
    <2> QED
      BY <1>1, <2>1, FS_EmptySet DEF Init, WrittenCounted
  <1>6. DeleteInv
    BY DEF Init, DeleteInv
  <1> QED
    BY <1>2, <1>3, <1>4, <1>5, <1>6 DEF LineInv

-----------------------------------------------------------------------------
(* Steps that move no line.                                                *)
LEMMA NoLineMoves ==
    ASSUME LineInv,
           UNCHANGED <<readerLines, writerLines, written, inputQueue, workerQueue,
                       outputQueue, producerItem, consumerItem>>,
           producerAt' \in [Producers -> {"poll", "take", "put"}],
           \A p \in Producers : producerAt'[p] = "put" <=> producerAt[p] = "put",
           \A c \in Consumers : consumerAt'[c] = "put" <=> consumerAt[c] = "put",
           mainAt' \in {"reader", "writer", "delete", "exit"},
           mainAt' \in {"delete", "exit"} => writerLines = 0,
           deleted' \subseteq {"producers", "controller", "reader", "writer", "transformer",
                               "inputQueue", "workerQueue", "outputQueue"}
    PROVE  LineInv'
  <1> USE DEF LineInv
  <1>1. LineTypeOK'
    BY DEF LineTypeOK
  <1>2. HandsInv'
    BY DEF HandsInv
  <1>3. PlacedOnce'
    BY DEF PlacedOnce, Total, Unread, NextLine, Count
  <1>4. WrittenCounted'
    BY DEF WrittenCounted, InFile
  <1>5. DeleteInv'
    BY DEF DeleteInv
  <1> QED
    BY <1>1, <1>2, <1>3, <1>4, <1>5

(* Reader::process puts the next line into the input queue.                *)
LEMMA ReadLineKeepsLines ==
    ASSUME LineInv, ReadLine
    PROVE  LineInv'
  <1> USE DEF LineInv
  <1>1. /\ readerLines > 0 /\ readerLines' = readerLines - 1
        /\ Len(inputQueue) < InputSize
        /\ inputQueue' = Append(inputQueue, NextLine)
        /\ UNCHANGED <<writerLines, written, workerQueue, outputQueue, producerAt, producerItem,
                       consumerAt, consumerItem, mainAt, deleted>>
    BY DEF ReadLine, LinesLeft, producerVars, consumerVars, mainVars
  <1>2. readerLines \in 1 .. NumLines /\ NumLines \in Nat /\ NextLine \in Lines
    BY <1>1, FiniteParts DEF LineTypeOK, NextLine, Lines
  <1>3. readerLines' \in 0 .. NumLines /\ NextLine' = NextLine + 1
    BY <1>1, <1>2 DEF NextLine
  <1>4. inputQueue' \in Seq(Lines) /\ Len(inputQueue') = Len(inputQueue) + 1
    BY <1>1, <1>2 DEF LineTypeOK
  <1>5. Len(inputQueue') <= InputSize
    BY <1>1, <1>4, PipelineAssumption DEF LineTypeOK
  <1>6. LineTypeOK'
    BY <1>1, <1>3, <1>4, <1>5 DEF LineTypeOK
  <1>7. HandsInv'
    BY <1>1 DEF HandsInv
  <1>8. PlacedOnce'
    <2> SUFFICES ASSUME NEW l \in Lines PROVE Total(l)' = 1
      BY DEF PlacedOnce
    <2>1. Count(inputQueue', l) = Count(inputQueue, l) + (IF NextLine = l THEN 1 ELSE 0)
      BY <1>1, <1>2, CountAppend DEF LineTypeOK
    <2>2. Unread(l) = Unread(l)' + (IF NextLine = l THEN 1 ELSE 0)
      <3>1. l \in Int /\ NextLine \in Int
        BY <1>2, FiniteParts
      <3> QED
        BY <3>1, <1>3 DEF Unread
    <2>3. Total(l) = 1
      BY DEF PlacedOnce
    <2>4. Unread(l)' \in Nat
      BY DEF Unread
    <2> QED
      BY <2>1, <2>2, <2>3, <2>4, <1>1, CountsAreNumbers DEF Total
  <1>9. WrittenCounted' /\ DeleteInv'
    BY <1>1 DEF WrittenCounted, InFile, DeleteInv
  <1> QED
    BY <1>6, <1>7, <1>8, <1>9

(* Writer::process writes the first line of the output queue, which was    *)
(* not in the file before.                                                 *)
LEMMA WriteLineKeepsLines ==
    ASSUME LineInv, WriteLine
    PROVE  LineInv'
  <1> USE DEF LineInv
  <1> DEFINE h == Head(outputQueue)
  <1>1. /\ writerLines > 0 /\ writerLines' = writerLines - 1
        /\ outputQueue # <<>> /\ outputQueue' = Tail(outputQueue)
        /\ written' = [written EXCEPT ![h] = @ + 1]
        /\ UNCHANGED <<readerLines, inputQueue, workerQueue, producerAt, producerItem,
                       consumerAt, consumerItem, mainAt, deleted>>
    BY DEF WriteLine, LinesLeft, producerVars, consumerVars, mainVars
  <1>2. /\ h \in Lines /\ outputQueue' \in Seq(Lines)
        /\ Len(outputQueue) \in Nat /\ Len(outputQueue') = Len(outputQueue) - 1
    BY <1>1 DEF LineTypeOK
  <1>3. \A l \in Lines : Count(outputQueue, l) = Count(outputQueue', l) + (IF h = l THEN 1 ELSE 0)
    BY <1>1, CountTail DEF LineTypeOK
  <1> HIDE DEF h
  <1>4. \A l \in Lines : written'[l] = written[l] + (IF h = l THEN 1 ELSE 0)
    BY <1>1, <1>2 DEF LineTypeOK
  <1>5. writerLines \in 1 .. NumLines /\ writerLines' \in 0 .. NumLines /\ NumLines \in Nat
    BY <1>1, FiniteParts DEF LineTypeOK
  <1>6. Len(outputQueue') <= OutputSize
    BY <1>2, PipelineAssumption DEF LineTypeOK
  <1>7. written' \in [Lines -> Nat]
    BY <1>1, <1>2 DEF LineTypeOK
  <1>8. LineTypeOK'
    BY <1>1, <1>2, <1>5, <1>6, <1>7 DEF LineTypeOK
  <1>9. HandsInv'
    BY <1>1 DEF HandsInv
  <1>10. \A l \in Lines : Count(outputQueue', l) \in Nat
    BY <1>2, QueueFinite, CountNat
  <1>11. PlacedOnce'
    <2> SUFFICES ASSUME NEW l \in Lines PROVE Total(l)' = 1
      BY DEF PlacedOnce
    <2> DEFINE d == IF h = l THEN 1 ELSE 0
    <2>1. Total(l) = 1 /\ Unread(l)' = Unread(l)
      BY <1>1 DEF PlacedOnce, Unread, NextLine
    <2>2. /\ Count(outputQueue, l) = Count(outputQueue', l) + d
          /\ written'[l] = written[l] + d
          /\ Count(outputQueue', l) \in Nat
          /\ d \in Nat
      BY <1>3, <1>4, <1>10
    <2> HIDE DEF d
    <2>3. UNCHANGED <<inputQueue, workerQueue, producerItem, consumerItem>>
      BY <1>1
    <2>4. /\ Unread(l) \in Nat /\ written[l] \in Nat
          /\ Count(inputQueue, l) \in Nat /\ Count(workerQueue, l) \in Nat
          /\ Count(producerItem, l) \in Nat /\ Count(consumerItem, l) \in Nat
      BY CountsAreNumbers
    <2> QED
      BY <2>1, <2>2, <2>3, <2>4 DEF Total
  <1>12. WrittenCounted'
    <2>1. Count(outputQueue, h) >= 1
      BY <1>2, <1>3, <1>10
    <2>2. Total(h) = 1
      BY <1>2 DEF PlacedOnce
    <2>3. written[h] = 0
      BY <2>1, <2>2, <1>2, CountsAreNumbers DEF Total
    <2>4. InFile' = InFile \cup {h} /\ h \notin InFile
      <3>1. written'[h] = 1
        BY <2>3, <1>2, <1>4
      <3>2. \A l \in Lines : l # h => written'[l] = written[l]
        BY <1>1, <1>2 DEF LineTypeOK
      <3> QED
        BY <2>3, <3>1, <3>2, <1>2 DEF InFile
    <2>5. IsFiniteSet(InFile)
      BY FiniteParts, FS_Subset DEF InFile
    <2>6. Cardinality(InFile') = Cardinality(InFile) + 1
      BY <2>4, <2>5, FS_AddElement
    <2> QED
      BY <2>6, <1>1, <1>5 DEF WrittenCounted
  <1>13. DeleteInv'
    BY <1>1, <1>5 DEF DeleteInv
  <1> QED
    BY <1>8, <1>9, <1>11, <1>12, <1>13

-----------------------------------------------------------------------------
(* A producer takes the first line of the input queue ...                  *)
LEMMA ProducerTakeKeepsLines ==
    ASSUME LineInv, NEW p \in Producers, ProducerTake(p)
    PROVE  LineInv'
  <1> USE DEF LineInv
  <1> DEFINE h == Head(inputQueue)
  <1>1. /\ producerAt[p] = "take" /\ producerAt' = [producerAt EXCEPT ![p] = "put"]
        /\ inputQueue # <<>> /\ inputQueue' = Tail(inputQueue)
        /\ producerItem' = [producerItem EXCEPT ![p] = h]
        /\ UNCHANGED <<readerLines, writerLines, written, workerQueue, outputQueue,
                       consumerAt, consumerItem, mainAt, deleted>>
    BY DEF ProducerTake, consumerVars, mainVars
  <1>2. /\ h \in Lines /\ inputQueue' \in Seq(Lines)
        /\ Len(inputQueue) \in Nat /\ Len(inputQueue') = Len(inputQueue) - 1
    BY <1>1 DEF LineTypeOK
  <1>3. \A l \in Lines : Count(inputQueue, l) = Count(inputQueue', l) + (IF h = l THEN 1 ELSE 0)
    BY <1>1, CountTail DEF LineTypeOK
  <1> HIDE DEF h
  <1>4. Len(inputQueue') <= InputSize
    BY <1>2, PipelineAssumption DEF LineTypeOK
  <1>5. /\ producerItem' \in [Producers -> Held]
        /\ producerAt' \in [Producers -> {"poll", "take", "put"}]
    BY <1>1, <1>2 DEF LineTypeOK, Held
  <1>6. LineTypeOK'
    BY <1>1, <1>2, <1>4, <1>5 DEF LineTypeOK
  <1>7. HandsInv'
    BY <1>1, <1>2, FiniteParts DEF HandsInv, LineTypeOK
  <1>8. PlacedOnce'
    <2> SUFFICES ASSUME NEW l \in Lines PROVE Total(l)' = 1
      BY DEF PlacedOnce
    <2>1. producerItem[p] \notin Lines
      BY <1>1, FiniteParts DEF HandsInv
    <2>2. Count(producerItem', l) = Count(producerItem, l) + (IF h = l THEN 1 ELSE 0)
      <3>1. /\ producerItem \in [Producers -> Held] /\ IsFiniteSet(Producers)
            /\ producerItem'[p] = h /\ \A y \in Producers \ {p} : producerItem'[y] = producerItem[y]
        BY <1>1, FiniteParts DEF LineTypeOK
      <3> QED
        BY ONLY <2>1, <3>1, <1>5, l \in Lines, p \in Producers, CountTaken
    <2>3. Count(inputQueue', l) \in Nat
      BY <1>2, QueueFinite, CountNat
    <2>4. Total(l) = 1 /\ Unread(l)' = Unread(l)
      BY <1>1 DEF PlacedOnce, Unread, NextLine
    <2> QED
      BY <2>2, <2>3, <2>4, <1>1, <1>3, CountsAreNumbers DEF Total
  <1>9. WrittenCounted' /\ DeleteInv'
    BY <1>1 DEF WrittenCounted, InFile, DeleteInv
  <1> QED
    BY <1>6, <1>7, <1>8, <1>9

(* ... and puts it into the worker queue.                                  *)
LEMMA ProducerPutKeepsLines ==
    ASSUME LineInv, NEW p \in Producers, ProducerPut(p)
    PROVE  LineInv'
  <1> USE DEF LineInv
  <1>1. /\ producerAt[p] = "put" /\ producerAt' = [producerAt EXCEPT ![p] = "poll"]
        /\ Len(workerQueue) < WorkerSize
        /\ workerQueue' = Append(workerQueue, producerItem[p])
        /\ producerItem' = [producerItem EXCEPT ![p] = NoLine]
        /\ UNCHANGED <<readerLines, writerLines, written, inputQueue, outputQueue,
                       consumerAt, consumerItem, mainAt, deleted>>
    BY DEF ProducerPut, consumerVars, mainVars
  <1>2. producerItem[p] \in Lines
    BY <1>1 DEF HandsInv, LineTypeOK, Held
  <1>3. /\ workerQueue' \in Seq(Lines)
        /\ Len(workerQueue) \in Nat /\ Len(workerQueue') = Len(workerQueue) + 1
    BY <1>1, <1>2 DEF LineTypeOK
  <1>4. Len(workerQueue') <= WorkerSize
    BY <1>1, <1>3, PipelineAssumption
  <1>5. /\ producerItem' \in [Producers -> Held]
        /\ producerAt' \in [Producers -> {"poll", "take", "put"}]
    BY <1>1 DEF LineTypeOK, Held
  <1>6. LineTypeOK'
    BY <1>1, <1>3, <1>4, <1>5 DEF LineTypeOK
  <1>7. HandsInv'
    BY <1>1 DEF HandsInv, LineTypeOK
  <1>8. PlacedOnce'
    <2> SUFFICES ASSUME NEW l \in Lines PROVE Total(l)' = 1
      BY DEF PlacedOnce
    <2> DEFINE d == IF producerItem[p] = l THEN 1 ELSE 0
    <2>1. Count(producerItem, l) = Count(producerItem', l) + d
      <3>1. /\ producerItem \in [Producers -> Held] /\ IsFiniteSet(Producers)
            /\ producerItem'[p] \notin Lines /\ \A y \in Producers \ {p} : producerItem[y] = producerItem'[y]
        BY <1>1, FiniteParts DEF LineTypeOK
      <3> QED
        BY ONLY <3>1, <1>5, l \in Lines, p \in Producers, CountTaken
    <2>2. Count(workerQueue', l) = Count(workerQueue, l) + d
      BY <1>1, <1>2, CountAppend DEF LineTypeOK
    <2>3. Count(producerItem', l) \in Nat
      BY <1>5, FiniteParts, CountNat
    <2>4. Total(l) = 1 /\ Unread(l)' = Unread(l)
      BY <1>1 DEF PlacedOnce, Unread, NextLine
    <2> QED
      BY <2>1, <2>2, <2>3, <2>4, <1>1, CountsAreNumbers DEF Total
  <1>9. WrittenCounted' /\ DeleteInv'
    BY <1>1 DEF WrittenCounted, InFile, DeleteInv
  <1> QED
    BY <1>6, <1>7, <1>8, <1>9

-----------------------------------------------------------------------------
(* A consumer takes the first line of the worker queue ...                 *)
LEMMA ConsumerTakeKeepsLines ==
    ASSUME LineInv, PoolTypeOK, NEW c \in Consumers, ConsumerTake(c)
    PROVE  LineInv'
  <1> USE DEF LineInv
  <1> DEFINE h == Head(workerQueue)
  <1>1. /\ consumerAt[c] = "take" /\ consumerAt' = [consumerAt EXCEPT ![c] = "put"]
        /\ workerQueue # <<>> /\ workerQueue' = Tail(workerQueue)
        /\ consumerItem' = [consumerItem EXCEPT ![c] = h]
        /\ UNCHANGED <<readerLines, writerLines, written, inputQueue, outputQueue,
                       producerAt, producerItem, mainAt, deleted>>
    BY DEF ConsumerTake, producerVars, mainVars
  <1>2. /\ h \in Lines /\ workerQueue' \in Seq(Lines)
        /\ Len(workerQueue) \in Nat /\ Len(workerQueue') = Len(workerQueue) - 1
    BY <1>1 DEF LineTypeOK
  <1>3. \A l \in Lines : Count(workerQueue, l) = Count(workerQueue', l) + (IF h = l THEN 1 ELSE 0)
    BY <1>1, CountTail DEF LineTypeOK
  <1> HIDE DEF h
  <1>4. Len(workerQueue') <= WorkerSize
    BY <1>2, PipelineAssumption DEF LineTypeOK
  <1>5. consumerItem' \in [Consumers -> Held]
    BY <1>1, <1>2 DEF LineTypeOK, Held
  <1>6. LineTypeOK'
    BY <1>1, <1>2, <1>4, <1>5 DEF LineTypeOK
  <1>7. HandsInv'
    BY <1>1, <1>2, FiniteParts DEF HandsInv, LineTypeOK, PoolTypeOK
  <1>8. PlacedOnce'
    <2> SUFFICES ASSUME NEW l \in Lines PROVE Total(l)' = 1
      BY DEF PlacedOnce
    <2>1. consumerItem[c] \notin Lines
      BY <1>1, FiniteParts DEF HandsInv
    <2>2. Count(consumerItem', l) = Count(consumerItem, l) + (IF h = l THEN 1 ELSE 0)
      <3>1. /\ consumerItem \in [Consumers -> Held] /\ IsFiniteSet(Consumers)
            /\ consumerItem'[c] = h /\ \A y \in Consumers \ {c} : consumerItem'[y] = consumerItem[y]
        BY <1>1, FiniteParts DEF LineTypeOK
      <3> QED
        BY ONLY <2>1, <3>1, <1>5, l \in Lines, c \in Consumers, CountTaken
    <2>3. Count(workerQueue', l) \in Nat
      BY <1>2, QueueFinite, CountNat
    <2>4. Total(l) = 1 /\ Unread(l)' = Unread(l)
      BY <1>1 DEF PlacedOnce, Unread, NextLine
    <2> QED
      BY <2>2, <2>3, <2>4, <1>1, <1>3, CountsAreNumbers DEF Total
  <1>9. WrittenCounted' /\ DeleteInv'
    BY <1>1 DEF WrittenCounted, InFile, DeleteInv
  <1> QED
    BY <1>6, <1>7, <1>8, <1>9

(* ... and puts it into the output queue, cancelled or not.                *)
LEMMA ConsumerPutKeepsLines ==
    ASSUME LineInv, PoolTypeOK, NEW c \in Consumers, ConsumerPut(c)
    PROVE  LineInv'
  <1> USE DEF LineInv
  <1>1. /\ consumerAt[c] = "put" /\ consumerAt' = [consumerAt EXCEPT ![c] = "loop"]
        /\ Len(outputQueue) < OutputSize
        /\ outputQueue' = Append(outputQueue, consumerItem[c])
        /\ consumerItem' = [consumerItem EXCEPT ![c] = NoLine]
        /\ UNCHANGED <<readerLines, writerLines, written, inputQueue, workerQueue,
                       producerAt, producerItem, mainAt, deleted>>
    BY DEF ConsumerPut, producerVars, mainVars
  <1>2. consumerItem[c] \in Lines
    BY <1>1 DEF HandsInv, LineTypeOK, Held
  <1>3. /\ outputQueue' \in Seq(Lines)
        /\ Len(outputQueue) \in Nat /\ Len(outputQueue') = Len(outputQueue) + 1
    BY <1>1, <1>2 DEF LineTypeOK
  <1>4. Len(outputQueue') <= OutputSize
    BY <1>1, <1>3, PipelineAssumption
  <1>5. consumerItem' \in [Consumers -> Held]
    BY <1>1 DEF LineTypeOK, Held
  <1>6. LineTypeOK'
    BY <1>1, <1>3, <1>4, <1>5 DEF LineTypeOK
  <1>7. HandsInv'
    BY <1>1 DEF HandsInv, LineTypeOK, PoolTypeOK
  <1>8. PlacedOnce'
    <2> SUFFICES ASSUME NEW l \in Lines PROVE Total(l)' = 1
      BY DEF PlacedOnce
    <2> DEFINE d == IF consumerItem[c] = l THEN 1 ELSE 0
    <2>1. Count(consumerItem, l) = Count(consumerItem', l) + d
      <3>1. /\ consumerItem \in [Consumers -> Held] /\ IsFiniteSet(Consumers)
            /\ consumerItem'[c] \notin Lines /\ \A y \in Consumers \ {c} : consumerItem[y] = consumerItem'[y]
        BY <1>1, FiniteParts DEF LineTypeOK
      <3> QED
        BY ONLY <3>1, <1>5, l \in Lines, c \in Consumers, CountTaken
    <2>2. Count(outputQueue', l) = Count(outputQueue, l) + d
      BY <1>1, <1>2, CountAppend DEF LineTypeOK
    <2>3. Count(consumerItem', l) \in Nat
      BY <1>5, FiniteParts, CountNat
    <2>4. Total(l) = 1 /\ Unread(l)' = Unread(l)
      BY <1>1 DEF PlacedOnce, Unread, NextLine
    <2> QED
      BY <2>1, <2>2, <2>3, <2>4, <1>1, CountsAreNumbers DEF Total
  <1>9. WrittenCounted' /\ DeleteInv'
    BY <1>1 DEF WrittenCounted, InFile, DeleteInv
  <1> QED
    BY <1>6, <1>7, <1>8, <1>9

-----------------------------------------------------------------------------
(* Polls and loop tests move no line, nor does a new or a cancelled        *)
(* consumer, nor main.                                                     *)
LEMMA ProducerKeepsLines ==
    ASSUME LineInv, NEW p \in Producers, Producer(p)
    PROVE  LineInv'
  <1>1. CASE ProducerPoll(p)
    BY <1>1, NoLineMoves DEF ProducerPoll, consumerVars, mainVars, LineInv, LineTypeOK, DeleteInv
  <1> QED
    BY <1>1, ProducerTakeKeepsLines, ProducerPutKeepsLines DEF Producer

LEMMA ConsumerKeepsLines ==
    ASSUME LineInv, PoolTypeOK, NEW c \in Consumers, Consumer(c)
    PROVE  LineInv'
  <1>1. CASE ConsumerContinue(c) \/ ConsumerExit(c) \/ ConsumerPoll(c)
    BY <1>1, NoLineMoves DEF ConsumerContinue, ConsumerExit, ConsumerPoll, LoopEnds, PoolTypeOK,
                             producerVars, mainVars, LineInv, LineTypeOK, DeleteInv
  <1> QED
    BY <1>1, ConsumerTakeKeepsLines, ConsumerPutKeepsLines DEF Consumer

LEMMA ControllerKeepsLines ==
    ASSUME LineInv, PoolInv, Controller
    PROVE  LineInv'
  <1>1. /\ UNCHANGED <<readerLines, writerLines, written, inputQueue, workerQueue, outputQueue,
                       producerAt, producerItem, consumerItem, mainAt, deleted>>
        /\ \A c \in Consumers : consumerAt'[c] = "put" <=> consumerAt[c] = "put"
    <2>1. CASE ScaleUp
      <3>1. CASE UNCHANGED consumerAt
        BY <2>1, <3>1 DEF ScaleUp, producerVars, mainVars
      <3>2. ASSUME NEW c \in Consumers, c = Cardinality(Created) + 1,
                   consumerAt' = [consumerAt EXCEPT ![c] = "loop"]
            PROVE  \A d \in Consumers : consumerAt'[d] = "put" <=> consumerAt[d] = "put"
        <4>1. PICK k \in 0 .. MaxConsumers : Created = 1 .. k
          BY DEF PoolInv, CreatedInOrder
        <4>2. c = k + 1 /\ k \in Int
          BY <3>2, <4>1, CreatedCount
        <4>3. c \notin Created
          BY <4>1, <4>2
        <4> QED
          BY <3>2, <4>3 DEF Created, PoolInv, PoolTypeOK
      <3> QED
        BY <2>1, <3>1, <3>2 DEF ScaleUp, producerVars, mainVars
    <2> QED
      BY <2>1 DEF Controller, ControllerCheck, SetCancelFlag, CancelAndPop,
                  producerVars, consumerVars, mainVars
  <1> QED
    BY <1>1, NoLineMoves DEF LineInv, LineTypeOK, DeleteInv

LEMMA MainKeepsLines ==
    ASSUME LineInv, Main
    PROVE  LineInv'
  <1>1. UNCHANGED <<readerLines, writerLines, written, inputQueue, workerQueue, outputQueue,
                    producerAt, producerItem, consumerAt, consumerItem>>
    BY DEF Main, JoinReader, JoinWriter, DeleteThreads, DeleteQueue, Return,
           producerVars, consumerVars
  <1>2. /\ mainAt' \in {"reader", "writer", "delete", "exit"}
        /\ mainAt' \in {"delete", "exit"} => writerLines = 0
    BY DEF Main, JoinReader, JoinWriter, WriterFinished, DeleteThreads, DeleteQueue, Return,
           LineInv, LineTypeOK, DeleteInv
  <1>3. deleted' \subseteq {"producers", "controller", "reader", "writer", "transformer",
                            "inputQueue", "workerQueue", "outputQueue"}
    BY DEF Main, JoinReader, JoinWriter, DeleteThreads, DeleteQueue, Return, LineInv, LineTypeOK
  <1> QED
    BY <1>1, <1>2, <1>3, NoLineMoves DEF LineInv, LineTypeOK

(* Every step of the program conserves the lines.                          *)
LEMMA LineNext == LineInv /\ PoolInv /\ [Next]_vars => LineInv'
  <1> SUFFICES ASSUME LineInv, PoolInv, [Next]_vars PROVE LineInv'
    OBVIOUS
  <1>1. CASE UNCHANGED vars
    BY <1>1, NoLineMoves DEF vars, producerVars, consumerVars, mainVars, LineInv, LineTypeOK,
                             DeleteInv
  <1>2. PoolTypeOK
    BY DEF PoolInv
  <1> QED
    BY <1>1, <1>2, ReadLineKeepsLines, WriteLineKeepsLines, ProducerKeepsLines,
       ConsumerKeepsLines, ControllerKeepsLines, MainKeepsLines DEF Next

(* The lines are accounted for in every reachable state.                   *)
THEOREM LinesInductive == Spec => []LineInv
  BY LineInit, LineNext, PoolInductive, PTL DEF Spec

-----------------------------------------------------------------------------
(* Conservation, the property the runs check: whoever is created, blocked  *)
(* or cancelled when, each line of the input file is in one place only and *)
(* is written at most once.                                                *)
THEOREM LinesConserved == Spec => []Conservation
  <1>1. LineInv /\ PoolInv => Conservation
    <2> SUFFICES ASSUME LineInv, PoolInv PROVE Conservation
      OBVIOUS
    <2>1. TypeOK
      BY DEF LineInv, LineTypeOK, PoolInv, PoolTypeOK, TypeOK
    <2>2. ASSUME NEW l \in Lines
          PROVE  Places(l) = 1
      <3>1. DOMAIN producerItem = Producers /\ DOMAIN consumerItem = Consumers
        BY DEF LineInv, LineTypeOK
      <3>2. \A c \in Consumers : consumerItem[c] = l => consumerAt[c] = "put"
        BY FiniteParts DEF LineInv, HandsInv
      <3>3. {c \in Consumers : consumerAt[c] = "put" /\ consumerItem[c] = l}
              = {c \in Consumers : consumerItem[c] = l}
        BY <3>2
      <3>4. Places(l) = Total(l)
        BY <3>1, <3>3 DEF Places, Total, Unread, Count
      <3> QED
        BY <3>4 DEF LineInv, PlacedOnce
    <2> QED
      BY <2>1, <2>2 DEF Conservation
  <1> QED
    BY <1>1, LinesInductive, PoolInductive, PTL

(* NothingInFlight, the property the runs check: when main starts deleting *)
(* the objects other threads still use, every line is in the output file   *)
(* and none is in a queue or in a thread's hands.                          *)
THEOREM NothingLeftBehind == Spec => []NothingInFlight
  <1>1. LineInv => NothingInFlight
    <2> SUFFICES ASSUME LineInv, mainAt \in {"delete", "exit"}
                 PROVE  /\ \A l \in Lines : written[l] = 1
                        /\ inputQueue \o workerQueue \o outputQueue = <<>>
                        /\ \A p \in Producers : producerItem[p] = NoLine
                        /\ \A c \in Consumers : consumerItem[c] = NoLine
      BY DEF NothingInFlight
    <2> USE DEF LineInv
    <2>1. \A l \in Lines : written[l] = 1
      <3>1. Cardinality(InFile) = Cardinality(Lines)
        BY FiniteParts DEF DeleteInv, WrittenCounted
      <3>2. InFile = Lines
        BY <3>1, FiniteParts, FS_Subset DEF InFile
      <3> QED
        BY <3>2 DEF InFile
    <2>2. ASSUME NEW l \in Lines
          PROVE  /\ Count(inputQueue, l) = 0 /\ Count(workerQueue, l) = 0
                 /\ Count(outputQueue, l) = 0
                 /\ Count(producerItem, l) = 0 /\ Count(consumerItem, l) = 0
      <3>1. Total(l) = 1 /\ written[l] = 1
        BY <2>1 DEF PlacedOnce
      <3>2. /\ Unread(l) \in Nat
            /\ Count(inputQueue, l) \in Nat /\ Count(workerQueue, l) \in Nat
            /\ Count(outputQueue, l) \in Nat
            /\ Count(producerItem, l) \in Nat /\ Count(consumerItem, l) \in Nat
        BY CountsAreNumbers
      <3> HIDE DEF LineInv
      <3> QED
        BY <3>1, <3>2 DEF Total
    <2>3. ASSUME NEW f, IsFiniteSet(DOMAIN f), \A l \in Lines : Count(f, l) = 0,
                 NEW x \in DOMAIN f
          PROVE  f[x] \notin Lines
      <3> SUFFICES ASSUME f[x] \in Lines PROVE FALSE
        OBVIOUS
      <3> DEFINE holders == {y \in DOMAIN f : f[y] = f[x]}
      <3>1. Cardinality(holders) = 0
        BY <2>3 DEF Count
      <3>2. IsFiniteSet(holders)
        BY <2>3, CountNat
      <3>3. holders = {}
        BY <3>1, <3>2, FS_EmptySet
      <3> QED
        BY <3>3
    <2>4. \A q \in Seq(Lines) : (\A l \in Lines : Count(q, l) = 0) => q = <<>>
      <3> SUFFICES ASSUME NEW q \in Seq(Lines), \A l \in Lines : Count(q, l) = 0, q # <<>>
                   PROVE  FALSE
        OBVIOUS
      <3>1. 1 \in DOMAIN q /\ q[1] \in Lines
        OBVIOUS
      <3> QED
        BY <3>1, <2>3, QueueFinite
    <2>5. inputQueue = <<>> /\ workerQueue = <<>> /\ outputQueue = <<>>
      BY <2>2, <2>4 DEF LineTypeOK
    <2>6. \A p \in Producers : producerItem[p] = NoLine
      <3>1. DOMAIN producerItem = Producers /\ \A p \in Producers : producerItem[p] \in Held
        BY DEF LineTypeOK
      <3> QED
        BY <3>1, <2>2, <2>3, FiniteParts DEF Held
    <2>7. \A c \in Consumers : consumerItem[c] = NoLine
      <3>1. DOMAIN consumerItem = Consumers /\ \A c \in Consumers : consumerItem[c] \in Held
        BY DEF LineTypeOK
      <3> QED
        BY <3>1, <2>2, <2>3, FiniteParts DEF Held
    <2>8. <<>> \o <<>> \o <<>> = <<>>
      OBVIOUS
    <2> QED
      BY <2>1, <2>5, <2>6, <2>7, <2>8
  <1> QED
    BY <1>1, LinesInductive, PTL
=============================================================================
