------------------------------ MODULE Pipeline ------------------------------
(***************************************************************************)
(* The program of NTHU-OS-Pthreads/main.cpp.  The reader puts the lines of *)
(* the input file into the input queue; producers move them, transformed,  *)
(* to the worker queue; consumers, whose number a controller adapts to the *)
(* load of the worker queue, move them on to the output queue; the writer  *)
(* puts as many lines as were read into the output file.  main joins the   *)
(* reader and the writer, deletes everything and returns, which ends the   *)
(* threads that are still running.                                         *)
(*                                                                         *)
(* A queue is the bounded FIFO that TSQueue implements (BoundedBuffer): an *)
(* enqueue or a dequeue is one step, enabled when it does not block.       *)
(* get_size takes no lock, so what it returned may be out of date when it  *)
(* is used: reading it is a step of its own.  usleep(check_period) is      *)
(* abstracted: the controller may check at any time.                       *)
(***************************************************************************)
EXTENDS Integers, FiniteSets, SequencesExt

CONSTANTS NumLines,       \* n, the lines to read and to write
          Producers,      \* the producer threads
          InputSize,      \* READER_QUEUE_SIZE
          WorkerSize,     \* WORKER_QUEUE_SIZE
          OutputSize,     \* WRITER_QUEUE_SIZE
          LowThreshold,   \* CONSUMER_CONTROLLER_LOW_THRESHOLD_PERCENTAGE
          HighThreshold,  \* CONSUMER_CONTROLLER_HIGH_THRESHOLD_PERCENTAGE
          MaxConsumers    \* bound: consumers created in one run

ASSUME PipelineAssumption ==
    /\ NumLines \in Nat
    /\ IsFiniteSet(Producers)
    /\ {InputSize, WorkerSize, OutputSize} \subseteq Nat \ {0}
    /\ LowThreshold \in 0 .. 100
    /\ HighThreshold \in 0 .. 100
    /\ MaxConsumers \in Nat

Lines == 1 .. NumLines
NoLine == 0
Consumers == 1 .. MaxConsumers   \* consumers, in the order they are created

VARIABLES readerLines,   \* Reader::expected_lines
          writerLines,   \* Writer::expected_lines
          written,       \* per line: how often it is in the output file
          inputQueue, workerQueue, outputQueue,
          producerAt,    \* per producer: poll, take or put
          producerItem,  \* per producer: the line it has dequeued
          consumerAt,    \* per consumer: none, loop, poll, take, put or gone
          consumerItem,  \* per consumer: the line it has dequeued
          isCancel,      \* Consumer::is_cancel
          controllerAt,  \* check, up, flag or cancel
          consumers,     \* ConsumerController::consumers
          mainAt,        \* reader, writer, delete or exit
          deleted        \* the objects main has deleted

producerVars == <<producerAt, producerItem>>
consumerVars == <<consumerAt, consumerItem, isCancel>>
controllerVars == <<controllerAt, consumers>>
mainVars == <<mainAt, deleted>>
vars == <<readerLines, writerLines, written, inputQueue, workerQueue, outputQueue,
          producerVars, consumerVars, controllerVars, mainVars>>

Created == {c \in Consumers : consumerAt[c] # "none"}

(* A definition marked "fault" is the one after it with a mistake in it.   *)
(* No specification uses it: put in place of the correct one, it makes the *)
(* property it is meant for fail, which shows that the property can fail.  *)

-----------------------------------------------------------------------------
Init ==
    /\ readerLines = NumLines
    /\ writerLines = NumLines
    /\ written = [l \in Lines |-> 0]
    /\ inputQueue = <<>>
    /\ workerQueue = <<>>
    /\ outputQueue = <<>>
    /\ producerAt = [p \in Producers |-> "poll"]
    /\ producerItem = [p \in Producers |-> NoLine]
    /\ consumerAt = [c \in Consumers |-> "none"]
    /\ consumerItem = [c \in Consumers |-> NoLine]
    /\ isCancel = [c \in Consumers |-> FALSE]
    /\ controllerAt = "check"
    /\ consumers = <<>>
    /\ mainAt = "reader"
    /\ deleted = {}

(* while (expected_lines--)                                                *)
LinesLeft(n) == n > 0

(* Reader::process: while (expected_lines--), read a line and enqueue it.  *)
NextLine == NumLines - readerLines + 1

ReadLine ==
    /\ LinesLeft(readerLines)
    /\ Len(inputQueue) < InputSize
    /\ inputQueue' = Append(inputQueue, NextLine)
    /\ readerLines' = readerLines - 1
    /\ UNCHANGED <<writerLines, written, workerQueue, outputQueue, producerVars,
                   consumerVars, controllerVars, mainVars>>

(* Writer::process: while (expected_lines--), dequeue a line and write it. *)
WriteLine ==
    /\ LinesLeft(writerLines)
    /\ outputQueue # <<>>
    /\ outputQueue' = Tail(outputQueue)
    /\ written' = [written EXCEPT ![Head(outputQueue)] = @ + 1]
    /\ writerLines' = writerLines - 1
    /\ UNCHANGED <<readerLines, inputQueue, workerQueue, producerVars,
                   consumerVars, controllerVars, mainVars>>

-----------------------------------------------------------------------------
(* Producer::process.  A producer that reads size 0 polls again; one that  *)
(* reads a positive size calls dequeue, and blocks there if other          *)
(* producers have emptied the queue in between.                            *)
ProducerPoll(p) ==
    /\ producerAt[p] = "poll"
    /\ producerAt' = [producerAt EXCEPT ![p] =
                         IF Len(inputQueue) > 0 THEN "take" ELSE "poll"]
    /\ UNCHANGED <<readerLines, writerLines, written, inputQueue, workerQueue,
                   outputQueue, producerItem, consumerVars, controllerVars, mainVars>>

ProducerTake(p) ==
    /\ producerAt[p] = "take"
    /\ inputQueue # <<>>
    /\ inputQueue' = Tail(inputQueue)
    /\ producerItem' = [producerItem EXCEPT ![p] = Head(inputQueue)]
    /\ producerAt' = [producerAt EXCEPT ![p] = "put"]
    /\ UNCHANGED <<readerLines, writerLines, written, workerQueue, outputQueue,
                   consumerVars, controllerVars, mainVars>>

(* Enqueue the new item and delete the original one.                       *)
ProducerPut(p) ==
    /\ producerAt[p] = "put"
    /\ Len(workerQueue) < WorkerSize
    /\ workerQueue' = Append(workerQueue, producerItem[p])
    /\ producerItem' = [producerItem EXCEPT ![p] = NoLine]
    /\ producerAt' = [producerAt EXCEPT ![p] = "poll"]
    /\ UNCHANGED <<readerLines, writerLines, written, inputQueue, outputQueue,
                   consumerVars, controllerVars, mainVars>>

Producer(p) == ProducerPoll(p) \/ ProducerTake(p) \/ ProducerPut(p)

-----------------------------------------------------------------------------
CancelledAnywhere(c) ==                 \* fault
    consumerAt[c] \in {"loop", "take", "put"} /\ isCancel[c]
LoopEnds(c) == consumerAt[c] = "loop" /\ isCancel[c]

(* Consumer::process.  pthread_cancel has no effect of its own: the only   *)
(* cancellation points, the waits of dequeue and enqueue, are reached with *)
(* cancellation disabled.  What ends a consumer is the loop test finding   *)
(* is_cancel; it then deletes its own object.                              *)
ConsumerContinue(c) ==
    /\ consumerAt[c] = "loop"
    /\ ~isCancel[c]
    /\ consumerAt' = [consumerAt EXCEPT ![c] = "poll"]
    /\ UNCHANGED <<readerLines, writerLines, written, inputQueue, workerQueue,
                   outputQueue, producerVars, consumerItem, isCancel,
                   controllerVars, mainVars>>

ConsumerExit(c) ==
    /\ LoopEnds(c)
    /\ consumerAt' = [consumerAt EXCEPT ![c] = "gone"]
    /\ UNCHANGED <<readerLines, writerLines, written, inputQueue, workerQueue,
                   outputQueue, producerVars, consumerItem, isCancel,
                   controllerVars, mainVars>>

ConsumerPoll(c) ==
    /\ consumerAt[c] = "poll"
    /\ consumerAt' = [consumerAt EXCEPT ![c] =
                         IF Len(workerQueue) > 0 THEN "take" ELSE "loop"]
    /\ UNCHANGED <<readerLines, writerLines, written, inputQueue, workerQueue,
                   outputQueue, producerVars, consumerItem, isCancel,
                   controllerVars, mainVars>>

ConsumerTake(c) ==
    /\ consumerAt[c] = "take"
    /\ workerQueue # <<>>
    /\ workerQueue' = Tail(workerQueue)
    /\ consumerItem' = [consumerItem EXCEPT ![c] = Head(workerQueue)]
    /\ consumerAt' = [consumerAt EXCEPT ![c] = "put"]
    /\ UNCHANGED <<readerLines, writerLines, written, inputQueue, outputQueue,
                   producerVars, isCancel, controllerVars, mainVars>>

ConsumerPut(c) ==
    /\ consumerAt[c] = "put"
    /\ Len(outputQueue) < OutputSize
    /\ outputQueue' = Append(outputQueue, consumerItem[c])
    /\ consumerItem' = [consumerItem EXCEPT ![c] = NoLine]
    /\ consumerAt' = [consumerAt EXCEPT ![c] = "loop"]
    /\ UNCHANGED <<readerLines, writerLines, written, inputQueue, workerQueue,
                   producerVars, isCancel, controllerVars, mainVars>>

Consumer(c) ==
    \/ ConsumerContinue(c) \/ ConsumerExit(c)
    \/ ConsumerPoll(c) \/ ConsumerTake(c) \/ ConsumerPut(c)

-----------------------------------------------------------------------------
(* ConsumerController::process.  The decision is taken on the size read    *)
(* here and carried out in later steps.                                    *)
High == 100 * Len(workerQueue) > HighThreshold * WorkerSize
Low == 100 * Len(workerQueue) < LowThreshold * WorkerSize

TooManyOrOne == ~High /\ Low /\ Len(consumers) > 0    \* fault
TooMany == ~High /\ Low /\ Len(consumers) > 1

ControllerCheck ==
    /\ controllerAt = "check"
    /\ \/ /\ High
          /\ controllerAt' = "up"
       \/ /\ TooMany
          /\ controllerAt' = "flag"
       \/ /\ ~High /\ ~TooMany
          /\ UNCHANGED controllerAt
    /\ UNCHANGED <<readerLines, writerLines, written, inputQueue, workerQueue,
                   outputQueue, producerVars, consumerVars, consumers, mainVars>>

(* new Consumer, start and push_back.  The second disjunct is the bound:   *)
(* no more than MaxConsumers are created.                                  *)
ScaleUp ==
    /\ controllerAt = "up"
    /\ \/ \E c \in Consumers :
             /\ c = Cardinality(Created) + 1
             /\ consumerAt' = [consumerAt EXCEPT ![c] = "loop"]
             /\ consumers' = Append(consumers, c)
       \/ /\ Cardinality(Created) = MaxConsumers
          /\ UNCHANGED <<consumerAt, consumers>>
    /\ controllerAt' = "check"
    /\ UNCHANGED <<readerLines, writerLines, written, inputQueue, workerQueue,
                   outputQueue, producerVars, consumerItem, isCancel, mainVars>>

(* Consumer::cancel of the last consumer: is_cancel = true ...             *)
SetCancelFlag ==
    /\ controllerAt = "flag"
    /\ isCancel' = [isCancel EXCEPT ![Last(consumers)] = TRUE]
    /\ controllerAt' = "cancel"
    /\ UNCHANGED <<readerLines, writerLines, written, inputQueue, workerQueue,
                   outputQueue, producerVars, consumerAt, consumerItem, consumers,
                   mainVars>>

NotPopped == consumers                  \* fault
Popped == Front(consumers)

(* ... then pthread_cancel(this->t), and pop_back.                         *)
CancelAndPop ==
    /\ controllerAt = "cancel"
    /\ consumers' = Popped
    /\ controllerAt' = "check"
    /\ UNCHANGED <<readerLines, writerLines, written, inputQueue, workerQueue,
                   outputQueue, producerVars, consumerVars, mainVars>>

Controller == ControllerCheck \/ ScaleUp \/ SetCancelFlag \/ CancelAndPop

-----------------------------------------------------------------------------
(* main: reader->join(), writer->join(), then the deletes in their order.  *)
JoinReader ==
    /\ mainAt = "reader"
    /\ readerLines = 0
    /\ mainAt' = "writer"
    /\ UNCHANGED <<readerLines, writerLines, written, inputQueue, workerQueue,
                   outputQueue, producerVars, consumerVars, controllerVars, deleted>>

WriterNotAwaited == TRUE                \* fault
WriterFinished == writerLines = 0

JoinWriter ==
    /\ mainAt = "writer"
    /\ WriterFinished
    /\ mainAt' = "delete"
    /\ UNCHANGED <<readerLines, writerLines, written, inputQueue, workerQueue,
                   outputQueue, producerVars, consumerVars, controllerVars, deleted>>

(* ~TSQueue destroys the condition variables.  With a thread blocked on    *)
(* one, POSIX leaves pthread_cond_destroy undefined; the C library of the  *)
(* build waits for that thread to leave.                                   *)
BlockedOn(q) ==
    CASE q = "inputQueue" ->
            inputQueue = <<>> /\ \E p \in Producers : producerAt[p] = "take"
      [] q = "workerQueue" ->
            \/ workerQueue = <<>> /\ \E c \in Consumers : consumerAt[c] = "take"
            \/ Len(workerQueue) = WorkerSize /\ \E p \in Producers : producerAt[p] = "put"
      [] q = "outputQueue" ->
            Len(outputQueue) = OutputSize /\ \E c \in Consumers : consumerAt[c] = "put"

DeleteThreads ==
    /\ mainAt = "delete"
    /\ deleted = {}
    /\ deleted' = {"producers", "controller", "reader", "writer", "transformer"}
    /\ UNCHANGED <<readerLines, writerLines, written, inputQueue, workerQueue,
                   outputQueue, producerVars, consumerVars, controllerVars, mainAt>>

DeleteQueue(q, previous) ==
    /\ previous \in deleted
    /\ q \notin deleted
    /\ ~BlockedOn(q)
    /\ deleted' = deleted \cup {q}
    /\ UNCHANGED <<readerLines, writerLines, written, inputQueue, workerQueue,
                   outputQueue, producerVars, consumerVars, controllerVars, mainAt>>

Return ==
    /\ mainAt = "delete"
    /\ "outputQueue" \in deleted
    /\ mainAt' = "exit"
    /\ UNCHANGED <<readerLines, writerLines, written, inputQueue, workerQueue,
                   outputQueue, producerVars, consumerVars, controllerVars, deleted>>

Main ==
    \/ JoinReader \/ JoinWriter \/ DeleteThreads
    \/ DeleteQueue("inputQueue", "transformer")
    \/ DeleteQueue("workerQueue", "inputQueue")
    \/ DeleteQueue("outputQueue", "workerQueue")
    \/ Return

Running == mainAt # "exit"

Next ==
    \/ /\ Running
       /\ \/ ReadLine
          \/ WriteLine
          \/ \E p \in Producers : Producer(p)
          \/ \E c \in Consumers : Consumer(c)
          \/ Controller
          \/ Main
    \/ ~Running /\ UNCHANGED vars

(* The kernel scheduler runs every thread that can run.                    *)
Spec ==
    /\ Init
    /\ [][Next]_vars
    /\ WF_vars(Running /\ ReadLine)
    /\ WF_vars(Running /\ WriteLine)
    /\ \A p \in Producers : WF_vars(Running /\ Producer(p))
    /\ \A c \in Consumers : WF_vars(Running /\ Consumer(c))
    /\ WF_vars(Running /\ Controller)
    /\ WF_vars(Main)

-----------------------------------------------------------------------------
(* Type invariant.                                                         *)
Held == Lines \cup {NoLine}

TypeOK ==
    /\ readerLines \in 0 .. NumLines
    /\ writerLines \in 0 .. NumLines
    /\ written \in [Lines -> Nat]
    /\ {inputQueue, workerQueue, outputQueue} \subseteq Seq(Lines)
    /\ Len(inputQueue) <= InputSize
    /\ Len(workerQueue) <= WorkerSize
    /\ Len(outputQueue) <= OutputSize
    /\ producerAt \in [Producers -> {"poll", "take", "put"}]
    /\ producerItem \in [Producers -> Held]
    /\ consumerAt \in [Consumers -> {"none", "loop", "poll", "take", "put", "gone"}]
    /\ consumerItem \in [Consumers -> Held]
    /\ isCancel \in [Consumers -> BOOLEAN]
    /\ controllerAt \in {"check", "up", "flag", "cancel"}
    /\ consumers \in Seq(Consumers)
    /\ mainAt \in {"reader", "writer", "delete", "exit"}
    /\ deleted \subseteq {"producers", "controller", "reader", "writer", "transformer",
                          "inputQueue", "workerQueue", "outputQueue"}

(* Every line is in exactly one place: still in the input file, in one of  *)
(* the queues, in the hands of one running thread, or once in the output   *)
(* file.  So no line is lost or written twice, whoever is cancelled when.  *)
Places(l) ==
    (IF l >= NextLine THEN 1 ELSE 0)
    + Cardinality({i \in DOMAIN inputQueue : inputQueue[i] = l})
    + Cardinality({p \in Producers : producerItem[p] = l})
    + Cardinality({i \in DOMAIN workerQueue : workerQueue[i] = l})
    + Cardinality({c \in Consumers : consumerAt[c] = "put" /\ consumerItem[c] = l})
    + Cardinality({i \in DOMAIN outputQueue : outputQueue[i] = l})
    + written[l]

Conservation == TypeOK /\ \A l \in Lines : Places(l) = 1

(* The controller's vector holds no consumer that may delete itself: a     *)
(* created consumer is in the vector or was cancelled and not both, except *)
(* for the last one between the flag and pop_back, and only consumers that *)
(* were cancelled are gone.                                                *)
BeingCancelled == IF controllerAt = "cancel" THEN {Last(consumers)} ELSE {}

VectorInv ==
    /\ Created \ ToSet(consumers) = {c \in Consumers : isCancel[c]} \ BeingCancelled
    /\ BeingCancelled \subseteq {c \in Consumers : isCancel[c]}
    /\ \A c \in Consumers : consumerAt[c] = "gone" => isCancel[c]
    /\ IsInjective(consumers)

(* Scaling down never removes the last consumer: once there was one, some  *)
(* consumer is in its loop and has not been told to leave it.              *)
OneConsumerStays ==
    Created # {} => \E c \in Created : ~isCancel[c] /\ consumerAt[c] # "gone"

(* When both joins have returned and main starts deleting, every line is   *)
(* in the output file and no thread and no queue holds one, so what main   *)
(* destroys under the running threads carries no line any more.            *)
NothingInFlight ==
    mainAt \in {"delete", "exit"} =>
        /\ \A l \in Lines : written[l] = 1
        /\ inputQueue \o workerQueue \o outputQueue = <<>>
        /\ \A p \in Producers : producerItem[p] = NoLine
        /\ \A c \in Consumers : consumerItem[c] = NoLine

(* If there are lines enough to bring the worker queue above the high      *)
(* threshold, so that a consumer is created at all, the writer finishes    *)
(* and every line is written: no polling, blocking or scaling down along   *)
(* the chain of queues keeps a line back.                                  *)
EnoughLines == 100 * Min({NumLines, WorkerSize}) > HighThreshold * WorkerSize

AllWritten == EnoughLines => <>(writerLines = 0 /\ \A l \in Lines : written[l] = 1)

(* The pool shrinks again: consumers started under load do not stay once   *)
(* the load is gone.                                                       *)
ScaledDown == Len(consumers) > 1 ~> (Len(consumers) <= 1 \/ ~Running)

-----------------------------------------------------------------------------
(* What comments of the code say and the code does not do.                 *)

(* writer.hpp: the writer thread finishes after the expected lines of      *)
(* items.  With too few lines the worker queue never gets above the high   *)
(* threshold, and nobody creates the consumer that would empty it.         *)
WriterFinishes == <>(writerLines = 0)

(* main.cpp: after the joins main cleans up and ends the program.          *)
MainReturns == <>~Running

(* consumer.hpp: cancel makes process end its loop and delete the consumer. *)
CancelledLeaves ==
    \A c \in Consumers : isCancel[c] ~> (consumerAt[c] = "gone" \/ ~Running)

(* thread.hpp: cancel is called on a pthread work; its Thread object, which *)
(* cancel reads t from, still exists.                                      *)
CancelReadsLiveObject ==
    controllerAt = "cancel" => consumerAt[Last(consumers)] # "gone"
=============================================================================
