----------------------------- MODULE SynchList -----------------------------
(***************************************************************************)
(* NachOS threads/synchlist.cc: a list whose operations hold a lock, with  *)
(* a condition on which RemoveFront waits while the list is empty.  The    *)
(* threads are those of Synch and take its steps; what the list operations *)
(* do between them is added here.                                          *)
(***************************************************************************)
EXTENDS Synch, FiniteSets

CONSTANTS Appenders,   \* threads that call Append
          Removers,    \* threads that call RemoveFront
          Items,       \* what the list carries
          NoItem,      \* the item of a thread that has none
          MaxCalls     \* bound: calls made by all threads

ASSUME SynchListAssumption ==
    /\ Threads = Appenders \cup Removers
    /\ IsFiniteSet(Threads)
    /\ Appenders \cap Removers = {}
    /\ NoItem \notin Items
    /\ MaxCalls \in Nat

VARIABLES list,    \* SynchList::list
          op,      \* per thread: its operation, release when it has had its effect
          item,    \* per thread: the argument of Append, the result of RemoveFront
          calls    \* the number of calls made

listVars == <<list, op, item>>
allVars == <<vars, listVars, calls>>

Operations == {"none", "append", "remove", "apply", "release"}

ListInit ==
    /\ Init
    /\ list = <<>>
    /\ op = [t \in Threads |-> "none"]
    /\ item = [t \in Threads |-> NoItem]
    /\ calls = 0

Call(t, operation, x) ==
    /\ calls < MaxCalls
    /\ CallAcquire(t)
    /\ op' = [op EXCEPT ![t] = operation]
    /\ item' = [item EXCEPT ![t] = x]
    /\ calls' = calls + 1
    /\ UNCHANGED list

(* Acquire, and the steps of Wait after it has released the lock.          *)
InLibrary(t) ==
    /\ Acquire(t) \/ SetHolder(t) \/ Sleep(t) \/ Reacquire(t) \/ DeleteWaiter(t)
    /\ UNCHANGED <<listVars, calls>>

Effect(t, newList, x) ==
    /\ list' = newList
    /\ item' = [item EXCEPT ![t] = x]
    /\ op' = [op EXCEPT ![t] = "release"]
    /\ UNCHANGED calls

SignalWhenEmpty(t) ==                  \* fault
    IF list = <<>> THEN Signal(t) ELSE pc[t] = "inside" /\ UNCHANGED vars
SignalOne(t) == Signal(t)

(* SynchList::Append: list->Append(item); listEmpty->Signal(lock).         *)
AppendItem(t) ==
    /\ op[t] = "append"
    /\ SignalOne(t)
    /\ Effect(t, Append(list, item[t]), item[t])

(* SynchList::RemoveFront: while (list->IsEmpty()) listEmpty->Wait(lock).  *)
WaitForItem(t) ==
    /\ op[t] = "remove"
    /\ list = <<>>
    /\ Wait(t)
    /\ UNCHANGED <<listVars, calls>>

LastItem == list[Len(list)]            \* fault
FirstItem == Head(list)

RemoveItem(t) ==
    /\ op[t] = "remove"
    /\ list # <<>>
    /\ pc[t] = "inside"
    /\ Effect(t, Tail(list), FirstItem)
    /\ UNCHANGED vars

OperationEnded(t) == [op EXCEPT ![t] = "none"]

(* lock->Release at the end of Append and RemoveFront, and of Apply, which *)
(* leaves the list as it is.                                               *)
ReleaseAndReturn(t) ==
    /\ op[t] \in {"release", "apply"}
    /\ Release(t)
    /\ op' = OperationEnded(t)
    /\ UNCHANGED <<list, item, calls>>

Run(t) ==
    InLibrary(t) \/ AppendItem(t) \/ WaitForItem(t) \/ RemoveItem(t) \/ ReleaseAndReturn(t)

ListNext ==
    \/ \E t \in Appenders, x \in Items : Call(t, "append", x)
    \/ \E t \in Removers : Call(t, "remove", NoItem)
    \/ \E t \in Threads : Call(t, "apply", item[t]) \/ Run(t)

(* The ready list is first in, first out and the timer preempts the thread *)
(* that runs: a thread that is not blocked gets to run.                    *)
ListSpec ==
    /\ ListInit
    /\ [][ListNext]_allVars
    /\ \A t \in Threads : WF_allVars(Run(t))

-----------------------------------------------------------------------------
(* Type invariant.                                                         *)
ListTypeOK ==
    /\ TypeOK
    /\ list \in Seq(Items)
    /\ op \in [Threads -> Operations]
    /\ item \in [Threads -> Items \cup {NoItem}]
    /\ calls \in 0 .. MaxCalls
    /\ \A t \in Threads :
          /\ op[t] = "none" <=> pc[t] = "outside"
          /\ op[t] = "append" => t \in Appenders /\ item[t] \in Items
          /\ op[t] = "remove" => t \in Removers

(* Append signals one waiter, and another thread may take the item before  *)
(* that waiter has the lock again.  Still, while removers wait unsignalled *)
(* every item in the list has a remover on its way to the loop test.       *)
OnTheWay == {t \in Removers : op[t] = "remove" /\ t \notin Waiting}

NoItemStranded == waitQueue # <<>> => Len(list) <= Cardinality(OnTheWay)

(* The list is a linearizable first-in first-out queue without a bound: a  *)
(* call takes effect in AppendItem or RemoveItem.                          *)
AbstractList == INSTANCE BoundedBuffer WITH
    Enqueuers <- Appenders,
    Dequeuers <- Removers,
    Capacity <- -1,
    queue <- list,
    status <- [t \in Threads |->
                 CASE op[t] \in {"append", "remove"} -> "before"
                   [] op[t] = "release" -> "after"
                   [] OTHER -> "outside"]

ImplementsQueue == AbstractList!Spec

(* When the threads stop making calls, every call returns, except calls of *)
(* RemoveFront that wait on an empty list.                                 *)
CallsReturn ==
    <>[](\A t \in Threads : op[t] = "none" \/ (t \in Waiting /\ list = <<>>))
=============================================================================
