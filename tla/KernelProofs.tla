---------------------------- MODULE KernelProofs ----------------------------
(***************************************************************************)
(* What the kernel guarantees for any number of programs of any sizes and  *)
(* any number of frames.                                                   *)
(***************************************************************************)
EXTENDS Kernel, TLAPS

-----------------------------------------------------------------------------
(* Sequences.                                                              *)

LEMMA PopFacts ==
    ASSUME NEW S, NEW s \in Seq(S), s # <<>>
    PROVE  /\ Len(s) \in Nat \ {0}
           /\ Head(s) = s[1] /\ Head(s) \in S
           /\ Tail(s) \in Seq(S)
           /\ Len(Tail(s)) = Len(s) - 1
           /\ \A i \in Numbers(Tail(s)) : Tail(s)[i] = s[i + 1]
  BY DEF Numbers

LEMMA PushFacts ==
    ASSUME NEW S, NEW s \in Seq(S), NEW e \in S
    PROVE  /\ Len(s) \in Nat
           /\ Append(s, e) \in Seq(S)
           /\ Len(Append(s, e)) = Len(s) + 1
           /\ \A i \in Numbers(s) : Append(s, e)[i] = s[i]
           /\ Append(s, e)[Len(s) + 1] = e
  BY DEF Numbers

-----------------------------------------------------------------------------
(* Type correctness.                                                       *)

LEMMA BehindAllType ==
    ASSUME TypeOK, readyList # <<>>
    PROVE  BehindAll \in Seq(Threads)
  BY PopFacts, PushFacts DEF TypeOK, BehindAll

LEMMA InitTypeOK == Init => TypeOK
  BY KernelAssumption DEF Init, TypeOK, Threads, Programs, Main, NoThread, Zeros

LEMMA RunType ==
    ASSUME TypeOK, readyList # <<>>, NEW finishing \in BOOLEAN,
           NEW ss \in [Threads -> {"JUST_CREATED", "READY", "RUNNING", "BLOCKED"}],
           Run(ss, finishing)
    PROVE  /\ currentThread' \in Threads
           /\ status' \in [Threads -> {"JUST_CREATED", "READY", "RUNNING", "BLOCKED"}]
           /\ machineTable' \in Programs \cup {NoThread}
           /\ toBeDestroyed' \in Threads \cup {NoThread}
  BY PopFacts DEF TypeOK, Run, RestoredTable, Threads

LEMMA FinishType ==
    ASSUME TypeOK, NEW t \in Threads, Finish(t)
    PROVE  TypeOK'
  <1>1. execRunningNum' \in Int
    BY DEF TypeOK, Finish
  <1>2. /\ status' \in [Threads -> {"JUST_CREATED", "READY", "RUNNING", "BLOCKED"}]
        /\ at' \in [Threads -> {"exec", "none", "new", "begin", "load", "user", "finished"}]
        /\ machineStatus' \in {"up", "halted", "aborted"}
    BY DEF TypeOK, Finish
  <1> QED
    BY <1>1, <1>2 DEF TypeOK, Finish, commandLine, memoryVars

LEMMA NextTypeOK == TypeOK /\ [Next]_vars => TypeOK'
  <1> SUFFICES ASSUME TypeOK, [Next]_vars PROVE TypeOK'
    OBVIOUS
  <1> USE DEF commandLine, memoryVars, threadVars
  <1>1. CASE Exec
    <2>1. threadNum \in Threads /\ threadNum + 1 \in 1 .. NumPrograms + 1
      BY <1>1, KernelAssumption DEF Exec, Threads, Programs
    <2>2. readyList' \in Seq(Threads)
      BY <1>1, <2>1, PushFacts DEF Exec, TypeOK
    <2> QED
      BY <1>1, <2>1, <2>2 DEF Exec, TypeOK
  <1>2. CASE ExecAllDone
    BY <1>2, FinishType DEF ExecAllDone, Threads
  <1>3. CASE TimeSlice
    <2>1. readyList' \in Seq(Threads)
      BY <1>3, BehindAllType DEF TimeSlice
    <2>2. /\ currentThread' \in Threads
          /\ status' \in [Threads -> {"JUST_CREATED", "READY", "RUNNING", "BLOCKED"}]
          /\ machineTable' \in Programs \cup {NoThread}
          /\ toBeDestroyed' \in Threads \cup {NoThread}
      <3> DEFINE ss == [status EXCEPT ![currentThread] = "READY"]
      <3>1. ss \in [Threads -> {"JUST_CREATED", "READY", "RUNNING", "BLOCKED"}]
        BY DEF TypeOK
      <3>2. Run(ss, FALSE) /\ readyList # <<>>
        BY <1>3 DEF TimeSlice
      <3> HIDE DEF ss
      <3> QED
        BY <3>1, <3>2, RunType
    <2> QED
      BY <1>3, <2>1, <2>2 DEF TimeSlice, TypeOK
  <1>4. CASE Dispatch
    <2>1. readyList' \in Seq(Threads)
      BY <1>4, PopFacts DEF Dispatch, TypeOK
    <2>2. /\ currentThread' \in Threads
          /\ status' \in [Threads -> {"JUST_CREATED", "READY", "RUNNING", "BLOCKED"}]
          /\ machineTable' \in Programs \cup {NoThread}
          /\ toBeDestroyed' \in Threads \cup {NoThread}
      <3>1. status \in [Threads -> {"JUST_CREATED", "READY", "RUNNING", "BLOCKED"}]
        BY DEF TypeOK
      <3>2. Run(status, at[currentThread] = "finished") /\ readyList # <<>>
        BY <1>4 DEF Dispatch
      <3> QED
        BY <3>1, <3>2, RunType
    <2> QED
      BY <1>4, <2>1, <2>2 DEF Dispatch, TypeOK
  <1>5. ASSUME NEW p \in Programs, Begin(p)
        PROVE  TypeOK'
    BY <1>5 DEF Begin, CheckToBeDestroyed, TypeOK
  <1>6. ASSUME NEW p \in Programs, Begun(p)
        PROVE  TypeOK'
    <2>1. execRunningNum' \in Int
      BY <1>6 DEF Begun, TypeOK
    <2> QED
      BY <1>6, <2>1 DEF Begun, TypeOK
  <1>7. ASSUME NEW p \in Programs, LoadNoFile(p)
        PROVE  TypeOK'
    BY <1>7, FinishType DEF LoadNoFile, Threads
  <1>8. ASSUME NEW p \in Programs, LoadTooBig(p)
        PROVE  TypeOK'
    BY <1>8 DEF LoadTooBig, Abort, TypeOK
  <1>9. ASSUME NEW p \in Programs, LoadPage(p)
        PROVE  TypeOK'
    <2>1. PICK f \in Frames :
              /\ Mark(f)
              /\ pageTable' = [pageTable EXCEPT ![p] = Append(@, f)]
              /\ memory' = [memory EXCEPT ![f] = Zeros]
      BY <1>9 DEF LoadPage
    <2>2. pageTable' \in [Programs -> Seq(Frames)]
      BY <2>1 DEF TypeOK
    <2> QED
      BY <1>9, <2>1, <2>2 DEF LoadPage, Mark, TypeOK
  <1>10. ASSUME NEW p \in Programs, LoadSegments(p)
         PROVE  TypeOK'
    BY <1>10 DEF LoadSegments, TypeOK
  <1>11. ASSUME NEW p \in Programs, Store(p)
         PROVE  TypeOK'
    BY <1>11 DEF Store, Write, TypeOK
  <1>12. ASSUME NEW p \in Programs, NEW i \in Numbers(pageTable[p]), ReadFile(p, i)
         PROVE  TypeOK'
    BY <1>12 DEF ReadFile, Write, TypeOK
  <1>13. ASSUME NEW p \in Programs, PrintInt(p)
         PROVE  TypeOK'
    BY <1>13 DEF PrintInt, TypeOK
  <1>14. ASSUME NEW p \in Programs, Exit(p)
         PROVE  TypeOK'
    BY <1>14, FinishType DEF Exit, Threads
  <1>15. ASSUME NEW p \in Programs, Halt(p)
         PROVE  TypeOK'
    BY <1>15 DEF Halt, TypeOK
  <1>16. ASSUME NEW p \in Programs, UserError(p)
         PROVE  TypeOK'
    BY <1>16 DEF UserError, Abort, TypeOK
  <1>17. ASSUME NEW p \in Programs, ConsoleDone(p)
         PROVE  TypeOK'
    <2>1. readyList' \in Seq(Threads)
      BY <1>17, PushFacts DEF ConsoleDone, TypeOK, Threads
    <2> QED
      BY <1>17, <2>1 DEF ConsoleDone, TypeOK
  <1>18. CASE UNCHANGED vars
    BY <1>18 DEF vars, TypeOK
  <1> QED
    BY <1>1, <1>2, <1>3, <1>4, <1>5, <1>6, <1>7, <1>8, <1>9, <1>10, <1>11, <1>12,
       <1>13, <1>14, <1>15, <1>16, <1>17, <1>18 DEF Next, InKernel, InProgram

(* Every variable keeps its type.                                          *)
THEOREM TypeCorrect == Spec => []TypeOK
  BY InitTypeOK, NextTypeOK, PTL DEF Spec

-----------------------------------------------------------------------------
(* The threads.                                                            *)

LEMMA InitThreadInv == Init => ThreadInv
  <1> SUFFICES ASSUME Init PROVE ThreadInv
    OBVIOUS
  <1>1. Numbers(readyList) = {}
    BY DEF Init, Numbers
  <1>2. \A t \in Threads :
            /\ status[t] = IF t = Main THEN "RUNNING" ELSE "JUST_CREATED"
            /\ at[t] = IF t = Main THEN "exec" ELSE "none"
    BY DEF Init
  <1>3. Main \in Threads /\ Programs \subseteq Threads /\ Main \notin Programs
    BY DEF Threads, Programs, Main
  <1>4. currentThread = Main
    BY DEF Init
  <1> QED
    BY <1>1, <1>2, <1>3, <1>4 DEF ThreadInv

(* A thread that is not ready is not in the list and can be appended.      *)
LEMMA PushThreadInv ==
    ASSUME TypeOK, ThreadInv, NEW t \in Threads, status[t] # "READY",
           readyList' = Append(readyList, t),
           status'[t] = "READY", \A u \in Threads \ {t} : status'[u] = status[u]
    PROVE  /\ \A i \in Numbers(readyList') : status'[readyList'[i]] = "READY"
           /\ \A i, j \in Numbers(readyList') : readyList'[i] = readyList'[j] => i = j
  <1>1. /\ Len(readyList) \in Nat
        /\ Len(readyList') = Len(readyList) + 1
        /\ \A i \in Numbers(readyList) : readyList'[i] = readyList[i] /\ readyList[i] \in Threads
        /\ readyList'[Len(readyList) + 1] = t
    BY PushFacts DEF TypeOK, Numbers
  <1>2. \A i \in Numbers(readyList) : readyList[i] # t
    BY DEF ThreadInv
  <1>3. \A i \in Numbers(readyList') : i \in Numbers(readyList) \/ i = Len(readyList) + 1
    BY <1>1 DEF Numbers
  <1>4. ASSUME NEW i \in Numbers(readyList')
        PROVE  status'[readyList'[i]] = "READY"
    <2>1. CASE i \in Numbers(readyList)
      <3>1. /\ readyList'[i] = readyList[i] /\ readyList[i] \in Threads
            /\ readyList[i] # t /\ status[readyList[i]] = "READY"
        BY <1>1, <1>2, <2>1 DEF ThreadInv
      <3> QED
        BY <3>1
    <2> QED
      BY <1>1, <1>3, <2>1
  <1>5. ASSUME NEW i \in Numbers(readyList'), NEW j \in Numbers(readyList'),
               readyList'[i] = readyList'[j]
        PROVE  i = j
    <2>1. CASE i \in Numbers(readyList) /\ j \in Numbers(readyList)
      <3>1. readyList[i] = readyList[j]
        BY <1>1, <1>5, <2>1
      <3> QED
        BY <2>1, <3>1 DEF ThreadInv
    <2> QED
      BY <1>1, <1>2, <1>3, <1>5, <2>1
  <1> QED
    BY <1>4, <1>5

(* A step of the running thread that changes neither the ready list nor    *)
(* who runs.                                                               *)
LEMMA OwnStepThreadInv ==
    ASSUME TypeOK, ThreadInv, NEW t \in Threads, status[t] = "RUNNING",
           UNCHANGED <<readyList, currentThread, threadNum>>,
           \A u \in Threads \ {t} : status'[u] = status[u] /\ at'[u] = at[u],
           status'[t] \in {"RUNNING", "BLOCKED"},
           at'[t] \in {"begin", "load", "user", "finished"},
           at'[t] = "load" => status'[t] = "RUNNING",
           t = Main => at'[t] = "finished"
    PROVE  ThreadInv'
  <1>1. \A i \in Numbers(readyList) : readyList[i] # t /\ readyList[i] \in Threads
    BY DEF ThreadInv, TypeOK, Numbers
  <1>2. t = currentThread /\ at[t] # "none"
    BY DEF ThreadInv
  <1>3. \A p \in Programs : p \in Threads
    BY DEF Threads
  <1> QED
    BY <1>1, <1>2, <1>3 DEF ThreadInv

(* A switch to the front of the list.                                      *)
LEMMA RunThreadInv ==
    ASSUME TypeOK, ThreadInv, readyList # <<>>, NEW finishing \in BOOLEAN,
           Dispatch \/ TimeSlice
    PROVE  ThreadInv'
  <1> DEFINE next == readyList[1]
             n == Len(readyList)
  <1>1. /\ n \in Nat \ {0} /\ next = Head(readyList) /\ next \in Threads
        /\ \A i \in Numbers(readyList) : readyList[i] \in Threads
        /\ Tail(readyList) \in Seq(Threads) /\ Len(Tail(readyList)) = n - 1
        /\ \A i \in Numbers(Tail(readyList)) : Tail(readyList)[i] = readyList[i + 1]
    BY PopFacts DEF TypeOK, Numbers
  <1>2. /\ currentThread \in Threads /\ status[next] = "READY"
        /\ \A t \in Threads : at[t] = "load" => t = currentThread /\ status[t] = "RUNNING"
    BY <1>1 DEF TypeOK, ThreadInv, Numbers
  <1>3. \A i \in Numbers(Tail(readyList)) :
            i + 1 \in Numbers(readyList) /\ Tail(readyList)[i] # next
    BY <1>1 DEF ThreadInv, Numbers
  <1>4. UNCHANGED <<at, threadNum>> /\ currentThread' = next
    BY <1>1 DEF Dispatch, TimeSlice, Run
  <1>5. CASE Dispatch
    <2>1. /\ status[currentThread] # "RUNNING"
          /\ readyList' = Tail(readyList)
          /\ status' = [status EXCEPT ![next] = "RUNNING"]
      BY <1>1, <1>5 DEF Dispatch, Run
    <2>2. \A t \in Threads : at[t] # "load"
      BY <1>2, <2>1
    <2>3. \A t \in Threads : status'[t] = IF t = next THEN "RUNNING" ELSE status[t]
      BY <2>1 DEF TypeOK
    <2>4. \A i \in Numbers(readyList') : status'[readyList'[i]] = "READY"
      <3> SUFFICES ASSUME NEW i \in Numbers(Tail(readyList))
                   PROVE  status'[Tail(readyList)[i]] = "READY"
        BY <2>1
      <3>1. /\ i + 1 \in Numbers(readyList)
            /\ readyList[i + 1] \in Threads /\ readyList[i + 1] # next
            /\ Tail(readyList)[i] = readyList[i + 1]
        BY <1>1, <1>3
      <3> QED
        BY <2>3, <3>1 DEF ThreadInv
    <2>5. \A i, j \in Numbers(readyList') : readyList'[i] = readyList'[j] => i = j
      <3> SUFFICES ASSUME NEW i \in Numbers(readyList'), NEW j \in Numbers(readyList'),
                          readyList'[i] = readyList'[j]
                   PROVE  i = j
        OBVIOUS
      <3>1. /\ readyList[i + 1] = readyList[j + 1]
            /\ i + 1 \in Numbers(readyList) /\ j + 1 \in Numbers(readyList)
        BY <1>1, <1>3, <2>1
      <3>2. i + 1 = j + 1
        BY <3>1 DEF ThreadInv
      <3> QED
        BY <3>2 DEF Numbers
    <2>6. \A t \in Threads : status'[t] = "RUNNING" => t = next
      BY <1>2, <2>1, <2>3 DEF ThreadInv
    <2>7. \A t \in Threads : status'[t] = "JUST_CREATED" <=> at[t] = "none"
      BY <1>2, <2>3 DEF ThreadInv
    <2> QED
      BY <1>4, <2>2, <2>4, <2>5, <2>6, <2>7 DEF ThreadInv
  <1>6. CASE TimeSlice
    <2>1. /\ status[currentThread] = "RUNNING"
          /\ readyList' = Append(Tail(readyList), currentThread)
          /\ status' = [[status EXCEPT ![currentThread] = "READY"] EXCEPT ![next] = "RUNNING"]
          /\ at[currentThread] # "load"
      BY <1>1, <1>6 DEF TimeSlice, Run, Running, BehindAll, Preemptible
    <2>2. \A t \in Threads : at[t] # "load"
      BY <1>2, <2>1
    <2>3. next # currentThread
      BY <1>2, <2>1
    <2>4. \A t \in Threads : status'[t] = IF t = next THEN "RUNNING"
                                         ELSE IF t = currentThread THEN "READY" ELSE status[t]
      BY <2>1 DEF TypeOK
    <2>5. /\ Len(readyList') = n
          /\ \A i \in Numbers(Tail(readyList)) : readyList'[i] = readyList[i + 1]
          /\ readyList'[n] = currentThread
      <3>1. /\ Len(readyList') = Len(Tail(readyList)) + 1
            /\ \A i \in Numbers(Tail(readyList)) : readyList'[i] = Tail(readyList)[i]
            /\ readyList'[Len(Tail(readyList)) + 1] = currentThread
        <4> DEFINE rest == Tail(readyList)
        <4>1. rest \in Seq(Threads) /\ currentThread \in Threads
          BY <1>1, <1>2
        <4>2. readyList' = Append(rest, currentThread)
          BY <2>1
        <4> HIDE DEF rest
        <4>3. /\ Len(Append(rest, currentThread)) = Len(rest) + 1
              /\ \A i \in Numbers(rest) : Append(rest, currentThread)[i] = rest[i]
              /\ Append(rest, currentThread)[Len(rest) + 1] = currentThread
          BY <4>1 DEF Numbers
        <4>4. /\ Len(readyList') = Len(rest) + 1
              /\ \A i \in Numbers(rest) : readyList'[i] = rest[i]
              /\ readyList'[Len(rest) + 1] = currentThread
          BY <4>2, <4>3
        <4> QED
          BY <4>4 DEF rest
      <3>2. Len(Tail(readyList)) + 1 = n
        BY <1>1
      <3> QED
        BY <1>1, <3>1, <3>2
    <2>6. \A i \in Numbers(readyList') : i \in Numbers(Tail(readyList)) \/ i = n
      <3>1. Numbers(readyList') = 1 .. n /\ Numbers(Tail(readyList)) = 1 .. n - 1
        BY <1>1, <2>5 DEF Numbers
      <3> QED
        BY <1>1, <3>1
    <2>7. \A i \in Numbers(Tail(readyList)) : readyList[i + 1] # currentThread
      BY <1>3, <2>1 DEF ThreadInv
    <2>8. \A i \in Numbers(readyList') : status'[readyList'[i]] = "READY"
      <3> SUFFICES ASSUME NEW i \in Numbers(readyList')
                   PROVE  status'[readyList'[i]] = "READY"
        OBVIOUS
      <3>1. CASE i = n
        BY <1>2, <2>3, <2>4, <2>5, <3>1
      <3>2. CASE i \in Numbers(Tail(readyList))
        <4>1. /\ i + 1 \in Numbers(readyList) /\ readyList'[i] = readyList[i + 1]
              /\ readyList[i + 1] \in Threads /\ readyList[i + 1] # next
          BY <1>1, <1>3, <2>5, <3>2
        <4> QED
          BY <2>4, <4>1 DEF ThreadInv
      <3> QED
        BY <2>6, <3>1, <3>2
    <2>9. \A i, j \in Numbers(readyList') : readyList'[i] = readyList'[j] => i = j
      <3> SUFFICES ASSUME NEW i \in Numbers(readyList'), NEW j \in Numbers(readyList'),
                          readyList'[i] = readyList'[j]
                   PROVE  i = j
        OBVIOUS
      <3>1. CASE i \in Numbers(Tail(readyList)) /\ j \in Numbers(Tail(readyList))
        <4>1. /\ readyList[i + 1] = readyList[j + 1]
              /\ i + 1 \in Numbers(readyList) /\ j + 1 \in Numbers(readyList)
          BY <1>3, <2>5, <3>1
        <4>2. i + 1 = j + 1
          BY <4>1 DEF ThreadInv
        <4> QED
          BY <4>2 DEF Numbers
      <3> QED
        BY <2>5, <2>6, <2>7, <3>1
    <2>10. \A t \in Threads : status'[t] = "RUNNING" => t = next
      BY <2>1, <2>4 DEF ThreadInv
    <2>11. \A t \in Threads : status'[t] = "JUST_CREATED" <=> at[t] = "none"
      <3>1. /\ status[next] # "JUST_CREATED" /\ status[currentThread] # "JUST_CREATED"
            /\ \A t \in Threads : status[t] = "JUST_CREATED" <=> at[t] = "none"
        BY <1>2, <2>1 DEF ThreadInv
      <3>2. \A t \in Threads : status'[t] = "JUST_CREATED" <=> status[t] = "JUST_CREATED"
        BY <2>4, <3>1
      <3> QED
        BY <3>1, <3>2
    <2> QED
      BY <1>4, <2>2, <2>8, <2>9, <2>10, <2>11 DEF ThreadInv
  <1> QED
    BY <1>5, <1>6

LEMMA FinishThreadInv ==
    ASSUME TypeOK, ThreadInv, NEW t \in Threads, Running(t), Finish(t)
    PROVE  ThreadInv'
  <1>1. CASE UNCHANGED <<status, at>>
    BY <1>1 DEF Finish, ThreadInv
  <1>2. CASE /\ status' = [status EXCEPT ![t] = "BLOCKED"]
             /\ at' = [at EXCEPT ![t] = "finished"]
    BY <1>2, OwnStepThreadInv DEF Finish, Running, TypeOK
  <1> QED
    BY <1>1, <1>2 DEF Finish

LEMMA NextThreadInv == TypeOK /\ ThreadInv /\ [Next]_vars => ThreadInv'
  <1> SUFFICES ASSUME TypeOK, ThreadInv, [Next]_vars PROVE ThreadInv'
    OBVIOUS
  <1> USE DEF commandLine, memoryVars, threadVars
  <1>0. Programs \subseteq Threads /\ Main \in Threads /\ Main \notin Programs
    BY DEF Threads, Programs, Main
  <1>1. CASE Exec
    <2>1. /\ threadNum \in Programs
          /\ status' = [status EXCEPT ![threadNum] = "READY"]
          /\ at' = [at EXCEPT ![threadNum] = "new"]
          /\ readyList' = Append(readyList, threadNum)
          /\ threadNum' = threadNum + 1
          /\ UNCHANGED currentThread
      BY <1>1 DEF Exec
    <2>2. at[threadNum] = "none" /\ status[threadNum] = "JUST_CREATED"
      BY <1>0, <2>1 DEF ThreadInv, Programs
    <2>3. /\ \A t \in Threads : status'[t] = IF t = threadNum THEN "READY" ELSE status[t]
          /\ \A t \in Threads : at'[t] = IF t = threadNum THEN "new" ELSE at[t]
      BY <2>1 DEF TypeOK
    <2>4. /\ \A i \in Numbers(readyList') : status'[readyList'[i]] = "READY"
          /\ \A i, j \in Numbers(readyList') : readyList'[i] = readyList'[j] => i = j
      BY <1>0, <2>1, <2>2, <2>3, PushThreadInv
    <2>5. \A p \in Programs : p >= threadNum' => at'[p] = "none"
      BY <1>0, <2>1, <2>3 DEF ThreadInv, Programs
    <2>6. /\ \A t \in Threads : status'[t] = "RUNNING" => t = currentThread'
          /\ \A t \in Threads : at'[t] = "load" => status'[t] = "RUNNING"
          /\ \A t \in Threads : status'[t] = "JUST_CREATED" <=> at'[t] = "none"
      BY <2>1, <2>2, <2>3 DEF ThreadInv
    <2>7. /\ \A t \in Threads : at'[t] \in {"exec", "finished"} \/ t # Main
          /\ \A p \in Programs : at'[p] # "exec"
      BY <1>0, <2>1, <2>3 DEF ThreadInv
    <2> QED
      BY <2>4, <2>5, <2>6, <2>7 DEF ThreadInv
  <1>2. CASE ExecAllDone
    BY <1>0, <1>2, FinishThreadInv DEF ExecAllDone
  <1>3. CASE TimeSlice \/ Dispatch
    BY <1>3, RunThreadInv DEF TimeSlice, Dispatch
  <1>4. ASSUME NEW p \in Programs, Begin(p)
        PROVE  ThreadInv'
    BY <1>0, <1>4, OwnStepThreadInv DEF Begin, Running, TypeOK
  <1>5. ASSUME NEW p \in Programs, Begun(p)
        PROVE  ThreadInv'
    BY <1>0, <1>5, OwnStepThreadInv DEF Begun, Running, TypeOK
  <1>6. ASSUME NEW p \in Programs, LoadNoFile(p) \/ Exit(p)
        PROVE  ThreadInv'
    BY <1>0, <1>6, FinishThreadInv DEF LoadNoFile, Loading, Exit, InUserCode
  <1>7. ASSUME NEW p \in Programs, LoadSegments(p)
        PROVE  ThreadInv'
    BY <1>0, <1>7, OwnStepThreadInv DEF LoadSegments, Loading, Running, TypeOK
  <1>8. ASSUME NEW p \in Programs, PrintInt(p)
        PROVE  ThreadInv'
    BY <1>0, <1>8, OwnStepThreadInv DEF PrintInt, InUserCode, Running, TypeOK
  <1>9. ASSUME NEW p \in Programs, ConsoleDone(p)
        PROVE  ThreadInv'
    <2>1. /\ status[p] = "BLOCKED" /\ at[p] = "user"
          /\ status' = [status EXCEPT ![p] = "READY"]
          /\ readyList' = Append(readyList, p)
          /\ UNCHANGED <<currentThread, threadNum, at>>
      BY <1>9 DEF ConsoleDone
    <2>2. \A t \in Threads : status'[t] = IF t = p THEN "READY" ELSE status[t]
      BY <2>1 DEF TypeOK
    <2>3. /\ \A i \in Numbers(readyList') : status'[readyList'[i]] = "READY"
          /\ \A i, j \in Numbers(readyList') : readyList'[i] = readyList'[j] => i = j
      BY <1>0, <2>1, <2>2, PushThreadInv
    <2>4. /\ \A t \in Threads : status'[t] = "RUNNING" => t = currentThread'
          /\ \A t \in Threads : at'[t] = "load" => status'[t] = "RUNNING"
          /\ \A t \in Threads : status'[t] = "JUST_CREATED" <=> at'[t] = "none"
      BY <2>1, <2>2 DEF ThreadInv
    <2> QED
      BY <2>1, <2>3, <2>4 DEF ThreadInv
  <1>10. CASE UNCHANGED <<threadNum, currentThread, readyList, status, at>>
    BY <1>10 DEF ThreadInv
  <1>11. ASSUME NEW p \in Programs,
                LoadTooBig(p) \/ LoadPage(p) \/ Store(p) \/ Halt(p) \/ UserError(p)
         PROVE  UNCHANGED <<threadNum, currentThread, readyList, status, at>>
    BY <1>11 DEF LoadTooBig, Abort, LoadPage, Store, Write, Halt, UserError
  <1>12. ASSUME NEW p \in Programs, NEW i \in Numbers(pageTable[p]), ReadFile(p, i)
         PROVE  UNCHANGED <<threadNum, currentThread, readyList, status, at>>
    BY <1>12 DEF ReadFile, Write
  <1>13. CASE UNCHANGED vars
    BY <1>10, <1>13 DEF vars
  <1> QED
    BY <1>1, <1>2, <1>3, <1>4, <1>5, <1>6, <1>7, <1>8, <1>9, <1>10, <1>11, <1>12, <1>13
    DEF Next, InKernel, InProgram

-----------------------------------------------------------------------------
(* The thread to destroy and the machine's page table.                     *)

LEMMA InitCarcassInv == Init => CarcassInv /\ MachineTableInv
  BY DEF Init, CarcassInv, MachineTableInv, Programs, Threads, Main

LEMMA FinishCarcassInv ==
    ASSUME TypeOK, ThreadInv, CarcassInv, MachineTableInv,
           NEW t \in Threads, Running(t), at[t] # "new", Finish(t)
    PROVE  CarcassInv' /\ MachineTableInv'
  <1>1. t = currentThread /\ toBeDestroyed = NoThread
    BY DEF ThreadInv, CarcassInv, Running
  <1>2. \A u \in Threads : at'[u] = at[u] \/ at'[u] = "finished"
    BY DEF Finish, TypeOK
  <1> QED
    BY <1>1, <1>2 DEF Finish, CarcassInv, MachineTableInv, Threads

LEMMA RunCarcassInv ==
    ASSUME TypeOK, ThreadInv, CarcassInv, MachineTableInv, TimeSlice \/ Dispatch
    PROVE  CarcassInv' /\ MachineTableInv'
  <1> DEFINE next == Head(readyList)
  <1>1. readyList # <<>> /\ next \in Threads /\ next = readyList[1] /\ 1 \in Numbers(readyList)
    <2>1. readyList # <<>> /\ readyList \in Seq(Threads)
      BY DEF TimeSlice, Dispatch, TypeOK
    <2> QED
      BY <2>1 DEF Numbers
  <1>2. UNCHANGED <<at, machineStatus>> /\ currentThread' = next /\ machineStatus = "up"
    BY DEF TimeSlice, Dispatch, Run, Preemptible
  <1>3. status'[next] = "RUNNING"
    BY <1>1 DEF TimeSlice, Dispatch, Run, TypeOK
  <1>4. toBeDestroyed = NoThread
    BY <1>2 DEF TimeSlice, Dispatch, Preemptible, CarcassInv, Running
  <1>5. toBeDestroyed' # NoThread =>
            at[toBeDestroyed'] = "finished" /\ at[next] = "new"
    BY <1>4 DEF TimeSlice, Dispatch, Run
  <1>6. \A p \in Programs : at[p] = "user" /\ p = next => machineTable' = p
    <2>1. machineTable' = IF next = Main \/ at[next] = "new" THEN machineTable ELSE next
      BY DEF TimeSlice, Dispatch, Run, RestoredTable
    <2> QED
      BY <2>1 DEF Programs, Main
  <1> QED
    BY <1>2, <1>3, <1>5, <1>6 DEF CarcassInv, MachineTableInv, Running

LEMMA NextCarcassInv ==
    TypeOK /\ ThreadInv /\ CarcassInv /\ MachineTableInv /\ [Next]_vars
        => CarcassInv' /\ MachineTableInv'
  <1> SUFFICES ASSUME TypeOK, ThreadInv, CarcassInv, MachineTableInv, [Next]_vars
               PROVE  CarcassInv' /\ MachineTableInv'
    OBVIOUS
  <1> USE DEF commandLine, memoryVars, threadVars
  <1>0. Programs \subseteq Threads /\ Main \in Threads /\ Main \notin Programs
    BY DEF Threads, Programs, Main
  <1>1. CASE Exec
    <2>1. at[threadNum] = "none" /\ threadNum \in Programs
      BY <1>0, <1>1 DEF Exec, ThreadInv, Programs
    <2>2. at[Main] \in {"exec", "finished"} /\ currentThread = Main
      BY <1>0, <1>1 DEF Exec, ThreadInv, Running
    <2>3. \A t \in Threads : t # threadNum => at'[t] = at[t]
      BY <1>1 DEF Exec, TypeOK
    <2>4. toBeDestroyed = NoThread
      BY <2>2 DEF CarcassInv
    <2> QED
      BY <1>0, <1>1, <2>2, <2>4 DEF Exec, CarcassInv, MachineTableInv
  <1>2. CASE ExecAllDone
    BY <1>0, <1>2, FinishCarcassInv DEF ExecAllDone, ThreadInv
  <1>3. CASE TimeSlice \/ Dispatch
    BY <1>3, RunCarcassInv
  <1>4. ASSUME NEW p \in Programs, Begin(p)
        PROVE  CarcassInv' /\ MachineTableInv'
    BY <1>0, <1>4 DEF Begin, CheckToBeDestroyed, CarcassInv, MachineTableInv, TypeOK
  <1>5. ASSUME NEW p \in Programs, Running(p), at[p] # "new"
        PROVE  toBeDestroyed = NoThread /\ p = currentThread
    BY <1>0, <1>5 DEF CarcassInv, ThreadInv, Running
  <1>6. ASSUME NEW p \in Programs, Begun(p)
        PROVE  CarcassInv' /\ MachineTableInv'
    BY <1>0, <1>5, <1>6 DEF Begun, CarcassInv, MachineTableInv, TypeOK
  <1>7. ASSUME NEW p \in Programs, LoadNoFile(p) \/ Exit(p)
        PROVE  CarcassInv' /\ MachineTableInv'
    BY <1>0, <1>7, FinishCarcassInv DEF LoadNoFile, Loading, Exit, InUserCode
  <1>8. ASSUME NEW p \in Programs, LoadSegments(p)
        PROVE  CarcassInv' /\ MachineTableInv'
    BY <1>0, <1>5, <1>8 DEF LoadSegments, Loading, CarcassInv, MachineTableInv, TypeOK
  <1>9. ASSUME NEW p \in Programs, PrintInt(p)
        PROVE  CarcassInv' /\ MachineTableInv'
    BY <1>0, <1>5, <1>9 DEF PrintInt, InUserCode, CarcassInv, MachineTableInv, TypeOK
  <1>10. ASSUME NEW p \in Programs, ConsoleDone(p)
         PROVE  CarcassInv' /\ MachineTableInv'
    <2>1. /\ UNCHANGED <<at, toBeDestroyed, currentThread, machineTable, machineStatus>>
          /\ \A t \in Threads : status[t] = "RUNNING" => status'[t] = "RUNNING"
      BY <1>0, <1>10 DEF ConsoleDone, TypeOK
    <2> QED
      BY <2>1 DEF CarcassInv, MachineTableInv, Running, TypeOK
  <1>11. ASSUME NEW p \in Programs, LoadTooBig(p) \/ Halt(p) \/ UserError(p)
         PROVE  CarcassInv' /\ MachineTableInv'
    BY <1>11 DEF LoadTooBig, Abort, Halt, UserError, CarcassInv, MachineTableInv
  <1>12. CASE UNCHANGED <<at, toBeDestroyed, currentThread, machineTable, machineStatus, status>>
    BY <1>12 DEF CarcassInv, MachineTableInv, Running
  <1>13. ASSUME NEW p \in Programs, LoadPage(p) \/ Store(p)
         PROVE  CarcassInv' /\ MachineTableInv'
    BY <1>12, <1>13 DEF LoadPage, Store, Write
  <1>14. ASSUME NEW p \in Programs, NEW i \in Numbers(pageTable[p]), ReadFile(p, i)
         PROVE  CarcassInv' /\ MachineTableInv'
    BY <1>12, <1>14 DEF ReadFile, Write
  <1>15. CASE UNCHANGED vars
    BY <1>12, <1>15 DEF vars
  <1> QED
    BY <1>1, <1>2, <1>3, <1>4, <1>6, <1>7, <1>8, <1>9, <1>10, <1>11, <1>13, <1>14, <1>15
    DEF Next, InKernel, InProgram

-----------------------------------------------------------------------------
(* The frames.                                                             *)

LEMMA InitFrames == Init => FramesInv /\ Consecutive /\ LoaderInv
  <1> SUFFICES ASSUME Init PROVE FramesInv /\ Consecutive /\ LoaderInv
    OBVIOUS
  <1>1. \A p \in Programs : pageTable[p] = <<>> /\ Len(pageTable[p]) = 0 /\ image[p] \in Nat
    BY KernelAssumption DEF Init, Programs
  <1>2. \A f \in Frames : ~frameStatus[f]
    BY DEF Init
  <1> QED
    BY <1>1, <1>2 DEF FramesInv, Consecutive, LoaderInv, Numbers

(* A step that leaves frames and page tables alone.                        *)
LEMMA SameFrames ==
    ASSUME FramesInv, Consecutive, LoaderInv,
           UNCHANGED <<image, frameStatus, pageTable>>,
           \A p \in Programs : at'[p] \in {"none", "new", "begin"} =>
               at[p] \in {"none", "new", "begin"},
           \A p \in Programs : at'[p] = "load" => at[p] \in {"begin", "load"}
    PROVE  FramesInv' /\ Consecutive' /\ LoaderInv'
  BY DEF FramesInv, Consecutive, LoaderInv

LEMMA LoadPageFrames ==
    ASSUME TypeOK, ThreadInv, FramesInv, Consecutive, LoaderInv,
           NEW p \in Programs, LoadPage(p)
    PROVE  FramesInv' /\ Consecutive' /\ LoaderInv'
  <1>1. PICK f \in Frames :
            /\ Find_Frame(f) /\ Mark(f)
            /\ pageTable' = [pageTable EXCEPT ![p] = Append(@, f)]
    BY DEF LoadPage
  <1> DEFINE n == Len(pageTable[p])
  <1>2. /\ \A q \in Programs : q # p => pageTable'[q] = pageTable[q]
        /\ pageTable'[p] = Append(pageTable[p], f)
        /\ \A g \in Frames : frameStatus'[g] <=> g = f \/ frameStatus[g]
        /\ \A q \in Programs : pageTable[q] \in Seq(Frames)
    BY <1>1 DEF Mark, TypeOK
  <1>3. /\ n \in Nat /\ pageTable'[p] # <<>> /\ Len(pageTable'[p]) = n + 1
        /\ \A i \in Numbers(pageTable[p]) : pageTable'[p][i] = pageTable[p][i]
        /\ pageTable'[p][n + 1] = f
    <2> DEFINE old == pageTable[p]
    <2>1. old \in Seq(Frames) /\ pageTable'[p] = Append(old, f)
      BY <1>2
    <2> HIDE DEF old
    <2>2. /\ Len(old) \in Nat /\ Append(old, f) # <<>> /\ Len(Append(old, f)) = Len(old) + 1
          /\ \A i \in Numbers(old) : Append(old, f)[i] = old[i]
          /\ Append(old, f)[Len(old) + 1] = f
      BY <2>1 DEF Numbers
    <2>3. /\ Len(old) \in Nat /\ pageTable'[p] # <<>> /\ Len(pageTable'[p]) = Len(old) + 1
          /\ \A i \in Numbers(old) : pageTable'[p][i] = old[i]
          /\ pageTable'[p][Len(old) + 1] = f
      BY <2>1, <2>2
    <2> QED
      BY <2>3 DEF old
  <1>4. /\ Numbers(pageTable'[p]) = Numbers(pageTable[p]) \cup {n + 1}
        /\ n + 1 \notin Numbers(pageTable[p])
    BY <1>3 DEF Numbers
  <1>5. /\ \A q \in Programs : q # p => Numbers(pageTable'[q]) = Numbers(pageTable[q])
        /\ \A q \in Programs : \A i \in Numbers(pageTable[q]) :
               /\ i \in Numbers(pageTable'[q])
               /\ pageTable'[q][i] = pageTable[q][i]
               /\ pageTable[q][i] \in Frames /\ frameStatus[pageTable[q][i]]
               /\ pageTable[q][i] # f
    <2>1. \A q \in Programs : \A i \in Numbers(pageTable[q]) :
              pageTable[q][i] \in Frames /\ frameStatus[pageTable[q][i]]
      BY <1>2 DEF FramesInv, Numbers
    <2>2. ~frameStatus[f]
      BY <1>1 DEF Find_Frame, Free
    <2>3. \A q \in Programs : \A i \in Numbers(pageTable[q]) : pageTable[q][i] # f
      BY <2>1, <2>2
    <2>4. \A q \in Programs : q # p => Numbers(pageTable'[q]) = Numbers(pageTable[q])
      BY <1>2
    <2>5. \A q \in Programs : \A i \in Numbers(pageTable[q]) :
              i \in Numbers(pageTable'[q]) /\ pageTable'[q][i] = pageTable[q][i]
      BY <1>2, <1>3, <1>4
    <2> QED
      BY <2>1, <2>3, <2>4, <2>5
  <1>6. \A g \in Frames : frameStatus[g] <=> g < f
    <2>1. \A g \in Frames : ~frameStatus[g] => f <= g
      BY <1>1 DEF Find_Frame, Free
    <2>2. \A g \in Frames : frameStatus[g] => ~(f < g) /\ f # g
      BY <1>1 DEF Find_Frame, Free, LoaderInv
    <2>3. \A g \in Frames : g \in Int /\ f \in Int
      BY KernelAssumption DEF Frames
    <2> QED
      BY <2>1, <2>2, <2>3
  <1>7. FramesInv'
    <2>1. ASSUME NEW g \in Frames
          PROVE  frameStatus'[g] <=> \E q \in Programs : \E i \in Numbers(pageTable'[q]) : pageTable'[q][i] = g
      <3>1. CASE g = f
        BY <1>2, <1>3, <1>4, <3>1
      <3>2. CASE g # f
        <4>1. frameStatus[g] <=> \E q \in Programs : \E i \in Numbers(pageTable[q]) : pageTable[q][i] = g
          BY DEF FramesInv
        <4>2. (\E q \in Programs : \E i \in Numbers(pageTable[q]) : pageTable[q][i] = g)
                 <=> \E q \in Programs : \E i \in Numbers(pageTable'[q]) : pageTable'[q][i] = g
          BY <1>3, <1>4, <1>5, <3>2
        <4> QED
          BY <1>2, <3>2, <4>1, <4>2
      <3> QED
        BY <3>1, <3>2
    <2>2. ASSUME NEW q \in Programs, NEW r \in Programs,
                 NEW i \in Numbers(pageTable'[q]), NEW j \in Numbers(pageTable'[r]),
                 pageTable'[q][i] = pageTable'[r][j]
          PROVE  q = r /\ i = j
      <3>1. CASE i \in Numbers(pageTable[q]) /\ j \in Numbers(pageTable[r])
        <4>1. pageTable[q][i] = pageTable[r][j]
          BY <1>5, <2>2, <3>1
        <4> QED
          BY <3>1, <4>1 DEF FramesInv
      <3>2. \/ i \in Numbers(pageTable[q])
            \/ q = p /\ i = n + 1 /\ pageTable'[q][i] = f
        BY <1>3, <1>4, <1>5
      <3>3. \/ j \in Numbers(pageTable[r])
            \/ r = p /\ j = n + 1 /\ pageTable'[r][j] = f
        BY <1>3, <1>4, <1>5
      <3> QED
        BY <1>5, <2>2, <3>1, <3>2, <3>3
    <2> QED
      BY <2>1, <2>2 DEF FramesInv
  <1>8. n > 0 => f = pageTable[p][n] + 1
    <2> SUFFICES ASSUME n > 0 PROVE f = pageTable[p][n] + 1
      OBVIOUS
    <2> DEFINE last == pageTable[p][n]
    <2>1. n \in Numbers(pageTable[p]) /\ pageTable[p] # <<>>
      BY <1>3 DEF Numbers
    <2>2. last \in Frames /\ frameStatus[last]
      BY <1>5, <2>1
    <2>3. \A g \in Frames : frameStatus[g] => g <= last
      BY <2>1 DEF LoaderInv, LoadPage, Loading
    <2>4. last < f
      BY <1>6, <2>2
    <2>5. ASSUME last + 1 < f PROVE FALSE
      <3>1. last + 1 \in Frames /\ last \in Int
        BY <2>2, <2>5, KernelAssumption DEF Frames
      <3> QED
        BY <1>6, <2>3, <2>5, <3>1
    <2>6. last \in Int /\ f \in Int
      BY <2>2, KernelAssumption DEF Frames
    <2> QED
      BY <2>4, <2>5, <2>6
  <1>9. Consecutive'
    <2> SUFFICES ASSUME NEW q \in Programs, NEW i \in 1 .. Len(pageTable'[q]) - 1
                 PROVE  pageTable'[q][i + 1] = pageTable'[q][i] + 1
      BY DEF Consecutive
    <2>1. CASE q # p
      BY <1>2, <2>1 DEF Consecutive
    <2>2. CASE q = p /\ i < n
      <3>1. i \in Numbers(pageTable[p]) /\ i + 1 \in Numbers(pageTable[p]) /\ i \in 1 .. n - 1
        BY <1>3, <2>2 DEF Numbers
      <3> QED
        BY <1>3, <2>2, <3>1 DEF Consecutive
    <2>3. CASE q = p /\ i = n
      <3>1. n > 0 /\ n \in Numbers(pageTable[p])
        BY <1>3, <2>3 DEF Numbers
      <3> QED
        BY <1>3, <1>8, <2>3, <3>1
    <2> QED
      BY <1>3, <2>1, <2>2, <2>3
  <1>10. LoaderInv'
    <2>1. /\ UNCHANGED <<image, at, status, currentThread>>
          /\ at[p] = "load" /\ image[p] <= NumPhysPages /\ n < image[p] /\ status[p] = "RUNNING"
          /\ image[p] \in Nat
      <3>1. image[p] \in Nat
        BY KernelAssumption DEF TypeOK, Programs
      <3>2. UNCHANGED <<image, at, status, currentThread>>
        BY DEF LoadPage, commandLine, threadVars
      <3> QED
        BY <3>1, <3>2 DEF LoadPage, Loading, Running
    <2>2. \A g, h \in Frames : h < g /\ frameStatus'[g] => frameStatus'[h]
      <3>1. \A g \in Frames : g \in Int
        BY KernelAssumption DEF Frames
      <3>2. \A g \in Frames : frameStatus'[g] <=> g <= f
        <4>1. \A g \in Frames : g <= f <=> g = f \/ g < f
          BY <3>1
        <4> QED
          BY <1>2, <1>6, <4>1
      <3>3. \A g, h \in Frames : h < g /\ g <= f => h <= f
        BY <3>1
      <3> QED
        BY <3>2, <3>3
    <2>3. \A q \in Programs : at'[q] \in {"none", "new", "begin"} => pageTable'[q] = <<>>
      BY <1>2, <2>1 DEF LoaderInv
    <2>4. \A q \in Programs : Len(pageTable'[q]) <= image'[q]
      BY <1>2, <1>3, <2>1 DEF LoaderInv
    <2>5. \A q \in Programs : pageTable'[q] # <<>> => image'[q] <= NumPhysPages
      BY <1>2, <2>1 DEF LoaderInv
    <2>6. \A q \in Programs : at[q] = "load" => q = p
      BY <2>1 DEF ThreadInv, Threads
    <2>7. \A g \in Frames : frameStatus'[g] => g <= f
      <3>1. \A g \in Frames : g < f \/ g = f => g <= f
        BY KernelAssumption DEF Frames
      <3> QED
        BY <1>2, <1>6, <3>1
    <2> QED
      BY <1>3, <2>1, <2>2, <2>3, <2>4, <2>5, <2>6, <2>7 DEF LoaderInv
  <1> QED
    BY <1>7, <1>9, <1>10

LEMMA NextFrames ==
    TypeOK /\ ThreadInv /\ FramesInv /\ Consecutive /\ LoaderInv /\ [Next]_vars
        => FramesInv' /\ Consecutive' /\ LoaderInv'
  <1> SUFFICES ASSUME TypeOK, ThreadInv, FramesInv, Consecutive, LoaderInv, [Next]_vars
               PROVE  FramesInv' /\ Consecutive' /\ LoaderInv'
    OBVIOUS
  <1> USE DEF commandLine, memoryVars, threadVars
  <1>0. Programs \subseteq Threads
    BY DEF Threads
  <1>1. CASE Exec
    <2>1. at[threadNum] = "none" /\ threadNum \in Programs
      BY <1>0, <1>1 DEF Exec, ThreadInv, Programs
    <2>2. \A q \in Programs : at'[q] = at[q] \/ (at'[q] = "new" /\ at[q] = "none")
      BY <1>0, <1>1, <2>1 DEF Exec, TypeOK
    <2> QED
      BY <1>1, <2>2, SameFrames DEF Exec
  <1>2. ASSUME NEW t \in Threads, Finish(t)
        PROVE  FramesInv' /\ Consecutive' /\ LoaderInv'
    <2>1. \A q \in Programs : at'[q] = at[q] \/ at'[q] = "finished"
      BY <1>0, <1>2 DEF Finish, TypeOK
    <2> QED
      BY <1>2, <2>1, SameFrames DEF Finish
  <1>3. CASE TimeSlice \/ Dispatch
    BY <1>3, SameFrames DEF TimeSlice, Dispatch
  <1>4. ASSUME NEW p \in Programs, Begin(p)
        PROVE  FramesInv' /\ Consecutive' /\ LoaderInv'
    <2>1. \A q \in Programs : at'[q] = at[q] \/ (at'[q] = "begin" /\ at[q] = "new")
      BY <1>0, <1>4 DEF Begin, TypeOK
    <2> QED
      BY <1>4, <2>1, SameFrames DEF Begin
  <1>5. ASSUME NEW p \in Programs, Begun(p)
        PROVE  FramesInv' /\ Consecutive' /\ LoaderInv'
    <2>1. \A q \in Programs : at'[q] = at[q] \/ (at'[q] = "load" /\ at[q] = "begin")
      BY <1>0, <1>5 DEF Begun, TypeOK
    <2> QED
      BY <1>5, <2>1, SameFrames DEF Begun
  <1>6. ASSUME NEW p \in Programs, LoadPage(p)
        PROVE  FramesInv' /\ Consecutive' /\ LoaderInv'
    BY <1>6, LoadPageFrames
  <1>7. ASSUME NEW p \in Programs, LoadSegments(p)
        PROVE  FramesInv' /\ Consecutive' /\ LoaderInv'
    <2>1. \A q \in Programs : at'[q] = at[q] \/ at'[q] = "user"
      BY <1>0, <1>7 DEF LoadSegments, TypeOK
    <2> QED
      BY <1>7, <2>1, SameFrames DEF LoadSegments
  <1>8. ASSUME NEW p \in Programs,
               LoadTooBig(p) \/ Store(p) \/ PrintInt(p) \/ Halt(p) \/ UserError(p) \/ ConsoleDone(p)
        PROVE  UNCHANGED <<image, frameStatus, pageTable, at>>
    BY <1>8 DEF LoadTooBig, Abort, Store, Write, PrintInt, Halt, UserError, ConsoleDone
  <1>9. ASSUME NEW p \in Programs, NEW i \in Numbers(pageTable[p]), ReadFile(p, i)
        PROVE  UNCHANGED <<image, frameStatus, pageTable, at>>
    BY <1>9 DEF ReadFile, Write
  <1>10. CASE UNCHANGED <<image, frameStatus, pageTable, at>>
    BY <1>10, SameFrames
  <1>11. CASE UNCHANGED vars
    BY <1>10, <1>11 DEF vars
  <1>12. Main \in Threads
    BY DEF Threads
  <1> QED
    BY <1>0, <1>1, <1>2, <1>3, <1>4, <1>5, <1>6, <1>7, <1>8, <1>9, <1>10, <1>11, <1>12
    DEF Next, InKernel, InProgram, ExecAllDone, LoadNoFile, Exit

-----------------------------------------------------------------------------
(* The inductive invariant.                                                *)

LEMMA InitIInv == Init => IInv
  BY InitTypeOK, InitThreadInv, InitCarcassInv, InitFrames DEF IInv

LEMMA NextIInv == IInv /\ [Next]_vars => IInv'
  BY NextTypeOK, NextThreadInv, NextCarcassInv, NextFrames DEF IInv

THEOREM Inductive == Spec => []IInv
  BY InitIInv, NextIInv, PTL DEF Spec

(* A marked frame is one page of one program, and no other frame is.       *)
THEOREM FramesOwnedOnce == Spec => []FramesInv
  BY Inductive, PTL DEF IInv

(* The pages of a program lie in a row.                                    *)
THEOREM FramesInARow == Spec => []Consecutive
  BY Inductive, PTL DEF IInv

(* The assertion in Run about the thread to destroy holds, and the thread  *)
(* that is destroyed has finished and is not the current one.              *)
THEOREM CarcassDestroyed == Spec => []DestroyedOnce
  <1>1. IInv => DestroyedOnce
    BY DEF IInv, CarcassInv, DestroyedOnce
  <1> QED
    BY <1>1, Inductive, PTL

-----------------------------------------------------------------------------
(* The memories of the programs are private.                               *)

LEMMA TableFacts ==
    ASSUME TypeOK, FramesInv, NEW q \in Programs, NEW j \in Numbers(pageTable[q])
    PROVE  /\ pageTable[q][j] \in Frames /\ frameStatus[pageTable[q][j]]
           /\ Len(pageTable[q]) \in Nat
           /\ \A r \in Programs : \A k \in Numbers(pageTable[r]) :
                  pageTable[r][k] = pageTable[q][j] => r = q /\ k = j
  BY DEF TypeOK, FramesInv, Numbers

(* A step after which the loaded programs have what they had.              *)
LEMMA SameSpace ==
    ASSUME UNCHANGED pageTable,
           \A q \in Programs : Loaded(q)' <=> Loaded(q) \/ (at'[q] = "finished" /\ pageTable[q] = <<>>),
           \A q \in Programs : Loaded(q) =>
               \A j \in Numbers(pageTable[q]) : memory'[pageTable[q][j]] = memory[pageTable[q][j]]
    PROVE  UNCHANGED space
  <1>1. ASSUME NEW q \in Programs
        PROVE  space'[q] = space[q]
    <2>1. CASE Loaded(q)
      BY <2>1 DEF space, Numbers
    <2>2. CASE ~Loaded(q) /\ at'[q] = "finished" /\ pageTable[q] = <<>>
      <3>1. space[q] = <<>> /\ space'[q] = [i \in 1 .. Len(pageTable[q]) |-> memory'[pageTable[q][i]]]
        BY <2>2 DEF space
      <3>2. Len(pageTable[q]) = 0
        BY <2>2
      <3>3. space'[q] = <<>>
        BY <3>1, <3>2
      <3> QED
        BY <3>1, <3>3
    <2>3. CASE ~Loaded(q) /\ ~Loaded(q)'
      BY <2>3 DEF space
    <2> QED
      BY <2>1, <2>2, <2>3
  <1> QED
    BY <1>1 DEF space

(* The piece of a segment that crosses a page boundary lands in the next   *)
(* page of the same program, since its pages lie in a row: all the pages   *)
(* of the program are written, and no other frame.                         *)
LEMMA SegmentsLandInOwnPages ==
    ASSUME TypeOK, Consecutive, NEW p \in Programs, Len(pageTable[p]) = image[p],
           NEW crossed \in SUBSET (1 .. image[p] - 1)
    PROVE  Copied(pageTable[p], crossed) = {pageTable[p][j] : j \in Numbers(pageTable[p])}
  <1> DEFINE table == pageTable[p]
             n == Len(pageTable[p])
  <1>1. n \in Nat /\ Numbers(table) = 1 .. n
    BY DEF TypeOK, Numbers
  <1>2. \A i \in crossed : /\ i \in Int /\ i + 1 \in Numbers(table)
                           /\ table[i] + 1 = table[i + 1]
    BY <1>1 DEF Consecutive
  <1>3. ASSUME NEW f \in Copied(table, crossed)
        PROVE  f \in {table[j] : j \in Numbers(table)}
    <2>1. CASE \E i \in crossed : f = table[i] + 1
      BY <1>2, <2>1
    <2> QED
      BY <1>3, <2>1 DEF Copied
  <1>4. ASSUME NEW j \in Numbers(table)
        PROVE  table[j] \in Copied(table, crossed)
    <2>1. CASE j - 1 \notin crossed
      BY <2>1 DEF Copied
    <2>2. CASE j - 1 \in crossed
      <3>1. table[j - 1] + 1 = table[j]
        BY <1>1, <1>2, <2>2
      <3> QED
        BY <2>2, <3>1 DEF Copied
    <2> QED
      BY <2>1, <2>2
  <1> QED
    BY <1>3, <1>4

LEMMA LoadStep ==
    ASSUME IInv, NEW p \in Programs, LoadSegments(p)
    PROVE  Private!Load(p)
  <1> DEFINE n == image[p]
  <1>1. /\ at[p] = "load" /\ n > 0 /\ Len(pageTable[p]) = n
        /\ at' = [at EXCEPT ![p] = "user"]
        /\ UNCHANGED <<pageTable, image>>
    BY DEF LoadSegments, Loading, commandLine
  <1>2. n \in 0 .. NumPhysPages
    <2>1. pageTable[p] # <<>> /\ n \in Nat
      BY <1>1, KernelAssumption DEF TypeOK, IInv, Programs
    <2> QED
      BY <2>1, KernelAssumption DEF IInv, LoaderInv
  <1>3. PICK crossed \in SUBSET (1 .. image[p] - 1) :
            memory' = [f \in Frames |->
                IF f \in Copied(pageTable[p], crossed) THEN p ELSE memory[f]]
    BY DEF LoadSegments
  <1>4. Copied(pageTable[p], crossed) = {pageTable[p][j] : j \in Numbers(pageTable[p])}
    BY <1>1, SegmentsLandInOwnPages DEF IInv
  <1>5. \A q \in Programs : \A j \in Numbers(pageTable[q]) :
            memory'[pageTable[q][j]] = IF q = p THEN p ELSE memory[pageTable[q][j]]
    BY <1>3, <1>4, TableFacts DEF IInv
  <1>6. ~Loaded(p) /\ Loaded(p)' /\ \A q \in Programs \ {p} : Loaded(q)' <=> Loaded(q)
    BY <1>1 DEF Loaded, IInv, TypeOK, Threads
  <1>7. space[p] = <<>> /\ space'[p] = [i \in 1 .. n |-> p]
    BY <1>1, <1>5, <1>6 DEF space, Numbers
  <1>8. ASSUME NEW q \in Programs \ {p}
        PROVE  space'[q] = space[q]
    BY <1>1, <1>5, <1>6, <1>8 DEF space, Numbers
  <1>9. space' = [space EXCEPT ![p] = [i \in 1 .. n |-> p]]
    BY <1>7, <1>8 DEF space
  <1> QED
    BY <1>2, <1>7, <1>9 DEF Private!Load

(* A write to frame f of the page table of q is a write to a page of q.    *)
LEMMA WriteStep ==
    ASSUME IInv, NEW q \in Programs, NEW i \in Numbers(pageTable[q]), NEW data,
           Loaded(q), Write(pageTable[q][i], data)
    PROVE  i \in DOMAIN space[q] /\ space' = [space EXCEPT ![q][i] = data]
  <1>1. /\ UNCHANGED <<pageTable, at>>
        /\ pageTable[q][i] \in Frames
        /\ \A r \in Programs : \A k \in Numbers(pageTable[r]) :
               memory'[pageTable[r][k]] = IF r = q /\ k = i THEN data ELSE memory[pageTable[r][k]]
    BY TableFacts DEF IInv, Write, threadVars, TypeOK
  <1>2. \A r \in Programs : Loaded(r)' <=> Loaded(r)
    BY <1>1 DEF Loaded
  <1>3. space[q] = [k \in 1 .. Len(pageTable[q]) |-> memory[pageTable[q][k]]]
    BY DEF space
  <1>4. space'[q] = [space[q] EXCEPT ![i] = data]
    BY <1>1, <1>2, <1>3 DEF space, Numbers
  <1>5. ASSUME NEW r \in Programs \ {q}
        PROVE  space'[r] = space[r]
    BY <1>1, <1>2 DEF space, Numbers
  <1>6. space' = [space EXCEPT ![q] = [space[q] EXCEPT ![i] = data]]
    BY <1>4, <1>5 DEF space
  <1> QED
    BY <1>3, <1>6 DEF Numbers

LEMMA PrivateStep == IInv /\ [Next]_vars => [Private!Next]_space
  <1> SUFFICES ASSUME IInv, [Next]_vars PROVE [Private!Next]_space
    OBVIOUS
  <1> USE DEF commandLine, memoryVars, threadVars
  <1>0. Programs \subseteq Threads /\ TypeOK /\ ThreadInv /\ FramesInv /\ LoaderInv
    BY DEF Threads, IInv
  <1>1. ASSUME UNCHANGED <<pageTable, memory>>,
               \A q \in Programs :
                   \/ at'[q] = at[q]
                   \/ ~Loaded(q) /\ at'[q] \notin {"user", "finished"}
                   \/ at'[q] = "finished" /\ (at[q] = "user" \/ pageTable[q] = <<>>)
        PROVE  UNCHANGED space
    BY <1>1, SameSpace DEF Loaded
  <1>2. CASE Exec
    <2>1. at[threadNum] = "none" /\ threadNum \in Programs
      BY <1>0, <1>2 DEF Exec, ThreadInv, Programs
    <2>2. \A q \in Programs : at'[q] = at[q] \/ (at'[q] = "new" /\ at[q] = "none")
      BY <1>0, <1>2, <2>1 DEF Exec, TypeOK
    <2> QED
      BY <1>1, <1>2, <2>2 DEF Exec, Loaded
  <1>3. CASE ExecAllDone
    <2>1. \A q \in Programs : at'[q] = at[q]
      BY <1>0, <1>3 DEF ExecAllDone, Finish, TypeOK, Programs, Main
    <2> QED
      BY <1>1, <1>3, <2>1 DEF ExecAllDone, Finish
  <1>4. CASE TimeSlice \/ Dispatch
    BY <1>1, <1>4 DEF TimeSlice, Dispatch
  <1>5. ASSUME NEW p \in Programs, Begin(p) \/ Begun(p)
        PROVE  UNCHANGED space
    <2>1. \A q \in Programs : at'[q] = at[q] \/ (at'[q] \in {"begin", "load"} /\ at[q] \in {"new", "begin"})
      BY <1>0, <1>5 DEF Begin, Begun, TypeOK
    <2> QED
      BY <1>1, <1>5, <2>1 DEF Begin, Begun, Loaded
  <1>6. ASSUME NEW p \in Programs, LoadNoFile(p) \/ Exit(p)
        PROVE  UNCHANGED space
    <2>1. at[p] = "user" \/ pageTable[p] = <<>>
      <3>1. CASE image[p] = 0
        <4>1. Len(pageTable[p]) <= 0 /\ pageTable[p] \in Seq(Frames)
          BY <1>0, <3>1 DEF LoaderInv, TypeOK
        <4> QED
          BY <4>1
      <3> QED
        BY <1>6, <3>1 DEF LoadNoFile, Exit, InUserCode
    <2>2. \A q \in Programs : at'[q] = at[q] \/ (q = p /\ at'[q] = "finished")
      BY <1>0, <1>6 DEF LoadNoFile, Exit, Finish, TypeOK
    <2> QED
      BY <1>1, <1>6, <2>1, <2>2 DEF LoadNoFile, Exit, Finish
  <1>7. ASSUME NEW p \in Programs, LoadPage(p)
        PROVE  UNCHANGED space
    <2>1. PICK f \in Frames :
              /\ Find_Frame(f)
              /\ pageTable' = [pageTable EXCEPT ![p] = Append(@, f)]
              /\ memory' = [memory EXCEPT ![f] = Zeros]
      BY <1>7 DEF LoadPage
    <2>2. UNCHANGED at /\ ~Loaded(p)
      BY <1>7 DEF LoadPage, Loading, Loaded
    <2>3. \A q \in Programs \ {p} : pageTable'[q] = pageTable[q]
      BY <1>0, <2>1 DEF TypeOK
    <2>4. \A q \in Programs : \A j \in Numbers(pageTable[q]) :
              memory'[pageTable[q][j]] = memory[pageTable[q][j]]
      BY <1>0, <2>1, TableFacts DEF Find_Frame, Free, TypeOK
    <2>5. ASSUME NEW q \in Programs
          PROVE  space'[q] = space[q]
      <3>1. CASE Loaded(q)
        BY <2>2, <2>3, <2>4, <3>1 DEF space, Loaded, Numbers
      <3>2. CASE ~Loaded(q)
        BY <2>2, <3>2 DEF space, Loaded
      <3> QED
        BY <3>1, <3>2
    <2> QED
      BY <2>5 DEF space
  <1>8. ASSUME NEW p \in Programs, LoadSegments(p)
        PROVE  Private!Load(p)
    BY <1>8, LoadStep
  <1>9. ASSUME NEW p \in Programs, Store(p)
        PROVE  \E i \in DOMAIN space[p] : Private!Store(p, i)
    <2>1. machineTable = p /\ at[p] = "user"
      BY <1>0, <1>9 DEF Store, InUserCode, Running, ThreadInv, IInv, MachineTableInv
    <2>2. PICK i \in Numbers(pageTable[p]) : Write(pageTable[p][i], p)
      BY <1>9, <2>1 DEF Store
    <2> Loaded(p)
      BY <2>1 DEF Loaded
    <2>3. i \in DOMAIN space[p] /\ space' = [space EXCEPT ![p][i] = p]
      BY <2>2, WriteStep, Zenon
    <2> QED
      BY <2>3 DEF Private!Store
  <1>10. ASSUME NEW p \in Programs, NEW k \in Numbers(pageTable[p]), ReadFile(p, k)
         PROVE  [Private!Next]_space
    <2> DEFINE f == BufferFrame(p, k)
    <2>1. Write(f, FileData)
      BY <1>10 DEF ReadFile
    <2>2. CASE \E q \in Programs : Loaded(q) /\ \E i \in Numbers(pageTable[q]) : pageTable[q][i] = f
      <3>1. PICK q \in Programs : Loaded(q) /\ \E i \in Numbers(pageTable[q]) : pageTable[q][i] = f
        BY <2>2
      <3>2. PICK i \in Numbers(pageTable[q]) : pageTable[q][i] = f
        BY <3>1
      <3>3. i \in DOMAIN space[q] /\ space' = [space EXCEPT ![q][i] = FileData]
        <4>1. Loaded(q) /\ Write(pageTable[q][i], FileData)
          BY <2>1, <3>1, <3>2
        <4> QED
          BY <4>1, WriteStep, Zenon
      <3> QED
        BY <3>3 DEF Private!Next, Private!Read
    <2>3. CASE \A q \in Programs : Loaded(q) => \A i \in Numbers(pageTable[q]) : pageTable[q][i] # f
      <3>1. \A q \in Programs : Loaded(q) =>
                \A j \in Numbers(pageTable[q]) : memory'[pageTable[q][j]] = memory[pageTable[q][j]]
        BY <1>0, <2>1, <2>3, TableFacts DEF Write, TypeOK
      <3>2. UNCHANGED <<at, pageTable>>
        BY <2>1 DEF Write
      <3> QED
        BY <3>1, <3>2, SameSpace DEF Loaded
    <2> QED
      BY <2>2, <2>3
  <1>11. ASSUME NEW p \in Programs,
                LoadTooBig(p) \/ PrintInt(p) \/ Halt(p) \/ UserError(p) \/ ConsoleDone(p)
         PROVE  UNCHANGED space
    BY <1>1, <1>11 DEF LoadTooBig, Abort, PrintInt, Halt, UserError, ConsoleDone
  <1>12. CASE UNCHANGED vars
    BY <1>1, <1>12 DEF vars
  <1> QED
    BY <1>2, <1>3, <1>4, <1>5, <1>6, <1>7, <1>8, <1>9, <1>10, <1>11, <1>12
    DEF Next, InKernel, InProgram, Private!Next

(* Each program's memory starts with what its file says and is changed by  *)
(* its own stores, and by the system call Read, only.                      *)
THEOREM MemoriesArePrivate == Spec => ImplementsPrivateMemory
  <1>1. Init => Private!Init
    <2> SUFFICES ASSUME Init PROVE space = [p \in Programs |-> <<>>]
      BY DEF Private!Init
    <2>1. \A p \in Programs : ~Loaded(p)
      BY DEF Init, Loaded, Programs, Threads, Main
    <2> QED
      BY <2>1 DEF space
  <1> QED
    BY <1>1, PrivateStep, Inductive, PTL DEF Spec, ImplementsPrivateMemory
=============================================================================
