-------------------------- MODULE PostOfficeProofs --------------------------
(***************************************************************************)
(* What the devices and the post office guarantee for any number of        *)
(* threads, boxes and letters and any times.                               *)
(***************************************************************************)
EXTENDS PostOffice, TLAPS

-----------------------------------------------------------------------------
(* The pending list.                                                       *)
Interrupts == [what : Devices, when : Int]
PendingOK(list) == list \in Seq(Interrupts) /\ Distinct(list) /\ Sorted(list)

LEMMA ConcatFacts ==
    ASSUME NEW S, NEW s \in Seq(S), NEW t \in Seq(S)
    PROVE  /\ s \o t \in Seq(S)
           /\ Len(s) \in Nat /\ Len(t) \in Nat
           /\ Len(s \o t) = Len(s) + Len(t)
           /\ \A i \in 1 .. Len(s) : (s \o t)[i] = s[i]
           /\ \A i \in 1 .. Len(t) : (s \o t)[Len(s) + i] = t[i]
  OBVIOUS

(* An insertion leaves the list sorted and adds the device.                *)
LEMMA ScheduledFacts ==
    ASSUME NEW list, PendingOK(list), NEW d \in Devices, d \notin On(list),
           NEW fromNow \in Int, Scheduled(list, d, fromNow)
    PROVE  PendingOK(pending') /\ On(pending') = On(list) \cup {d}
  <1>0. PICK len, new, e :
            len = Len(list) /\ new = pending' /\ e = [what |-> d, when |-> fromNow]
    OBVIOUS
  <1>1. list \in Seq(Interrupts) /\ len \in Nat /\ e \in Interrupts
    BY <1>0 DEF PendingOK, Interrupts
  <1>2. PICK n \in 0 .. len :
            /\ \A i \in 1 .. n : list[i].when <= fromNow
            /\ \A i \in n + 1 .. len : list[i].when > fromNow
            /\ new = SubSeq(list, 1, n) \o <<e>> \o SubSeq(list, n + 1, len)
    BY <1>0 DEF Scheduled
  <1>14. n \in Nat /\ len \in Nat /\ n <= len
    BY <1>1
  <1>15. /\ \A i \in 1 .. n : list[i].when <= fromNow
         /\ \A i \in n + 1 .. len : list[i].when > fromNow
    BY <1>2
  <1> DEFINE before == SubSeq(list, 1, n)
             after == SubSeq(list, n + 1, len)
             middle == <<e>>
             front == before \o middle
  <1>3. /\ before \in Seq(Interrupts) /\ Len(before) = n
        /\ \A k \in 1 .. n : before[k] = list[k]
    BY <1>0, <1>1, <1>2
  <1>4. /\ after \in Seq(Interrupts) /\ Len(after) = len - n
        /\ \A k \in 1 .. len - n : after[k] = list[n + k]
    BY <1>0, <1>1, <1>2
  <1>5. middle \in Seq(Interrupts) /\ Len(middle) = 1 /\ middle[1] = e
    BY <1>1
  <1>6. new = front \o after
    BY <1>2
  <1> HIDE DEF before, after, middle
  <1>7. /\ front \in Seq(Interrupts) /\ Len(front) = n + 1
        /\ \A k \in 1 .. n : front[k] = list[k]
        /\ front[n + 1] = e
    <2>1. /\ front \in Seq(Interrupts) /\ Len(front) = Len(before) + Len(middle)
          /\ \A k \in 1 .. Len(before) : front[k] = before[k]
          /\ \A k \in 1 .. Len(middle) : front[Len(before) + k] = middle[k]
      <3>1. before \in Seq(Interrupts) /\ middle \in Seq(Interrupts)
        BY <1>3, <1>5
      <3> QED
        BY <3>1, ConcatFacts
    <2> QED
      BY <1>14, <1>3, <1>5, <2>1
  <1> HIDE DEF front
  <1>8. /\ new \in Seq(Interrupts) /\ Len(new) = len + 1
        /\ \A k \in 1 .. n : new[k] = list[k]
        /\ new[n + 1] = e
        /\ \A k \in 1 .. len - n : new[n + 1 + k] = list[n + k]
    BY <1>14, <1>4, <1>6, <1>7, ConcatFacts
  <1>9. \A k \in 1 .. len + 1 :
            \/ k \in 1 .. n /\ new[k] = list[k]
            \/ k = n + 1 /\ new[k] = e
            \/ k - 1 \in n + 1 .. len /\ new[k] = list[k - 1]
    <2> SUFFICES ASSUME NEW k \in 1 .. len + 1, k \notin 1 .. n, k # n + 1
                 PROVE  k - 1 \in n + 1 .. len /\ new[k] = list[k - 1]
      BY <1>8
    <2>1. k - 1 \in n + 1 .. len /\ k - (n + 1) \in 1 .. len - n
          /\ (n + 1) + (k - (n + 1)) = k /\ n + (k - (n + 1)) = k - 1
      BY <1>14
    <2>2. new[n + 1 + (k - (n + 1))] = list[n + (k - (n + 1))]
      BY <1>8, <2>1
    <2> QED
      BY <2>1, <2>2
  <1>10. e.what = d /\ e.when = fromNow
    BY <1>0
  <1>11. Distinct(new)
    <2>1. \A i \in 1 .. len : list[i].what # d
      BY <1>0 DEF On
    <2>2. \A i, j \in 1 .. len : list[i].what = list[j].what => i = j
      BY <1>0 DEF PendingOK, Distinct
    <2> SUFFICES ASSUME NEW i \in 1 .. len + 1, NEW j \in 1 .. len + 1,
                        new[i].what = new[j].what
                 PROVE  i = j
      BY <1>8 DEF Distinct
    <2>3. CASE i = n + 1
      BY <1>14, <1>8, <1>9, <1>10, <2>1, <2>3
    <2>4. CASE j = n + 1
      BY <1>14, <1>8, <1>9, <1>10, <2>1, <2>4
    <2>5. CASE i # n + 1 /\ j # n + 1
      BY <1>14, <1>9, <2>2, <2>5
    <2> QED
      BY <2>3, <2>4, <2>5
  <1>12. Sorted(new)
    <2>1. \A i, j \in 1 .. len : i <= j => list[i].when <= list[j].when
      BY <1>0 DEF PendingOK, Sorted
    <2>2. \A i \in 1 .. len : list[i] \in Interrupts
      BY <1>0, <1>1
    <2>6. \A i \in 1 .. len : list[i].when \in Int
      BY <2>2 DEF Interrupts
    <2> SUFFICES ASSUME NEW i \in 1 .. len + 1, NEW j \in 1 .. len + 1, i <= j
                 PROVE  new[i].when <= new[j].when
      BY <1>8 DEF Sorted
    <2>3. CASE i = n + 1
      <3>1. CASE j = n + 1
        BY <1>10, <1>8, <2>3, <3>1
      <3>2. CASE j # n + 1
        <4>1. j - 1 \in n + 1 .. len /\ new[j] = list[j - 1]
          BY <1>14, <1>9, <2>3, <3>2
        <4>2. list[j - 1].when \in Int
          BY <1>14, <2>6, <4>1
        <4> QED
          BY <1>8, <1>10, <1>15, <2>3, <4>1, <4>2
      <3> QED
        BY <3>1, <3>2
    <2>4. CASE i # n + 1 /\ j = n + 1
      <3>1. i \in 1 .. n /\ new[i] = list[i]
        BY <1>14, <1>9, <2>4
      <3> QED
        BY <1>8, <1>10, <1>15, <2>4, <3>1
    <2>5. CASE i # n + 1 /\ j # n + 1
      BY <1>14, <1>9, <2>1, <2>5
    <2> QED
      BY <2>3, <2>4, <2>5
  <1>13. On(new) = On(list) \cup {d}
    <2>1. \A i \in 1 .. len : \E k \in 1 .. len + 1 : new[k] = list[i]
      <3> SUFFICES ASSUME NEW i \in 1 .. len
                   PROVE  \E k \in 1 .. len + 1 : new[k] = list[i]
        OBVIOUS
      <3>1. CASE i <= n
        BY <1>14, <1>8, <3>1
      <3>2. CASE i > n
        <4>1. i - n \in 1 .. len - n /\ n + (i - n) = i /\ n + 1 + (i - n) \in 1 .. len + 1
          BY <1>14, <3>2
        <4> QED
          BY <1>14, <1>8, <4>1
      <3> QED
        BY <1>14, <3>1, <3>2
    <2>2. n + 1 \in 1 .. len + 1 /\ Len(new) = len + 1 /\ new[n + 1].what = d
      BY <1>14, <1>8, <1>10
    <2>3. On(list) \cup {d} \subseteq On(new)
      BY <1>0, <2>1, <2>2 DEF On
    <2>4. \A k \in 1 .. len + 1 : new[k].what \in On(list) \cup {d}
      BY <1>14, <1>9, <1>10, <1>0 DEF On
    <2>5. On(new) \subseteq On(list) \cup {d}
      BY <1>8, <2>4 DEF On
    <2> QED
      BY <2>3, <2>5
  <1> QED
    BY <1>0, <1>8, <1>11, <1>12, <1>13 DEF PendingOK

(* So does taking the first interrupt off.                                 *)
LEMMA TailFacts ==
    ASSUME NEW list, PendingOK(list), list # <<>>
    PROVE  /\ PendingOK(Tail(list))
           /\ Head(list).what \in On(list)
           /\ On(Tail(list)) = On(list) \ {Head(list).what}
  <1> DEFINE rest == Tail(list)
  <1>1. /\ list \in Seq(Interrupts) /\ Len(list) \in Nat \ {0}
        /\ Head(list) = list[1]
        /\ rest \in Seq(Interrupts) /\ Len(rest) = Len(list) - 1
        /\ \A i \in 1 .. Len(rest) : rest[i] = list[i + 1]
    BY DEF PendingOK
  <1> HIDE DEF rest
  <1>2. Distinct(rest)
    BY <1>1 DEF PendingOK, Distinct
  <1>6. Sorted(rest)
    <2>1. \A i, j \in 1 .. Len(list) : i <= j => list[i].when <= list[j].when
      BY DEF PendingOK, Sorted
    <2> SUFFICES ASSUME NEW i \in 1 .. Len(rest), NEW j \in 1 .. Len(rest), i <= j
                 PROVE  rest[i].when <= rest[j].when
      BY DEF Sorted
    <2>2. i + 1 \in 1 .. Len(list) /\ j + 1 \in 1 .. Len(list) /\ i + 1 <= j + 1
      BY <1>1
    <2> QED
      BY <1>1, <2>1, <2>2
  <1>3. Head(list).what \in On(list)
    BY <1>1 DEF On
  <1>4. On(rest) \subseteq On(list) \ {Head(list).what}
    BY <1>1 DEF On, PendingOK, Distinct
  <1>5. On(list) \ {Head(list).what} \subseteq On(rest)
    <2> SUFFICES ASSUME NEW i \in 1 .. Len(list), list[i].what # list[1].what
                 PROVE  list[i].what \in On(rest)
      BY <1>1 DEF On
    <2>1. i # 1 /\ i - 1 \in 1 .. Len(rest) /\ (i - 1) + 1 = i
      BY <1>1
    <2> QED
      BY <1>1, <2>1 DEF On
  <1> QED
    BY <1>1, <1>2, <1>3, <1>4, <1>5, <1>6 DEF PendingOK, rest

(* Time passes for all alike.                                              *)
LEMMA MovedFacts ==
    ASSUME NEW list, PendingOK(list), NEW ticks \in Int
    PROVE  PendingOK(Moved(list, ticks)) /\ On(Moved(list, ticks)) = On(list)
  <1> DEFINE moved == Moved(list, ticks)
  <1>1. list \in Seq(Interrupts) /\ Len(list) \in Nat
    BY DEF PendingOK
  <1>8. \A i \in 1 .. Len(list) : list[i] \in Interrupts
    BY <1>1
  <1>2. \A i \in 1 .. Len(list) : list[i].what \in Devices /\ list[i].when \in Int
    BY <1>8 DEF Interrupts
  <1>3. moved \in Seq(Interrupts) /\ Len(moved) = Len(list)
    BY <1>1, <1>2 DEF Moved, Interrupts
  <1>4. \A i \in 1 .. Len(list) :
            moved[i].what = list[i].what /\ moved[i].when = list[i].when - ticks
    BY <1>1, <1>2 DEF Moved
  <1> HIDE DEF moved
  <1>5. Distinct(moved)
    BY <1>3, <1>4 DEF PendingOK, Distinct
  <1>6. Sorted(moved)
    <2>1. \A i, j \in 1 .. Len(list) : i <= j => list[i].when <= list[j].when
      BY DEF PendingOK, Sorted
    <2> QED
      BY <1>2, <1>3, <1>4, <2>1 DEF Sorted
  <1>7. On(moved) = On(list)
    BY <1>3, <1>4 DEF On
  <1> QED
    BY <1>3, <1>5, <1>6, <1>7 DEF PendingOK, moved

-----------------------------------------------------------------------------
(* The invariant holds at the start.                                       *)
LEMMA Names ==
    /\ Disk # Display /\ Disk # Network /\ Disk # Keyboard /\ Disk # Arrivals
    /\ Display # Network /\ Display # Keyboard /\ Display # Arrivals
    /\ Network # Keyboard /\ Network # Arrivals /\ Keyboard # Arrivals
    /\ \A d \in Shared : d # None /\ d \in Devices
    /\ Keyboard \in Shared /\ Keyboard \notin OutDevices
    /\ Arrivals \in Devices /\ Arrivals \notin Shared
    /\ OutDevices = {Disk, Display, Network} /\ OutDevices \subseteq Shared
    /\ \A d \in Shared : d = Keyboard \/ d \in OutDevices
  BY DEF Disk, Display, Network, Keyboard, Arrivals, None, OutDevices, Shared, Devices

LEMMA InitPending ==
    ASSUME Init
    PROVE  PendingOK(pending) /\ On(pending) = {Keyboard, Arrivals}
  <1> DEFINE k == [what |-> Keyboard, when |-> ConsoleTime]
             a == [what |-> Arrivals, when |-> NetworkTime]
  <1>1. pending = <<k, a>>
    BY DEF Init, DevicesInit
  <1>2. k \in Interrupts /\ a \in Interrupts
    BY DevicesAssumption, Names DEF Interrupts
  <1>3. k.what # a.what /\ k.when <= a.when /\ k.when \in Int /\ a.when \in Int
        /\ k.what = Keyboard /\ a.what = Arrivals
    BY DevicesAssumption, Names
  <1> HIDE DEF k, a
  <1>4. pending \in Seq(Interrupts) /\ Len(pending) = 2 /\ pending[1] = k /\ pending[2] = a
    BY <1>1, <1>2
  <1>5. Distinct(pending) /\ Sorted(pending)
    BY <1>3, <1>4 DEF Distinct, Sorted
  <1>6. On(pending) = {Keyboard, Arrivals}
    BY <1>3, <1>4 DEF On
  <1> QED
    BY <1>4, <1>5, <1>6 DEF PendingOK

LEMMA InitIInv == Init => IInv
  <1> SUFFICES ASSUME Init PROVE IInv
    OBVIOUS
  <1>1. TypeOK
    BY InitPending, DevicesAssumption, Names
    DEF Init, DevicesInit, TypeOK, DevicesTypeOK, PendingOK, Interrupts, Complete, Positions, Packet
  <1>2. CallInv /\ LockInv /\ PrintInv
    BY DevicesAssumption, Names DEF Init, DevicesInit, CallInv, LockInv, PrintInv, Uses
  <1>3. RequestInv /\ KeyboardInv /\ InboxInv
    BY InitPending, Names
    DEF Init, DevicesInit, RequestInv, KeyboardInv, InboxInv, Awaited, Outstanding, Reading,
        PendingOK, EOF, Key
  <1>4. Sorted(pending)
    BY InitPending DEF PendingOK
  <1> QED
    BY <1>1, <1>2, <1>3, <1>4 DEF IInv, DeviceIInv, TypeOK

-----------------------------------------------------------------------------
(* Every step keeps it.                                                    *)
LEMMA PendingType == TypeOK /\ RequestInv /\ Sorted(pending) => PendingOK(pending)
  BY DEF TypeOK, DevicesTypeOK, RequestInv, PendingOK, Interrupts

LEMMA CallStep ==
    ASSUME IInv, NEW t \in Threads, NEW d \in Shared, Call(t, d), UNCHANGED mailVars
    PROVE  IInv'
  <1> USE DEF Call, Goto, mailVars
  <1>1. TypeOK'
    BY Names DEF IInv, TypeOK, DevicesTypeOK, Positions
  <1>2. CallInv'
    BY Names, DevicesAssumption DEF IInv, DeviceIInv, DevicesTypeOK, CallInv
  <1>3. \A x \in Threads : /\ at[x] \in {"request", "await", "release"} => x # t
                           /\ at'[x] \in {"request", "await", "release"} => x # t
                           /\ x # t => at'[x] = at[x] /\ dev'[x] = dev[x] /\ left'[x] = left[x]
    BY DEF IInv, DeviceIInv, DevicesTypeOK
  <1>4. LockInv'
    BY <1>3 DEF IInv, DeviceIInv, LockInv, Uses
  <1>5. RequestInv' /\ KeyboardInv'
    <2>1. \A e : Awaited(e)' = Awaited(e)
      BY <1>3 DEF Awaited
    <2>2. Reading' = Reading
      BY <1>3 DEF Reading
    <2> QED
      BY <2>1, <2>2 DEF IInv, DeviceIInv, RequestInv, KeyboardInv, Outstanding, On, Distinct
  <1>6. PrintInv'
    BY <1>3 DEF IInv, DeviceIInv, PrintInv
  <1>7. InboxInv' /\ Sorted(pending)'
    BY DEF IInv, DeviceIInv, InboxInv, Sorted, Outstanding, On
  <1> QED
    BY <1>1, <1>2, <1>4, <1>5, <1>6, <1>7 DEF IInv, DeviceIInv, TypeOK

LEMMA AcquireStep ==
    ASSUME IInv, NEW t \in Threads, Acquire(t), UNCHANGED mailVars
    PROVE  IInv'
  <1> USE DEF Acquire, Goto, mailVars
  <1> DEFINE d == dev[t]
  <1>0. d \in Shared /\ d # None
    BY Names DEF IInv, DeviceIInv, DevicesTypeOK, CallInv
  <1>1. TypeOK'
    BY Names, <1>0 DEF IInv, TypeOK, DevicesTypeOK, Positions
  <1>2. CallInv'
    BY Names, <1>0 DEF IInv, DeviceIInv, DevicesTypeOK, CallInv
  <1>3. /\ dev' = dev /\ left' = left
        /\ at[t] = "acquire" /\ at'[t] = IF d = Keyboard THEN "await" ELSE "request"
        /\ \A x \in Threads : x # t => at'[x] = at[x]
    BY DEF IInv, DeviceIInv, DevicesTypeOK
  <1>4. \A x \in Threads : x # t => ~Uses(x, d)
    BY <1>0, DevicesAssumption DEF IInv, DeviceIInv, LockInv
  <1>5. LockInv'
    BY <1>0, <1>3, <1>4, DevicesAssumption DEF IInv, DeviceIInv, DevicesTypeOK, LockInv, Uses
  <1>6. RequestInv' /\ KeyboardInv'
    <2>1. \A e \in OutDevices : Awaited(e)' = Awaited(e)
      BY <1>3, Names DEF Awaited
    <2>2. Reading' = Reading
      BY <1>3 DEF Reading
    <2> QED
      BY <2>1, <2>2 DEF IInv, DeviceIInv, RequestInv, KeyboardInv, Outstanding, On, Distinct
  <1>7. PrintInv'
    BY <1>0, <1>3, Names DEF IInv, DeviceIInv, DevicesTypeOK, PrintInv
  <1>8. InboxInv' /\ Sorted(pending)'
    BY DEF IInv, DeviceIInv, InboxInv, Sorted, Outstanding, On
  <1> QED
    BY <1>1, <1>2, <1>5, <1>6, <1>7, <1>8 DEF IInv, DeviceIInv, TypeOK

(* A device is given a request.                                            *)
LEMMA OneUser ==
    ASSUME LockInv, NEW t \in Threads, NEW x \in Threads, NEW d \in Shared,
           Uses(t, d), Uses(x, d)
    PROVE  x = t
  BY DEF LockInv

LEMMA StartStep ==
    ASSUME IInv, NEW t \in Threads, NEW d \in OutDevices, NEW delay \in Int,
           Start(t, d, delay), UNCHANGED <<incoming, lock, value, dev>>
    PROVE  /\ PendingOK(pending') /\ On(pending') = On(pending) \cup {d}
           /\ ~Outstanding(d)
           /\ at[t] = "request" /\ dev[t] = d /\ lock[d] = t
           /\ \A x \in Threads : Uses(x, d) => x = t
           /\ left[t] \in Nat \ {0} /\ left' = [left EXCEPT ![t] = left[t] - 1]
           /\ at' = [at EXCEPT ![t] = "await"]
           /\ CallInv' /\ LockInv' /\ KeyboardInv'
           /\ \A e \in OutDevices :
                  /\ value'[e] = (IF Awaited(e)' /\ e \notin On(pending') THEN 1 ELSE 0)
                  /\ e \in On(pending') => Awaited(e)'
  <1> USE DEF Start, Goto
  <1>1. d \in Shared /\ d \in Devices /\ d # Keyboard /\ d # None
    BY Names
  <1>2. at[t] = "request" /\ dev[t] = d
    OBVIOUS
  <1>3. lock[d] = t /\ \A x \in Threads : Uses(x, d) => x = t
    BY <1>1, <1>2, OneUser DEF IInv, DeviceIInv, LockInv, Uses
  <1>4. left[t] \in Nat \ {0} /\ left' = [left EXCEPT ![t] = left[t] - 1]
    BY <1>2 DEF IInv, DeviceIInv, DevicesTypeOK, CallInv
  <1>5. /\ at' = [at EXCEPT ![t] = "await"] /\ at'[t] = "await"
        /\ \A x \in Threads : x # t => at'[x] = at[x] /\ left'[x] = left[x]
    BY DEF IInv, DeviceIInv, DevicesTypeOK
  <1>6. ~Awaited(d) /\ Awaited(d)'
    BY <1>2, <1>3, <1>5 DEF Awaited, Uses
  <1>7. \A e \in OutDevices : e # d => Awaited(e)' = Awaited(e)
    BY <1>2, <1>5 DEF Awaited
  <1>8. ~Outstanding(d)
    BY <1>6 DEF IInv, DeviceIInv, RequestInv
  <1>9. PendingOK(pending') /\ On(pending') = On(pending) \cup {d}
    BY <1>1, <1>8, PendingType, ScheduledFacts DEF IInv, DeviceIInv, Outstanding
  <1>10. CallInv' /\ LockInv'
    BY <1>1, <1>2, <1>4, <1>5 DEF IInv, DeviceIInv, DevicesTypeOK, CallInv, LockInv, Uses
  <1>11. KeyboardInv'
    <2>1. Reading' = Reading
      BY <1>1, <1>2, <1>5 DEF Reading
    <2>2. Outstanding(Keyboard)' = Outstanding(Keyboard)
      <3>1. Keyboard \in On(pending') <=> Keyboard \in On(pending)
        BY <1>1, <1>9
      <3> QED
        BY <3>1 DEF Outstanding
    <2> QED
      BY <2>1, <2>2 DEF IInv, DeviceIInv, KeyboardInv
  <1>12. \A e \in OutDevices :
            /\ value'[e] = (IF Awaited(e)' /\ e \notin On(pending') THEN 1 ELSE 0)
            /\ e \in On(pending') => Awaited(e)'
    BY <1>6, <1>7, <1>8, <1>9 DEF IInv, DeviceIInv, RequestInv, Outstanding
  <1> QED
    BY <1>2, <1>3, <1>4, <1>5, <1>8, <1>9, <1>10, <1>11, <1>12

LEMMA DiskStep ==
    ASSUME IInv, NEW t \in Threads, DiskRequest(t), UNCHANGED mailVars
    PROVE  IInv'
  <1> USE DEF mailVars
  <1>1. PICK latency \in Latencies : Start(t, Disk, latency)
    BY DEF DiskRequest
  <1>2. /\ busy' = [busy EXCEPT ![Disk] = TRUE]
        /\ UNCHANGED <<incoming, display, lock, value, dev>>
    BY DEF DiskRequest
  <1>3. Disk \in OutDevices /\ latency \in Int
    BY DevicesAssumption, Names
  <1>4. /\ PendingOK(pending') /\ On(pending') = On(pending) \cup {Disk}
        /\ at[t] = "request" /\ dev[t] = Disk /\ lock[Disk] = t
        /\ left[t] \in Nat \ {0} /\ left' = [left EXCEPT ![t] = left[t] - 1]
        /\ at' = [at EXCEPT ![t] = "await"]
        /\ CallInv' /\ LockInv' /\ KeyboardInv'
        /\ \A e \in OutDevices :
               /\ value'[e] = (IF Awaited(e)' /\ e \notin On(pending') THEN 1 ELSE 0)
               /\ e \in On(pending') => Awaited(e)'
    BY <1>1, <1>2, <1>3, StartStep
  <1>5. TypeOK'
    BY <1>2, <1>4 DEF IInv, TypeOK, DevicesTypeOK, PendingOK, Interrupts, Positions
  <1>6. RequestInv'
    <2>1. \A e \in OutDevices : e # Network => (busy'[e] <=> e \in On(pending'))
      BY <1>2, <1>4, Names DEF IInv, TypeOK, DevicesTypeOK, DeviceIInv, RequestInv, Outstanding
    <2> QED
      BY <1>4, <2>1 DEF RequestInv, Outstanding, PendingOK
  <1>7. PrintInv'
    BY <1>2, <1>4, Names DEF IInv, DeviceIInv, DevicesTypeOK, PrintInv
  <1>8. InboxInv' /\ Sorted(pending)'
    BY <1>2, <1>4 DEF IInv, DeviceIInv, InboxInv, Outstanding, PendingOK
  <1> QED
    BY <1>4, <1>5, <1>6, <1>7, <1>8 DEF IInv, DeviceIInv, TypeOK

LEMMA SendStep ==
    ASSUME IInv, NEW t \in Threads, Send(t)
    PROVE  IInv'
  <1>1. /\ Start(t, Network, NetworkTime)
        /\ UNCHANGED <<busy, incoming, display, lock, value, dev, inbox, worker, carried, boxes>>
        /\ socket' = socket \/ \E p \in Packets : socket' = Append(socket, p)
    BY DEF Send
  <1>3. Network \in OutDevices /\ NetworkTime \in Int
    BY DevicesAssumption, Names
  <1>4. /\ PendingOK(pending') /\ On(pending') = On(pending) \cup {Network}
        /\ at[t] = "request" /\ dev[t] = Network /\ lock[Network] = t
        /\ left[t] \in Nat \ {0} /\ left' = [left EXCEPT ![t] = left[t] - 1]
        /\ at' = [at EXCEPT ![t] = "await"]
        /\ CallInv' /\ LockInv' /\ KeyboardInv'
        /\ \A e \in OutDevices :
               /\ value'[e] = (IF Awaited(e)' /\ e \notin On(pending') THEN 1 ELSE 0)
               /\ e \in On(pending') => Awaited(e)'
    BY <1>1, <1>3, StartStep
  <1>2. socket' \in Seq(Packet)
    <2>1. \A p \in Packets : p \in Packet
      BY DEF Packets, Packet
    <2>2. \A p \in Packet : Append(socket, p) \in Seq(Packet)
      BY DEF IInv, TypeOK
    <2> QED
      BY <1>1, <2>1, <2>2 DEF IInv, TypeOK
  <1>5. TypeOK'
    BY <1>1, <1>2, <1>4 DEF IInv, TypeOK, DevicesTypeOK, PendingOK, Interrupts, Positions
  <1>6. RequestInv'
    <2>1. \A e \in OutDevices : e # Network => (busy'[e] <=> e \in On(pending'))
      BY <1>1, <1>4, Names DEF IInv, TypeOK, DevicesTypeOK, DeviceIInv, RequestInv, Outstanding
    <2> QED
      BY <1>4, <2>1 DEF RequestInv, Outstanding, PendingOK
  <1>7. PrintInv'
    BY <1>1, <1>4, Names DEF IInv, DeviceIInv, DevicesTypeOK, PrintInv
  <1>8. InboxInv' /\ Sorted(pending)'
    BY <1>1, <1>4 DEF IInv, DeviceIInv, InboxInv, Outstanding, PendingOK
  <1> QED
    BY <1>4, <1>5, <1>6, <1>7, <1>8 DEF IInv, DeviceIInv, TypeOK

(* The only device whose requests are told apart: the display.             *)
LEMMA PutCharStep ==
    ASSUME IInv, NEW t \in Threads, PutChar(t), UNCHANGED mailVars
    PROVE  IInv'
  <1> USE DEF mailVars
  <1>1. Start(t, Display, ConsoleTime)
    BY DEF PutChar
  <1>2. /\ busy' = [busy EXCEPT ![Display] = TRUE]
        /\ display' = IF left[t] = 1 THEN Complete ELSE [by |-> t, left |-> left[t] - 1]
        /\ UNCHANGED <<incoming, lock, value, dev>>
    BY DEF PutChar
  <1>3. Display \in OutDevices /\ ConsoleTime \in Int
    BY DevicesAssumption, Names
  <1>4. /\ PendingOK(pending') /\ On(pending') = On(pending) \cup {Display}
        /\ at[t] = "request" /\ dev[t] = Display /\ lock[Display] = t
        /\ \A x \in Threads : Uses(x, Display) => x = t
        /\ left[t] \in Nat \ {0} /\ left' = [left EXCEPT ![t] = left[t] - 1]
        /\ at' = [at EXCEPT ![t] = "await"]
        /\ CallInv' /\ LockInv' /\ KeyboardInv'
        /\ \A e \in OutDevices :
               /\ value'[e] = (IF Awaited(e)' /\ e \notin On(pending') THEN 1 ELSE 0)
               /\ e \in On(pending') => Awaited(e)'
    BY <1>1, <1>2, <1>3, StartStep
  <1>9. display' \in [by : Threads \cup {Nobody}, left : Nat]
    BY <1>2, <1>4 DEF Complete
  <1>5. TypeOK'
    BY <1>2, <1>4, <1>9 DEF IInv, TypeOK, DevicesTypeOK, PendingOK, Interrupts, Positions
  <1>6. RequestInv'
    <2>1. \A e \in OutDevices : e # Network => (busy'[e] <=> e \in On(pending'))
      BY <1>2, <1>4, Names DEF IInv, TypeOK, DevicesTypeOK, DeviceIInv, RequestInv, Outstanding
    <2> QED
      BY <1>4, <2>1 DEF RequestInv, Outstanding, PendingOK
  <1>7. PrintInv'
    <2>1. lock'[Display] # Nobody
      BY <1>2, <1>4, DevicesAssumption
    <2>2. at'[t] = "await" /\ left'[t] = left[t] - 1
      BY <1>4 DEF IInv, TypeOK, DevicesTypeOK
    <2>3. display' = IF left'[t] = 0 THEN Complete ELSE [by |-> t, left |-> left'[t]]
      BY <1>2, <1>4, <2>2
    <2>4. \A x \in Threads : x # t /\ dev'[x] = Display => at'[x] \notin {"request", "await", "release"}
      BY <1>2, <1>4 DEF Uses, IInv, TypeOK, DevicesTypeOK
    <2> QED
      BY <2>1, <2>2, <2>3, <2>4 DEF PrintInv
  <1>8. InboxInv' /\ Sorted(pending)'
    BY <1>2, <1>4 DEF IInv, DeviceIInv, InboxInv, Outstanding, PendingOK
  <1> QED
    BY <1>4, <1>5, <1>6, <1>7, <1>8 DEF IInv, DeviceIInv, TypeOK

LEMMA PStep ==
    ASSUME IInv, NEW t \in Threads, P(t), UNCHANGED mailVars
    PROVE  IInv'
  <1> USE DEF P, Goto, mailVars
  <1> DEFINE d == dev[t]
  <1>0. d \in Shared /\ d # None
    BY Names DEF IInv, DeviceIInv, DevicesTypeOK, CallInv
  <1>1. /\ at[t] = "await" /\ value[d] \in Nat \ {0}
        /\ value' = [value EXCEPT ![d] = value[d] - 1]
        /\ at' = [at EXCEPT ![t] = AfterP(t)]
        /\ AfterP(t) \in {"request", "release"}
        /\ UNCHANGED <<pending, busy, incoming, display, lock, dev, left>>
    BY <1>0, Names DEF IInv, DeviceIInv, DevicesTypeOK, AfterP
  <1>11. d \in Devices /\ value \in [Devices -> Nat] /\ value' \in [Devices -> Nat]
    <2>1. d \in Devices /\ value \in [Devices -> Nat] /\ value[d] - 1 \in Nat
      <3>1. d \in Devices
        BY <1>0, Names
      <3>2. value \in [Devices -> Nat]
        BY DEF IInv, TypeOK, DevicesTypeOK
      <3>3. value[d] - 1 \in Nat
        BY <1>1
      <3> QED
        BY <3>1, <3>2, <3>3
    <2> QED
      BY <1>1, <2>1
  <1>2. TypeOK'
    BY <1>1, <1>11 DEF IInv, TypeOK, DevicesTypeOK, Positions
  <1>3. CallInv'
    BY <1>0, <1>1, Names DEF IInv, DeviceIInv, DevicesTypeOK, CallInv, AfterP
  <1>4. LockInv'
    BY <1>1 DEF IInv, DeviceIInv, DevicesTypeOK, LockInv, Uses
  <1>5. \A x \in Threads : Uses(x, d) => x = t
    BY <1>0, <1>1, OneUser DEF IInv, DeviceIInv, Uses
  <1>6. /\ Awaited(d) /\ ~Awaited(d)'
        /\ \A e \in Shared : e # d => Awaited(e)' = Awaited(e)
    BY <1>1, <1>5 DEF IInv, DeviceIInv, DevicesTypeOK, Awaited, Uses
  <1>7. RequestInv'
    <2>1. CASE d \in OutDevices
      <3>1. value[d] = 1 /\ ~Outstanding(d)
        BY <1>1, <1>6, <2>1 DEF IInv, DeviceIInv, RequestInv
      <3>2. value'[d] = 0 /\ \A e \in OutDevices : e # d => value'[e] = value[e]
        <4>1. \A e \in OutDevices : e \in Devices
          BY Names
        <4> HIDE DEF d
        <4> QED
          BY <1>1, <1>11, <3>1, <4>1
      <3> QED
        BY <1>1, <1>6, <2>1, <3>1, <3>2, Names
        DEF IInv, DeviceIInv, RequestInv, Outstanding, On, Distinct
    <2>2. CASE d = Keyboard
      <3>1. \A e \in OutDevices : e # d /\ value'[e] = value[e]
        BY <1>1, <2>2, Names DEF IInv, TypeOK, DevicesTypeOK
      <3> QED
        BY <1>1, <1>6, <3>1, Names DEF IInv, DeviceIInv, RequestInv, Outstanding, On, Distinct
    <2> QED
      BY <1>0, <2>1, <2>2, Names
  <1>8. KeyboardInv'
    <2>1. CASE d \in OutDevices
      <3>1. value'[Keyboard] = value[Keyboard]
        BY <1>1, <2>1, Names DEF IInv, TypeOK, DevicesTypeOK
      <3>2. Reading' = Reading
        BY <1>1, <2>1, Names DEF IInv, TypeOK, DevicesTypeOK, Reading
      <3> QED
        BY <1>1, <3>1, <3>2 DEF IInv, DeviceIInv, KeyboardInv, Outstanding, On
    <2>2. CASE d = Keyboard
      <3>1. value[Keyboard] = 1 /\ ~Outstanding(Keyboard)
        BY <1>1, <2>2 DEF IInv, DeviceIInv, KeyboardInv
      <3>2. value'[Keyboard] = 0
        BY <1>1, <2>2, <3>1, Names DEF IInv, TypeOK, DevicesTypeOK
      <3>3. left[t] = 0 /\ AfterP(t) = "release"
        BY <2>2 DEF IInv, DeviceIInv, CallInv, AfterP
      <3>4. Reading'
        BY <1>1, <2>2, <3>3 DEF IInv, TypeOK, DevicesTypeOK, Reading
      <3> QED
        BY <1>1, <3>1, <3>2, <3>4 DEF IInv, DeviceIInv, KeyboardInv, Outstanding, On
    <2> QED
      BY <1>0, <2>1, <2>2, Names
  <1>9. PrintInv'
    <2>1. CASE d # Display
      BY <1>1, <2>1 DEF IInv, DeviceIInv, DevicesTypeOK, PrintInv
    <2>2. CASE d = Display
      <3>1. \A x \in Threads : dev'[x] = Display /\ at'[x] \in {"request", "await", "release"} => x = t
        BY <1>1, <1>5, <2>2 DEF IInv, TypeOK, DevicesTypeOK, Uses
      <3>2. at'[t] = IF left[t] > 0 THEN "request" ELSE "release"
        BY <1>1 DEF IInv, TypeOK, DevicesTypeOK, AfterP
      <3>3. display = (IF left[t] = 0 THEN Complete ELSE [by |-> t, left |-> left[t]])
        BY <1>1, <2>2 DEF IInv, DeviceIInv, PrintInv
      <3>4. left[t] \in Nat
        BY DEF IInv, TypeOK, DevicesTypeOK
      <3>5. lock[Display] = Nobody => display = Complete
        BY DEF IInv, DeviceIInv, PrintInv
      <3> QED
        BY <1>1, <3>1, <3>2, <3>3, <3>4, <3>5 DEF PrintInv
    <2> QED
      BY <2>1, <2>2
  <1>10. InboxInv' /\ Sorted(pending)'
    <2>1. value'[Arrivals] = value[Arrivals]
      BY <1>0, <1>1, Names DEF IInv, TypeOK, DevicesTypeOK
    <2> QED
      BY <1>1, <2>1 DEF IInv, DeviceIInv, InboxInv, Sorted, Outstanding, On
  <1> QED
    BY <1>2, <1>3, <1>4, <1>7, <1>8, <1>9, <1>10 DEF IInv, DeviceIInv, TypeOK

LEMMA ReleasedFacts ==
    ASSUME IInv, NEW t \in Threads, NEW d \in Shared, dev[t] = d, Released(t)
    PROVE  /\ at[t] = "release" /\ lock[d] = t
           /\ at' = [at EXCEPT ![t] = "outside"]
           /\ dev' = [dev EXCEPT ![t] = None]
           /\ lock' = [lock EXCEPT ![d] = Nobody]
           /\ UNCHANGED <<busy, display, value, left>>
           /\ \A x \in Threads : Uses(x, d) => x = t
           /\ \A e : Awaited(e)' = Awaited(e)
           /\ CallInv' /\ LockInv' /\ PrintInv'
  <1> USE DEF Released, Goto
  <1>1. /\ at[t] = "release"
        /\ at' = [at EXCEPT ![t] = "outside"]
        /\ dev' = [dev EXCEPT ![t] = None]
        /\ lock' = [lock EXCEPT ![d] = Nobody]
        /\ UNCHANGED <<busy, display, value, left>>
    OBVIOUS
  <1>2. /\ at'[t] = "outside" /\ dev'[t] = None /\ d # None
        /\ \A x \in Threads : x # t => at'[x] = at[x] /\ dev'[x] = dev[x]
        /\ \A e \in Shared : lock'[e] = IF e = d THEN Nobody ELSE lock[e]
    BY <1>1, Names DEF IInv, DeviceIInv, DevicesTypeOK
  <1>3. lock[d] = t /\ \A x \in Threads : Uses(x, d) => x = t
    BY <1>1, OneUser DEF IInv, DeviceIInv, LockInv, Uses
  <1>4. \A e : Awaited(e)' = Awaited(e)
    BY <1>1, <1>2 DEF Awaited
  <1>5. CallInv'
    BY <1>1, <1>2, Names DEF IInv, DeviceIInv, CallInv
  <1>6. LockInv'
    BY <1>2, <1>3, DevicesAssumption DEF IInv, DeviceIInv, LockInv, Uses
  <1>7. CASE d # Display
    <2>1. PrintInv'
      BY <1>1, <1>2, <1>7, Names DEF IInv, DeviceIInv, PrintInv
    <2> QED
      BY <1>1, <1>3, <1>4, <1>5, <1>6, <1>7, <2>1
  <1>8. CASE d = Display
    <2>1. display = Complete
      BY <1>1, <1>8 DEF IInv, DeviceIInv, PrintInv
    <2>2. PrintInv'
      <3>1. \A x \in Threads : dev'[x] = Display => x # t /\ at'[x] \notin {"request", "await", "release"}
        BY <1>2, <1>3, <1>8 DEF Uses
      <3> QED
        BY <1>1, <2>1, <3>1 DEF PrintInv
    <2> QED
      BY <1>1, <1>3, <1>4, <1>5, <1>6, <1>8, <2>2
  <1> QED
    BY <1>7, <1>8

LEMMA ReleaseStep ==
    ASSUME IInv, NEW t \in Threads, Release(t), UNCHANGED mailVars
    PROVE  IInv'
  <1> USE DEF mailVars
  <1> DEFINE d == dev[t]
  <1>1. d \in OutDevices /\ d \in Shared /\ d # Keyboard /\ Released(t) /\ UNCHANGED <<pending, incoming>>
    BY Names DEF Release
  <1>2. /\ at[t] = "release"
        /\ at' = [at EXCEPT ![t] = "outside"]
        /\ dev' = [dev EXCEPT ![t] = None]
        /\ lock' = [lock EXCEPT ![d] = Nobody]
        /\ UNCHANGED <<busy, display, value, left>>
        /\ \A e : Awaited(e)' = Awaited(e)
        /\ CallInv' /\ LockInv' /\ PrintInv'
    BY <1>1, ReleasedFacts
  <1>3. TypeOK'
    BY <1>1, <1>2 DEF IInv, TypeOK, DevicesTypeOK, Positions
  <1>4. RequestInv' /\ InboxInv' /\ Sorted(pending)'
    BY <1>1, <1>2
    DEF IInv, DeviceIInv, RequestInv, InboxInv, Outstanding, On, Distinct, Sorted
  <1>5. KeyboardInv'
    <2>1. Reading' = Reading
      BY <1>1, <1>2, Names DEF IInv, TypeOK, DevicesTypeOK, Reading
    <2> QED
      BY <1>1, <1>2, <2>1 DEF IInv, DeviceIInv, KeyboardInv, Outstanding, On
  <1> QED
    BY <1>2, <1>3, <1>4, <1>5 DEF IInv, DeviceIInv, TypeOK

LEMMA GetCharStep ==
    ASSUME IInv, NEW t \in Threads, GetChar(t), UNCHANGED mailVars
    PROVE  IInv'
  <1> USE DEF mailVars
  <1>1. /\ dev[t] = Keyboard /\ Keyboard \in Shared /\ Released(t)
        /\ pending' = pending \/ Scheduled(pending, Keyboard, ConsoleTime)
        /\ incoming' = EOF
    BY Names DEF GetChar
  <1>2. /\ at[t] = "release"
        /\ at' = [at EXCEPT ![t] = "outside"]
        /\ dev' = [dev EXCEPT ![t] = None]
        /\ lock' = [lock EXCEPT ![Keyboard] = Nobody]
        /\ UNCHANGED <<busy, display, value, left>>
        /\ \A x \in Threads : Uses(x, Keyboard) => x = t
        /\ \A e : Awaited(e)' = Awaited(e)
        /\ CallInv' /\ LockInv' /\ PrintInv'
    BY <1>1, ReleasedFacts
  <1>3. Reading /\ ~Outstanding(Keyboard) /\ value[Keyboard] = 0
    BY <1>1, <1>2 DEF IInv, DeviceIInv, Reading, KeyboardInv
  <1>4. PendingOK(pending') /\ On(pending') \in {On(pending), On(pending) \cup {Keyboard}}
    <2>1. PendingOK(pending) /\ Keyboard \in Devices /\ ConsoleTime \in Int
      BY PendingType, DevicesAssumption, Names DEF IInv, DeviceIInv
    <2>2. CASE pending' = pending
      BY <2>1, <2>2
    <2>3. CASE Scheduled(pending, Keyboard, ConsoleTime)
      BY <1>3, <2>1, <2>3, ScheduledFacts DEF Outstanding
    <2> QED
      BY <1>1, <2>2, <2>3
  <1>5. \A e \in Devices \ {Keyboard} : e \in On(pending') <=> e \in On(pending)
    BY <1>4
  <1>6. TypeOK'
    BY <1>1, <1>2, <1>4 DEF IInv, TypeOK, DevicesTypeOK, PendingOK, Interrupts, Positions
  <1>7. RequestInv'
    <2>1. \A e \in OutDevices : e \in On(pending') <=> e \in On(pending)
      BY <1>5, Names
    <2> QED
      BY <1>2, <1>4, <2>1 DEF IInv, DeviceIInv, RequestInv, Outstanding, PendingOK
  <1>8. KeyboardInv'
    <2>1. ~Reading'
      BY <1>1, <1>2 DEF IInv, TypeOK, DevicesTypeOK, Reading, Uses
    <2> QED
      BY <1>1, <1>2, <1>3, <2>1 DEF KeyboardInv, EOF, Key
  <1>9. InboxInv' /\ Sorted(pending)'
    <2>1. Arrivals \in On(pending')
      BY <1>5, Names DEF IInv, DeviceIInv, InboxInv, Outstanding
    <2> QED
      BY <1>2, <1>4, <2>1 DEF IInv, DeviceIInv, InboxInv, Outstanding, PendingOK
  <1> QED
    BY <1>2, <1>6, <1>7, <1>8, <1>9 DEF IInv, DeviceIInv, TypeOK

(* The handlers.                                                           *)
LEMMA InterruptFacts ==
    ASSUME IInv, NEW d \in Devices, Interrupt(d)
    PROVE  /\ PendingOK(pending) /\ d \in On(pending)
           /\ PendingOK(Tail(pending)) /\ On(Tail(pending)) = On(pending) \ {d}
  <1>1. PendingOK(pending) /\ pending # <<>> /\ Head(pending).what = d
    BY PendingType DEF IInv, DeviceIInv, Interrupt, Due
  <1> QED
    BY <1>1, TailFacts

(* An interrupt that is asked for again at once.                           *)
LEMMA AgainFacts ==
    ASSUME IInv, NEW d \in Devices, NEW delay \in Int, Interrupt(d),
           Scheduled(Tail(pending), d, delay)
    PROVE  PendingOK(pending') /\ On(pending') = On(pending)
  <1>1. /\ d \in On(pending) /\ PendingOK(Tail(pending))
        /\ On(Tail(pending)) = On(pending) \ {d}
    BY InterruptFacts
  <1>2. PendingOK(pending') /\ On(pending') = On(Tail(pending)) \cup {d}
    BY <1>1, ScheduledFacts
  <1> QED
    BY <1>1, <1>2

LEMMA OutputDoneStep ==
    ASSUME IInv, NEW d \in OutDevices, OutputDone(d), UNCHANGED mailVars
    PROVE  IInv'
  <1> USE DEF mailVars
  <1>1. /\ d \in Devices /\ d # Keyboard /\ d # Arrivals /\ Interrupt(d)
        /\ pending' = Tail(pending)
        /\ busy' = [x \in {Disk, Display} |-> busy[x] /\ x # d]
        /\ value' = [value EXCEPT ![d] = value[d] + 1]
        /\ UNCHANGED <<incoming, display, lock, at, dev, left>>
    BY Names DEF OutputDone, V
  <1>2. d \in On(pending) /\ PendingOK(pending') /\ On(pending') = On(pending) \ {d}
    BY <1>1, InterruptFacts
  <1>3. value \in [Devices -> Nat] /\ value' \in [Devices -> Nat] /\ value[d] = 0 /\ Awaited(d)
    <2>1. value \in [Devices -> Nat]
      BY DEF IInv, TypeOK, DevicesTypeOK
    <2>2. value[d] = 0 /\ Awaited(d)
      BY <1>2 DEF IInv, DeviceIInv, RequestInv, Outstanding
    <2> QED
      BY <1>1, <2>1, <2>2
  <1>4. value'[d] = 1 /\ \A e \in Devices : e # d => value'[e] = value[e]
    BY <1>1, <1>3
  <1>5. TypeOK'
    <2>1. busy' \in [{Disk, Display} -> BOOLEAN]
      BY <1>1
    <2> QED
      BY <1>1, <1>2, <1>3, <2>1 DEF IInv, TypeOK, DevicesTypeOK, PendingOK, Interrupts
  <1>6. CallInv' /\ LockInv' /\ PrintInv'
    BY <1>1 DEF IInv, DeviceIInv, CallInv, LockInv, PrintInv, Uses
  <1>7. RequestInv'
    <2>1. \A e \in OutDevices : Awaited(e)' = Awaited(e)
      BY <1>1 DEF Awaited
    <2>2. \A e \in OutDevices : e # Network => (busy'[e] <=> (e \in On(pending) /\ e # d))
      BY <1>1, Names DEF IInv, DeviceIInv, RequestInv, Outstanding
    <2>3. \A e \in OutDevices :
              /\ value'[e] = (IF Awaited(e)' /\ e \notin On(pending') THEN 1 ELSE 0)
              /\ e \in On(pending') => Awaited(e)'
      BY <1>2, <1>3, <1>4, <2>1, Names DEF IInv, DeviceIInv, RequestInv, Outstanding
    <2> QED
      BY <1>2, <2>2, <2>3 DEF RequestInv, Outstanding, PendingOK
  <1>8. KeyboardInv'
    <2>1. Keyboard \in On(pending') <=> Keyboard \in On(pending)
      BY <1>1, <1>2
    <2>2. Reading' = Reading /\ value'[Keyboard] = value[Keyboard]
      BY <1>1, <1>4, Names DEF Reading
    <2> QED
      BY <1>1, <2>1, <2>2 DEF IInv, DeviceIInv, KeyboardInv, Outstanding
  <1>9. InboxInv' /\ Sorted(pending)'
    BY <1>1, <1>2, <1>4, Names DEF IInv, DeviceIInv, InboxInv, Outstanding, PendingOK
  <1> QED
    BY <1>5, <1>6, <1>7, <1>8, <1>9 DEF IInv, DeviceIInv, TypeOK

LEMMA KeyboardStep ==
    ASSUME IInv, KeyboardInterrupt, UNCHANGED mailVars
    PROVE  IInv'
  <1> USE DEF mailVars
  <1>1. /\ Keyboard \in Devices /\ ConsoleTime \in Int /\ Interrupt(Keyboard)
        /\ UNCHANGED <<busy, display, lock, at, dev, left>>
    BY DevicesAssumption, Names DEF KeyboardInterrupt
  <1>2. \/ /\ Scheduled(Tail(pending), Keyboard, ConsoleTime)
           /\ UNCHANGED <<incoming, value>>
        \/ /\ pending' = Tail(pending)
           /\ incoming' \in {Key, EOF}
           /\ value' = [value EXCEPT ![Keyboard] = value[Keyboard] + 1]
    BY DEF KeyboardInterrupt, WaitsForGetChar, V
  <1>3. /\ Keyboard \in On(pending)
        /\ value \in [Devices -> Nat] /\ value[Keyboard] = 0 /\ ~Reading
    <2>1. Keyboard \in On(pending)
      BY <1>1, InterruptFacts
    <2> QED
      BY <2>1 DEF IInv, DeviceIInv, TypeOK, DevicesTypeOK, KeyboardInv, Outstanding
  <1>4. /\ PendingOK(pending') /\ On(pending') \in {On(pending), On(pending) \ {Keyboard}}
        /\ value' \in [Devices -> Nat] /\ incoming' \in {Key, EOF}
        /\ \A e \in Devices : e # Keyboard => value'[e] = value[e]
        /\ \/ value'[Keyboard] = 0 /\ incoming' = incoming
           \/ value'[Keyboard] = 1 /\ Keyboard \notin On(pending')
    <2>1. CASE Scheduled(Tail(pending), Keyboard, ConsoleTime) /\ UNCHANGED <<incoming, value>>
      BY <1>1, <1>3, <2>1, AgainFacts DEF IInv, TypeOK, DevicesTypeOK
    <2>2. CASE /\ pending' = Tail(pending)
               /\ incoming' \in {Key, EOF}
               /\ value' = [value EXCEPT ![Keyboard] = value[Keyboard] + 1]
      <3>1. PendingOK(pending') /\ On(pending') = On(pending) \ {Keyboard}
        BY <1>1, <2>2, InterruptFacts
      <3>2. /\ value' \in [Devices -> Nat] /\ value'[Keyboard] = 1
            /\ \A e \in Devices : e # Keyboard => value'[e] = value[e]
        BY <1>1, <1>3, <2>2
      <3> QED
        BY <2>2, <3>1, <3>2
    <2> QED
      BY <1>2, <2>1, <2>2
  <1>5. \A e \in Devices \ {Keyboard} : e \in On(pending') <=> e \in On(pending)
    BY <1>4
  <1>6. TypeOK'
    BY <1>1, <1>4 DEF IInv, TypeOK, DevicesTypeOK, PendingOK, Interrupts
  <1>7. CallInv' /\ LockInv' /\ PrintInv'
    BY <1>1 DEF IInv, DeviceIInv, CallInv, LockInv, PrintInv, Uses
  <1>8. RequestInv'
    <2>1. \A e \in OutDevices : Awaited(e)' = Awaited(e)
      BY <1>1 DEF Awaited
    <2>2. \A e \in OutDevices : value'[e] = value[e] /\ (e \in On(pending') <=> e \in On(pending))
      BY <1>4, <1>5, Names
    <2> QED
      BY <1>1, <1>4, <2>1, <2>2 DEF IInv, DeviceIInv, RequestInv, Outstanding, PendingOK
  <1>9. KeyboardInv'
    <2>1. ~Reading'
      BY <1>1, <1>3 DEF Reading
    <2>2. incoming # Key
      BY <1>3 DEF IInv, DeviceIInv, KeyboardInv
    <2> QED
      BY <1>4, <2>1, <2>2 DEF KeyboardInv, Outstanding
  <1>10. InboxInv' /\ Sorted(pending)'
    <2>1. Arrivals \in On(pending') /\ value'[Arrivals] = value[Arrivals]
      BY <1>4, <1>5, Names DEF IInv, InboxInv, Outstanding
    <2> QED
      BY <1>4, <2>1 DEF IInv, InboxInv, Outstanding, PendingOK
  <1> QED
    BY <1>6, <1>7, <1>8, <1>9, <1>10 DEF IInv, DeviceIInv, TypeOK

LEMMA ArrivalsStep ==
    ASSUME IInv, ArrivalsInterrupt
    PROVE  IInv'
  <1>1. /\ Arrivals \in Devices /\ NetworkTime \in Int /\ Interrupt(Arrivals)
        /\ Scheduled(Tail(pending), Arrivals, NetworkTime)
        /\ UNCHANGED <<busy, incoming, display, lock, at, dev, left, worker, carried, boxes>>
    BY DevicesAssumption, Names DEF ArrivalsInterrupt, NextLook
  <1>2. PendingOK(pending') /\ On(pending') = On(pending)
    BY <1>1, AgainFacts
  <1>3. /\ value \in [Devices -> Nat] /\ inbox \in Seq(Packet) /\ socket \in Seq(Packet)
        /\ Len(inbox) = value[Arrivals] + (IF worker = "receive" THEN 1 ELSE 0)
        /\ Len(inbox) <= 1
    BY DEF IInv, TypeOK, DevicesTypeOK, InboxInv
  <1>4. /\ value' \in [Devices -> Nat] /\ inbox' \in Seq(Packet) /\ socket' \in Seq(Packet)
        /\ Len(inbox') = value'[Arrivals] + (IF worker = "receive" THEN 1 ELSE 0)
        /\ Len(inbox') <= 1
        /\ \A e \in Devices : e # Arrivals => value'[e] = value[e]
    <2>1. CASE CanRead
      <3>1. /\ inbox = <<>> /\ socket # <<>>
            /\ inbox' = <<Head(socket)>> /\ socket' = Tail(socket)
            /\ value' = [value EXCEPT ![Arrivals] = value[Arrivals] + 1]
        BY <2>1 DEF ArrivalsInterrupt, CanRead, V
      <3>2. Head(socket) \in Packet /\ Tail(socket) \in Seq(Packet)
        BY <1>3, <3>1
      <3>3. inbox' \in Seq(Packet) /\ Len(inbox') = 1
        BY <3>1, <3>2
      <3>4. Len(inbox) = 0 /\ value[Arrivals] = 0 /\ worker # "receive"
        BY <1>1, <1>3, <3>1
      <3>5. value' \in [Devices -> Nat] /\ value'[Arrivals] = 1
            /\ \A e \in Devices : e # Arrivals => value'[e] = value[e]
        BY <1>1, <1>3, <3>1, <3>4
      <3> QED
        BY <3>1, <3>2, <3>3, <3>4, <3>5
    <2>2. CASE ~CanRead
      BY <1>3, <2>2 DEF ArrivalsInterrupt
    <2> QED
      BY <2>1, <2>2
  <1>5. TypeOK'
    BY <1>1, <1>2, <1>4 DEF IInv, TypeOK, DevicesTypeOK, PendingOK, Interrupts
  <1>6. CallInv' /\ LockInv' /\ PrintInv'
    BY <1>1 DEF IInv, DeviceIInv, CallInv, LockInv, PrintInv, Uses
  <1>7. RequestInv' /\ KeyboardInv'
    <2>1. Reading' = Reading /\ \A e \in OutDevices : Awaited(e)' = Awaited(e)
      BY <1>1 DEF Awaited, Reading
    <2>2. value'[Keyboard] = value[Keyboard] /\ \A e \in OutDevices : value'[e] = value[e]
      BY <1>4, Names
    <2> QED
      BY <1>1, <1>2, <2>1, <2>2
      DEF IInv, DeviceIInv, RequestInv, KeyboardInv, Outstanding, PendingOK
  <1>8. InboxInv' /\ Sorted(pending)'
    BY <1>1, <1>2, <1>4 DEF IInv, InboxInv, Outstanding, PendingOK
  <1> QED
    BY <1>5, <1>6, <1>7, <1>8 DEF IInv, DeviceIInv, TypeOK

-----------------------------------------------------------------------------
(* The clock.                                                              *)
LEMMA ClockStep ==
    ASSUME IInv, Clock
    PROVE  IInv'
  <1>1. UNCHANGED <<busy, incoming, display, lock, value, at, dev, left, mailVars>>
    BY DEF Clock, OneTick, Idle
  <1>2. PICK ticks \in Int : pending' = Moved(pending, ticks)
    <2>1. CASE OneTick
      BY <2>1, DevicesAssumption DEF OneTick
    <2>2. CASE Idle
      <3>1. pending # <<>> /\ pending' = Moved(pending, Head(pending).when)
        BY <2>2 DEF Idle
      <3>2. Head(pending) \in Interrupts
        <4>1. pending \in Seq(Interrupts)
          BY DEF IInv, TypeOK, DevicesTypeOK, Interrupts
        <4> QED
          BY <3>1, <4>1
      <3> QED
        BY <3>1, <3>2 DEF Interrupts
    <2> QED
      BY <2>1, <2>2 DEF Clock
  <1>3. PendingOK(pending') /\ On(pending') = On(pending)
    BY <1>2, MovedFacts, PendingType DEF IInv, DeviceIInv
  <1>5. TypeOK'
    BY <1>1, <1>3 DEF IInv, TypeOK, DevicesTypeOK, PendingOK, Interrupts, mailVars
  <1>6. CallInv' /\ LockInv' /\ PrintInv'
    BY <1>1 DEF IInv, DeviceIInv, CallInv, LockInv, PrintInv, Uses
  <1>7. RequestInv' /\ KeyboardInv'
    <2>1. Reading' = Reading /\ \A e \in OutDevices : Awaited(e)' = Awaited(e)
      BY <1>1 DEF Awaited, Reading
    <2> QED
      BY <1>1, <1>3, <2>1 DEF IInv, DeviceIInv, RequestInv, KeyboardInv, Outstanding, PendingOK
  <1>8. InboxInv' /\ Sorted(pending)'
    BY <1>1, <1>3 DEF IInv, InboxInv, Outstanding, PendingOK, mailVars
  <1> QED
    BY <1>5, <1>6, <1>7, <1>8 DEF IInv, DeviceIInv, TypeOK

-----------------------------------------------------------------------------
(* The mail.                                                               *)
LEMMA DevicesAtRest ==
    ASSUME IInv, UNCHANGED <<pending, busy, incoming, display, lock, at, dev, left>>,
           value' \in [Devices -> Nat],
           \A e \in Devices : e # Arrivals => value'[e] = value[e]
    PROVE  DevicesTypeOK' /\ DeviceIInv' /\ Outstanding(Arrivals)'
  <1>1. DevicesTypeOK'
    BY DEF IInv, TypeOK, DevicesTypeOK
  <1>2. CallInv' /\ LockInv' /\ PrintInv' /\ Sorted(pending)'
    BY DEF IInv, DeviceIInv, CallInv, LockInv, PrintInv, Uses, Sorted
  <1>3. RequestInv' /\ KeyboardInv'
    <2>1. Reading' = Reading /\ \A e \in OutDevices : Awaited(e)' = Awaited(e)
      BY DEF Awaited, Reading
    <2>2. value'[Keyboard] = value[Keyboard] /\ \A e \in OutDevices : value'[e] = value[e]
      BY Names
    <2> QED
      BY <2>1, <2>2 DEF IInv, DeviceIInv, RequestInv, KeyboardInv, Outstanding, On, Distinct
  <1>4. Outstanding(Arrivals)'
    BY DEF IInv, InboxInv, Outstanding, On
  <1> QED
    BY <1>1, <1>2, <1>3, <1>4 DEF DeviceIInv

LEMMA MailStep ==
    ASSUME IInv, SentElsewhere \/ PostalWorker \/ \E t \in Threads : Receive(t)
    PROVE  IInv'
  <1> USE DEF deviceVars
  <1>0. value \in [Devices -> Nat] /\ Arrivals \in Devices
    BY Names DEF IInv, TypeOK, DevicesTypeOK
  <1>1. CASE SentElsewhere
    <2>1. PICK p \in Packets : socket' = Append(socket, p)
      BY <1>1 DEF SentElsewhere
    <2>2. p \in Packet
      BY DEF Packets, Packet
    <2>3. socket' \in Seq(Packet)
      BY <2>1, <2>2 DEF IInv, TypeOK
    <2>4. UNCHANGED <<deviceVars, inbox, worker, carried, boxes>>
      BY <1>1 DEF SentElsewhere
    <2> QED
      BY <1>0, <2>3, <2>4, DevicesAtRest DEF IInv, TypeOK, InboxInv
  <1>2. CASE AwaitPacket
    <2>1. /\ worker = "wait" /\ worker' = "receive"
          /\ value[Arrivals] > 0
          /\ value' = [value EXCEPT ![Arrivals] = value[Arrivals] - 1]
          /\ UNCHANGED <<pending, busy, incoming, display, lock, at, dev, left,
                         socket, inbox, carried, boxes>>
      BY <1>2 DEF AwaitPacket
    <2>2. /\ value' \in [Devices -> Nat] /\ value'[Arrivals] = value[Arrivals] - 1
          /\ \A e \in Devices : e # Arrivals => value'[e] = value[e]
      BY <1>0, <2>1
    <2>3. DevicesTypeOK' /\ DeviceIInv' /\ Outstanding(Arrivals)'
      BY <2>1, <2>2, DevicesAtRest
    <2> QED
      BY <1>0, <2>1, <2>2, <2>3 DEF IInv, TypeOK, InboxInv
  <1>3. CASE ReceivePacket
    <2>1. /\ worker = "receive" /\ worker' = "put" /\ carried' = inbox /\ inbox' = <<>>
          /\ UNCHANGED <<deviceVars, socket, boxes>>
      BY <1>3 DEF ReceivePacket
    <2>2. DevicesTypeOK' /\ DeviceIInv' /\ Outstanding(Arrivals)'
      BY <1>0, <2>1, DevicesAtRest
    <2>3. Len(inbox) = 1 /\ value[Arrivals] = 0
      BY <1>0, <2>1 DEF IInv, TypeOK, InboxInv
    <2> QED
      BY <2>1, <2>2, <2>3 DEF IInv, TypeOK, InboxInv
  <1>4. CASE PutInBox
    <2>1. /\ worker = "put" /\ worker' = "wait" /\ carried' = <<>>
          /\ boxes' = [boxes EXCEPT ![Head(carried).to] = Append(@, Head(carried).letter)]
          /\ UNCHANGED <<deviceVars, socket, inbox>>
      BY <1>4 DEF PutInBox
    <2>2. DevicesTypeOK' /\ DeviceIInv' /\ Outstanding(Arrivals)'
      BY <1>0, <2>1, DevicesAtRest
    <2>3. Head(carried) \in Packet
      <3>1. carried \in Seq(Packet) /\ Len(carried) = 1
        BY <2>1 DEF IInv, TypeOK, InboxInv
      <3> QED
        BY <3>1
    <2>4. Head(carried).to \in Boxes /\ Head(carried).letter \in Letters
      BY <2>3 DEF Packet
    <2>5. boxes' \in [Boxes -> Seq(Letters)]
      BY <2>1, <2>4 DEF IInv, TypeOK
    <2> QED
      BY <2>1, <2>2, <2>5 DEF IInv, TypeOK, InboxInv
  <1>5. CASE \E t \in Threads : Receive(t)
    <2>1. PICK b \in Boxes : boxes[b] # <<>> /\ boxes' = [boxes EXCEPT ![b] = Tail(boxes[b])]
      BY <1>5 DEF Receive
    <2>2. UNCHANGED <<deviceVars, socket, inbox, worker, carried>>
      BY <1>5 DEF Receive
    <2>3. DevicesTypeOK' /\ DeviceIInv' /\ Outstanding(Arrivals)'
      BY <1>0, <2>2, DevicesAtRest
    <2>4. boxes' \in [Boxes -> Seq(Letters)]
      <3>1. boxes \in [Boxes -> Seq(Letters)] /\ Tail(boxes[b]) \in Seq(Letters)
        BY <2>1 DEF IInv, TypeOK
      <3> QED
        BY <2>1, <3>1
    <2> QED
      BY <2>2, <2>3, <2>4 DEF IInv, TypeOK, InboxInv
  <1> QED
    BY <1>1, <1>2, <1>3, <1>4, <1>5 DEF PostalWorker

-----------------------------------------------------------------------------
LEMMA NextIInv == IInv /\ [Next]_vars => IInv'
  <1> SUFFICES ASSUME IInv, [Next]_vars
               PROVE  IInv'
    OBVIOUS
  <1>1. ASSUME NEW t \in Threads, DeviceStep(t)
        PROVE  IInv'
    <2>1. CASE \E d \in Shared : Call(t, d)
      BY <1>1, <2>1, CallStep DEF DeviceStep
    <2> QED
      BY <1>1, <2>1, AcquireStep, DiskStep, PutCharStep, PStep, ReleaseStep, GetCharStep
      DEF DeviceStep
  <1>2. CASE Handlers
    BY <1>2, KeyboardStep, OutputDoneStep, ArrivalsStep DEF Handlers
  <1>3. CASE UNCHANGED vars
    <2>1. UNCHANGED deviceVars /\ UNCHANGED mailVars
      BY <1>3 DEF vars
    <2>2. value \in [Devices -> Nat]
      BY DEF IInv, TypeOK, DevicesTypeOK
    <2> QED
      BY <2>1, <2>2, DevicesAtRest DEF IInv, TypeOK, InboxInv, deviceVars, mailVars
  <1> QED
    BY <1>1, <1>2, <1>3, SendStep, MailStep, ClockStep DEF Next

(* The devices' and the post office's invariant is inductive: what holds   *)
(* of the locks, the pending interrupts and the semaphores keeps holding.  *)
THEOREM Inductive == Spec => []IInv
  BY InitIInv, NextIInv, PTL DEF Spec

-----------------------------------------------------------------------------
(* MailInv: no request finds its device busy, no interrupt is lost, comes  *)
(* unasked or is handled late, and the network's buffer holds a packet     *)
(* exactly as long as the postal worker has not fetched it.                *)
THEOREM DevicesSound == Spec => []MailInv
  <1>1. IInv => MailInv
    <2> SUFFICES ASSUME IInv PROVE MailInv
      OBVIOUS
    <2>1. NoneOverdue
      <3> SUFFICES ASSUME ~Due, NEW i \in 1 .. Len(pending)
                   PROVE  pending[i].when > 0
        BY DEF NoneOverdue
      <3>1. pending \in Seq(Interrupts)
        BY DEF IInv, TypeOK, DevicesTypeOK, Interrupts
      <3>2. Len(pending) \in Nat /\ pending # <<>> /\ Head(pending) = pending[1] /\ 1 \in 1 .. Len(pending)
        BY <3>1
      <3>3. pending[1] \in Interrupts /\ pending[i] \in Interrupts
        BY <3>1, <3>2
      <3>4. pending[1].when \in Int /\ pending[i].when \in Int
        BY <3>3 DEF Interrupts
      <3>5. ~(pending[1].when <= 0)
        BY <3>2 DEF Due
      <3>6. pending[1].when <= pending[i].when
        BY <3>2 DEF IInv, DeviceIInv, Sorted
      <3> QED
        BY <3>4, <3>5, <3>6
    <2> QED
      BY <2>1 DEF IInv, DeviceIInv, MailInv, DeviceInv
  <1> QED
    BY <1>1, Inductive, PTL

(* Contiguous: whoever is about to print finds the last number complete or *)
(* goes on with its own, however many threads print.                       *)
THEOREM NumbersNotMixed == Spec => []Contiguous
  <1>1. IInv => Contiguous
    BY DEF IInv, DeviceIInv, PrintInv, Contiguous
  <1> QED
    BY <1>1, Inductive, PTL

-----------------------------------------------------------------------------
(* The post office and what it promises.                                   *)
LEMMA PacketTypes ==
    ASSUME IInv
    PROVE  /\ socket \in Seq(Packet) /\ inbox \in Seq(Packet) /\ carried \in Seq(Packet)
           /\ inbox = <<>> \/ Len(inbox) = 1
           /\ worker = "put" => Len(carried) = 1
           /\ worker # "put" => carried = <<>>
           /\ worker = "receive" => Len(inbox) = 1
  <1>1. /\ socket \in Seq(Packet) /\ inbox \in Seq(Packet) /\ carried \in Seq(Packet)
        /\ Len(inbox) = value[Arrivals] + (IF worker = "receive" THEN 1 ELSE 0)
        /\ Len(inbox) <= 1 /\ value[Arrivals] \in Nat
        /\ Len(carried) = (IF worker = "put" THEN 1 ELSE 0)
    BY Names DEF IInv, TypeOK, DevicesTypeOK, InboxInv
  <1> QED
    BY <1>1

LEMMA WireSent ==
    ASSUME NEW S, NEW a \in Seq(S), NEW b \in Seq(S), NEW c \in Seq(S), NEW p \in S
    PROVE  a \o b \o Append(c, p) = Append(a \o b \o c, p)
  OBVIOUS

LEMMA WireTaken ==
    ASSUME NEW S, NEW a \in Seq(S), NEW c \in Seq(S), c # <<>>
    PROVE  a \o <<Head(c)>> \o Tail(c) = a \o <<>> \o c
  OBVIOUS

LEMMA WireFetched ==
    ASSUME NEW S, NEW b \in Seq(S), NEW c \in Seq(S)
    PROVE  b \o <<>> \o c = <<>> \o b \o c
  OBVIOUS

LEMMA WireDelivered ==
    ASSUME IInv, worker = "put", carried' = <<>>, UNCHANGED <<inbox, socket>>
    PROVE  wire # <<>> /\ Head(wire) = Head(carried) /\ wire' = Tail(wire)
  <1> DEFINE a == carried
             b == inbox
             c == socket
             S == Packet
             rest == b \o c
             front == a \o b
             all == front \o c
  <1>0. a \in Seq(S) /\ b \in Seq(S) /\ c \in Seq(S) /\ Len(a) = 1
    BY PacketTypes
  <1>6. wire = all /\ wire' = rest
    BY <1>0 DEF wire
  <1>10. a \in Seq(S) /\ b \in Seq(S)
    BY <1>0
  <1> HIDE DEF a, b, c, S
  <1>7. /\ front \in Seq(S) /\ Len(front) = 1 + Len(b) /\ Len(b) \in Nat /\ Len(c) \in Nat
        /\ front[1] = a[1] /\ \A i \in 1 .. Len(b) : front[1 + i] = b[i]
    <2>1. /\ front \in Seq(S) /\ Len(front) = Len(a) + Len(b)
          /\ \A i \in 1 .. Len(a) : front[i] = a[i]
          /\ \A i \in 1 .. Len(b) : front[Len(a) + i] = b[i]
      BY ONLY <1>10, ConcatFacts DEF front
    <2>2. Len(b) \in Nat /\ Len(c) \in Nat
      BY <1>0
    <2> HIDE DEF front
    <2> QED
      BY <1>0, <2>1, <2>2
  <1>8. /\ rest \in Seq(S) /\ Len(rest) = Len(b) + Len(c)
        /\ \A i \in 1 .. Len(b) : rest[i] = b[i]
        /\ \A i \in 1 .. Len(c) : rest[Len(b) + i] = c[i]
    BY <1>0, ConcatFacts
  <1> HIDE DEF front
  <1>9. /\ all \in Seq(S) /\ Len(all) = 1 + Len(b) + Len(c)
        /\ \A i \in 1 .. 1 + Len(b) : all[i] = front[i]
        /\ \A i \in 1 .. Len(c) : all[1 + Len(b) + i] = c[i]
    <2>1. front \in Seq(S) /\ c \in Seq(S)
      BY <1>0, <1>7
    <2>2. /\ all \in Seq(S) /\ Len(all) = Len(front) + Len(c)
          /\ \A i \in 1 .. Len(front) : all[i] = front[i]
          /\ \A i \in 1 .. Len(c) : all[Len(front) + i] = c[i]
      BY <2>1, ConcatFacts
    <2> HIDE DEF all
    <2> QED
      BY <1>7, <2>2
  <1> HIDE DEF rest, all
  <1>1. rest \in Seq(S) /\ all \in Seq(S) /\ Len(rest) = Len(b) + Len(c)
        /\ Len(all) = 1 + Len(rest) /\ Len(rest) \in Nat /\ all[1] = a[1]
    BY <1>7, <1>8, <1>9
  <1>2. \A i \in 1 .. Len(rest) : all[i + 1] = rest[i]
    <2> SUFFICES ASSUME NEW i \in 1 .. Len(rest) PROVE all[i + 1] = rest[i]
      OBVIOUS
    <2>1. CASE i <= Len(b)
      BY <1>7, <1>8, <1>9, <2>1
    <2>2. CASE i > Len(b)
      <3>1. i - Len(b) \in 1 .. Len(c) /\ Len(b) + (i - Len(b)) = i
            /\ 1 + Len(b) + (i - Len(b)) = i + 1
        BY <1>7, <1>8, <2>2
      <3> QED
        <4>1. all[1 + Len(b) + (i - Len(b))] = c[i - Len(b)]
          BY <1>9, <3>1
        <4>2. rest[Len(b) + (i - Len(b))] = c[i - Len(b)]
          BY <1>8, <3>1
        <4> QED
          BY <3>1, <4>1, <4>2
    <2> QED
      BY <1>7, <1>8, <2>1, <2>2
  <1>3. all # <<>> /\ Head(all) = a[1] /\ Tail(all) \in Seq(S) /\ Len(Tail(all)) = Len(rest)
        /\ \A i \in 1 .. Len(rest) : Tail(all)[i] = all[i + 1]
    BY <1>1
  <1>4. Tail(all) = rest
    BY <1>1, <1>2, <1>3
  <1>5. Head(a) = a[1]
    BY <1>0
  <1> QED
    BY <1>3, <1>4, <1>5, <1>6 DEF a

(* A step takes a packet on its way or leaves the wire as it is.           *)
LEMMA WireSame ==
    ASSUME UNCHANGED <<socket, inbox, carried, boxes>>
    PROVE  UNCHANGED <<wire, boxes>>
  BY DEF wire

LEMMA SocketFed ==
    ASSUME IInv, UNCHANGED <<inbox, carried, boxes>>,
           NEW p \in Packets, socket' = Append(socket, p)
    PROVE  Delivery!Next
  <1>1. p \in Packet
    BY DEF Packets, Packet
  <1>2. wire' = Append(wire, p)
    BY <1>1, PacketTypes, WireSent DEF wire
  <1> QED
    BY <1>1, <1>2 DEF Delivery!Next, Delivery!Send, Packet

LEMMA DeliveryStep == IInv /\ [Next]_vars => [Delivery!Next]_<<wire, boxes>>
  <1> SUFFICES ASSUME IInv, [Next]_vars
               PROVE  Delivery!Next \/ UNCHANGED <<wire, boxes>>
    OBVIOUS
  <1> USE DEF mailVars, deviceVars
  <1>1. CASE \/ \E t \in Threads : DeviceStep(t)
             \/ (KeyboardInterrupt \/ \E d \in OutDevices : OutputDone(d)) /\ UNCHANGED mailVars
             \/ AwaitPacket \/ Clock \/ UNCHANGED vars
    <2>1. UNCHANGED <<socket, inbox, carried, boxes>>
      BY <1>1 DEF DeviceStep, AwaitPacket, Clock, vars
    <2> QED
      BY <2>1, WireSame
  <1>2. CASE SentElsewhere \/ \E t \in Threads : Send(t)
    <2>1. /\ UNCHANGED <<inbox, carried, boxes>>
          /\ socket' = socket \/ \E p \in Packets : socket' = Append(socket, p)
      BY <1>2 DEF SentElsewhere, Send
    <2> QED
      BY <2>1, WireSame, SocketFed
  <1>3. CASE ArrivalsInterrupt
    <2>1. CASE CanRead
      <3>1. /\ inbox = <<>> /\ socket # <<>>
            /\ inbox' = <<Head(socket)>> /\ socket' = Tail(socket)
            /\ UNCHANGED <<carried, boxes>>
        BY <1>3, <2>1 DEF ArrivalsInterrupt, CanRead
      <3>2. carried \o <<Head(socket)>> \o Tail(socket) = carried \o <<>> \o socket
        BY <3>1, PacketTypes, WireTaken
      <3> QED
        BY <3>1, <3>2 DEF wire
    <2>2. CASE ~CanRead
      BY <1>3, <2>2, WireSame DEF ArrivalsInterrupt
    <2> QED
      BY <2>1, <2>2
  <1>4. CASE ReceivePacket
    <2>1. /\ worker = "receive" /\ carried' = inbox /\ inbox' = <<>>
          /\ UNCHANGED <<socket, boxes>>
      BY <1>4 DEF ReceivePacket
    <2>2. carried = <<>> /\ inbox \in Seq(Packet) /\ socket \in Seq(Packet)
      BY <2>1, PacketTypes
    <2>3. inbox \o <<>> \o socket = <<>> \o inbox \o socket
      BY <2>2, WireFetched
    <2> QED
      BY <2>1, <2>2, <2>3 DEF wire
  <1>5. CASE PutInBox
    <2>1. /\ worker = "put" /\ carried' = <<>> /\ UNCHANGED <<inbox, socket>>
          /\ boxes' = [boxes EXCEPT ![Head(carried).to] = Append(@, Head(carried).letter)]
      BY <1>5 DEF PutInBox
    <2>2. wire # <<>> /\ Head(wire) = Head(carried) /\ wire' = Tail(wire)
      BY <2>1, WireDelivered
    <2> QED
      BY <2>1, <2>2 DEF Delivery!Next, Delivery!Deliver
  <1>6. CASE \E t \in Threads : Receive(t)
    <2>1. PICK b \in Boxes : boxes[b] # <<>> /\ boxes' = [boxes EXCEPT ![b] = Tail(@)]
      BY <1>6 DEF Receive
    <2>2. wire' = wire
      BY <1>6 DEF Receive, wire
    <2> QED
      BY <2>1, <2>2 DEF Delivery!Next, Delivery!Receive
  <1> QED
    BY <1>1, <1>2, <1>3, <1>4, <1>5, <1>6 DEF Next, Handlers, PostalWorker

(* ImplementsMailDelivery: a letter that the network has not lost gets to  *)
(* its box, once and in the order of sending.                              *)
THEOREM MailIsDelivered == Spec => ImplementsMailDelivery
  <1>1. Init => Delivery!Init
    BY DEF Init, Delivery!Init, wire
  <1> QED
    BY <1>1, DeliveryStep, Inductive, PTL DEF Spec, ImplementsMailDelivery
=============================================================================
