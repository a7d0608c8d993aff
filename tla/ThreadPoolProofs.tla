-------------------------- MODULE ThreadPoolProofs --------------------------
(***************************************************************************)
(* The safety of ThreadPool for any number of threads and connections.     *)
(* IInv is inductive; the theorems at the end are its parts. NoLostWakeup  *)
(* counts the awake workers, hence the two cardinality lemmas.             *)
(***************************************************************************)
EXTENDS ThreadPool, FiniteSetTheorems, TLAPS

IInv ==
    /\ TypeOK
    /\ LockProtects
    /\ NoSleepAfterStop
    /\ ThreadStates
    /\ NoLostWakeup
    /\ Accounted
    /\ EachOnce

-----------------------------------------------------------------------------
(* The worker states named by the control, for expansion together. *)

LEMMA AwakeFinite ==
    ASSUME TypeOK
    PROVE  IsFiniteSet(Awake) /\ Cardinality(Awake) \in Nat
<1>1. Awake \subseteq Workers
  BY DEF Awake
<1> QED
  BY <1>1, PoolAssumption, FS_Subset, FS_CardinalityType

LEMMA AwakeFiniteNext ==
    ASSUME TypeOK'
    PROVE  Cardinality(Awake') \in Nat
<1>1. Awake' \subseteq Workers
  BY DEF Awake
<1> QED
  BY <1>1, PoolAssumption, FS_Subset, FS_CardinalityType

\* A worker that wakes up makes the awake ones one more.
LEMMA OneMoreAwake ==
    ASSUME TypeOK, NEW w \in Workers, w \notin Awake, Awake' = Awake \cup {w}
    PROVE  Cardinality(Awake') = Cardinality(Awake) + 1
BY AwakeFinite, FS_AddElement

\* A worker that goes to serve makes them one less.
LEMMA OneLessAwake ==
    ASSUME TypeOK, NEW w \in Workers, w \in Awake, Awake' = Awake \ {w}
    PROVE  Cardinality(Awake') = Cardinality(Awake) - 1
BY AwakeFinite, FS_RemoveElement

-----------------------------------------------------------------------------
LEMMA InitIInv == Init => IInv
<1> SUFFICES ASSUME Init PROVE IInv
  OBVIOUS
<1> USE PoolAssumption DEF Init
<1>1. TypeOK
  <2>1. tasks \in Seq(Sockets) /\ spurious \in 0..MaxSpurious
    OBVIOUS
  <2>2. mutex \in Workers \cup {Main, Free} /\ client \in Sockets \cup {NoSocket}
    OBVIOUS
  <2>3. wpc \in [Workers -> {"unborn", "lock", "test", "wait", "serve", "exit"}]
    OBVIOUS
  <2>4. socket \in [Workers -> Sockets \cup {NoSocket}]
    OBVIOUS
  <2> QED
    BY <2>1, <2>2, <2>3, <2>4 DEF TypeOK
<1>2. LockProtects
  BY DEF LockProtects
<1>3. Waiting = {}
  BY DEF Waiting
<1>4. NoSleepAfterStop /\ NoLostWakeup
  BY <1>3 DEF NoSleepAfterStop, NoLostWakeup
<1>5. ThreadStates
  BY DEF ThreadStates
<1>6. InQueue = {} /\ InService = {}
  BY DEF InQueue, InService
<1>7. Accounted
  BY <1>6 DEF Accounted
<1>8. EachOnce
  BY <1>6 DEF EachOnce
<1> QED
  BY <1>1, <1>2, <1>4, <1>5, <1>7, <1>8 DEF IInv

LEMMA TypeStep ==
    ASSUME TypeOK, ThreadStates, [Next]_vars
    PROVE  TypeOK'
<1> USE PoolAssumption DEF TypeOK, ThreadStates
<1>1. CASE UNCHANGED vars
  BY <1>1 DEF vars
<1>2. ASSUME NEW w \in Workers, Spawn(w) PROVE TypeOK'
  BY <1>2 DEF Spawn
<1>3. CASE SpawnFails
  BY <1>3 DEF SpawnFails
<1>4. ASSUME NEW s \in Sockets, Accept(s) PROVE TypeOK'
  BY <1>4 DEF Accept
<1>5. CASE AcceptFails
  BY <1>5 DEF AcceptFails
<1>6. CASE MainLock
  BY <1>6 DEF MainLock
<1>7. CASE Push
  BY <1>7 DEF Push, WakeOne, Waiting
<1>8. CASE Stop
  BY <1>8 DEF Stop, WakeAll, Waiting
<1>9. CASE Join
  BY <1>9 DEF Join, AllExited
<1>10. ASSUME NEW w \in Workers, WorkerLock(w) PROVE TypeOK'
  BY <1>10 DEF WorkerLock, MutexAvailable
<1>11. ASSUME NEW w \in Workers, Wait(w) PROVE TypeOK'
  BY <1>11 DEF Wait, MustWait
<1>12. ASSUME NEW w \in Workers, SpuriousWakeup(w) PROVE TypeOK'
  BY <1>12 DEF SpuriousWakeup
<1>13. ASSUME NEW w \in Workers, Exit(w) PROVE TypeOK'
  BY <1>13 DEF Exit, MayExit
<1>14. ASSUME NEW w \in Workers, Take(w) PROVE TypeOK'
  BY <1>14 DEF Take, Popped
<1>15. ASSUME NEW w \in Workers, Return(w) PROVE TypeOK'
  BY <1>15 DEF Return
<1>16. CASE Ended
  BY <1>16 DEF Ended, vars
<1> QED
  BY <1>1, <1>2, <1>3, <1>4, <1>5, <1>6, <1>7, <1>8, <1>9, <1>10, <1>11, <1>12, <1>13, <1>14, <1>15, <1>16 DEF Next, MainNext, WorkerNext

LEMMA LockStep ==
    ASSUME TypeOK, LockProtects, [Next]_vars
    PROVE  LockProtects'
<1> USE PoolAssumption DEF TypeOK, LockProtects
<1>1. CASE UNCHANGED vars
  BY <1>1 DEF vars
<1>2. ASSUME NEW w \in Workers, Spawn(w) PROVE LockProtects'
  BY <1>2 DEF Spawn
<1>3. CASE SpawnFails
  BY <1>3 DEF SpawnFails
<1>4. ASSUME NEW s \in Sockets, Accept(s) PROVE LockProtects'
  BY <1>4 DEF Accept
<1>5. CASE AcceptFails
  BY <1>5 DEF AcceptFails
<1>6. CASE MainLock
  BY <1>6 DEF MainLock
<1>7. CASE Push
  BY <1>7 DEF Push, WakeOne, Waiting
<1>8. CASE Stop
  BY <1>8 DEF Stop, WakeAll, Waiting
<1>9. CASE Join
  BY <1>9 DEF Join, AllExited
<1>10. ASSUME NEW w \in Workers, WorkerLock(w) PROVE LockProtects'
  BY <1>10 DEF WorkerLock, MutexAvailable
<1>11. ASSUME NEW w \in Workers, Wait(w) PROVE LockProtects'
  BY <1>11 DEF Wait, MustWait
<1>12. ASSUME NEW w \in Workers, SpuriousWakeup(w) PROVE LockProtects'
  BY <1>12 DEF SpuriousWakeup
<1>13. ASSUME NEW w \in Workers, Exit(w) PROVE LockProtects'
  BY <1>13 DEF Exit, MayExit
<1>14. ASSUME NEW w \in Workers, Take(w) PROVE LockProtects'
  BY <1>14 DEF Take, Popped
<1>15. ASSUME NEW w \in Workers, Return(w) PROVE LockProtects'
  BY <1>15 DEF Return
<1>16. CASE Ended
  BY <1>16 DEF Ended, vars
<1> QED
  BY <1>1, <1>2, <1>3, <1>4, <1>5, <1>6, <1>7, <1>8, <1>9, <1>10, <1>11, <1>12, <1>13, <1>14, <1>15, <1>16 DEF Next, MainNext, WorkerNext

LEMMA SleepStep ==
    ASSUME TypeOK, NoSleepAfterStop, ThreadStates, [Next]_vars
    PROVE  NoSleepAfterStop'
<1> USE PoolAssumption DEF TypeOK, NoSleepAfterStop, ThreadStates, Waiting
<1>1. CASE UNCHANGED vars
  BY <1>1 DEF vars
<1>2. ASSUME NEW w \in Workers, Spawn(w) PROVE NoSleepAfterStop'
  BY <1>2 DEF Spawn
<1>3. CASE SpawnFails
  BY <1>3 DEF SpawnFails
<1>4. ASSUME NEW s \in Sockets, Accept(s) PROVE NoSleepAfterStop'
  BY <1>4 DEF Accept
<1>5. CASE AcceptFails
  BY <1>5 DEF AcceptFails
<1>6. CASE MainLock
  BY <1>6 DEF MainLock
<1>7. CASE Push
  BY <1>7 DEF Push, WakeOne, Waiting
<1>8. CASE Stop
  BY <1>8 DEF Stop, WakeAll, Waiting
<1>9. CASE Join
  BY <1>9 DEF Join, AllExited
<1>10. ASSUME NEW w \in Workers, WorkerLock(w) PROVE NoSleepAfterStop'
  BY <1>10 DEF WorkerLock, MutexAvailable
<1>11. ASSUME NEW w \in Workers, Wait(w) PROVE NoSleepAfterStop'
  BY <1>11 DEF Wait, MustWait
<1>12. ASSUME NEW w \in Workers, SpuriousWakeup(w) PROVE NoSleepAfterStop'
  BY <1>12 DEF SpuriousWakeup
<1>13. ASSUME NEW w \in Workers, Exit(w) PROVE NoSleepAfterStop'
  BY <1>13 DEF Exit, MayExit
<1>14. ASSUME NEW w \in Workers, Take(w) PROVE NoSleepAfterStop'
  BY <1>14 DEF Take, Popped
<1>15. ASSUME NEW w \in Workers, Return(w) PROVE NoSleepAfterStop'
  BY <1>15 DEF Return
<1>16. CASE Ended
  BY <1>16 DEF Ended, vars
<1> QED
  BY <1>1, <1>2, <1>3, <1>4, <1>5, <1>6, <1>7, <1>8, <1>9, <1>10, <1>11, <1>12, <1>13, <1>14, <1>15, <1>16 DEF Next, MainNext, WorkerNext

LEMMA StatesStep ==
    ASSUME TypeOK, ThreadStates, [Next]_vars
    PROVE  ThreadStates'
<1> USE PoolAssumption DEF TypeOK, ThreadStates
<1>1. CASE UNCHANGED vars
  BY <1>1 DEF vars
<1>2. ASSUME NEW w \in Workers, Spawn(w) PROVE ThreadStates'
  BY <1>2 DEF Spawn
<1>3. CASE SpawnFails
  BY <1>3 DEF SpawnFails
<1>4. ASSUME NEW s \in Sockets, Accept(s) PROVE ThreadStates'
  BY <1>4 DEF Accept
<1>5. CASE AcceptFails
  BY <1>5 DEF AcceptFails
<1>6. CASE MainLock
  BY <1>6 DEF MainLock
<1>7. CASE Push
  BY <1>7 DEF Push, WakeOne, Waiting
<1>8. CASE Stop
  BY <1>8 DEF Stop, WakeAll, Waiting
<1>9. CASE Join
  BY <1>9 DEF Join, AllExited
<1>10. ASSUME NEW w \in Workers, WorkerLock(w) PROVE ThreadStates'
  BY <1>10 DEF WorkerLock, MutexAvailable
<1>11. ASSUME NEW w \in Workers, Wait(w) PROVE ThreadStates'
  BY <1>11 DEF Wait, MustWait
<1>12. ASSUME NEW w \in Workers, SpuriousWakeup(w) PROVE ThreadStates'
  BY <1>12 DEF SpuriousWakeup
<1>13. ASSUME NEW w \in Workers, Exit(w) PROVE ThreadStates'
  BY <1>13 DEF Exit, MayExit
<1>14. ASSUME NEW w \in Workers, Take(w) PROVE ThreadStates'
  BY <1>14 DEF Take, Popped
<1>15. ASSUME NEW w \in Workers, Return(w) PROVE ThreadStates'
  BY <1>15 DEF Return
<1>16. CASE Ended
  BY <1>16 DEF Ended, vars
<1> QED
  BY <1>1, <1>2, <1>3, <1>4, <1>5, <1>6, <1>7, <1>8, <1>9, <1>10, <1>11, <1>12, <1>13, <1>14, <1>15, <1>16 DEF Next, MainNext, WorkerNext

LEMMA WakeupStep ==
    ASSUME TypeOK, ThreadStates, NoSleepAfterStop, NoLostWakeup, [Next]_vars
    PROVE  NoLostWakeup'
<1> USE PoolAssumption DEF TypeOK, ThreadStates
<1>1. CASE UNCHANGED vars
  BY <1>1 DEF vars, Waiting, Awake, NoLostWakeup
<1>2. ASSUME NEW w \in Workers, Spawn(w) PROVE NoLostWakeup'
  <2>1. w \notin Awake /\ Awake' = Awake \cup {w} /\ Waiting' \subseteq Waiting
    BY <1>2 DEF Spawn, Awake, Waiting
  <2>2. Cardinality(Awake') = Cardinality(Awake) + 1 /\ Cardinality(Awake) \in Nat
    BY <2>1, OneMoreAwake, AwakeFinite
  <2>3. tasks' = tasks /\ Len(tasks) \in Nat
    BY <1>2 DEF Spawn, TypeOK
  <2> QED
    BY <2>1, <2>2, <2>3 DEF NoLostWakeup
<1>3. CASE SpawnFails
  <2>1. Awake' = Awake /\ Waiting' = Waiting
    BY <1>3 DEF SpawnFails, Awake, Waiting
  <2> QED
    BY <1>3, <2>1 DEF SpawnFails, NoLostWakeup
<1>4. ASSUME NEW s \in Sockets, Accept(s) PROVE NoLostWakeup'
  <2>1. Awake' = Awake /\ Waiting' = Waiting
    BY <1>4 DEF Accept, Awake, Waiting
  <2> QED
    BY <1>4, <2>1 DEF Accept, NoLostWakeup
<1>5. CASE AcceptFails
  <2>1. Awake' = Awake /\ Waiting' = Waiting
    BY <1>5 DEF AcceptFails, Awake, Waiting
  <2> QED
    BY <1>5, <2>1 DEF AcceptFails, NoLostWakeup
<1>6. CASE MainLock
  <2>1. Awake' = Awake /\ Waiting' = Waiting
    BY <1>6 DEF MainLock, Awake, Waiting
  <2> QED
    BY <1>6, <2>1 DEF MainLock, NoLostWakeup
<1>7. CASE Push
  <2>1. CASE wpc' = wpc /\ Waiting = {}
    BY <1>7, <2>1 DEF Waiting, NoLostWakeup
  <2>2. ASSUME NEW w \in Waiting, wpc' = [wpc EXCEPT ![w] = "lock"]
        PROVE  NoLostWakeup'
    <3>1. w \in Workers /\ w \notin Awake /\ Awake' = Awake \cup {w} /\ Waiting # {}
      BY <2>2 DEF Awake, Waiting
    <3>2. Len(tasks') = Len(tasks) + 1 /\ Len(tasks) \in Nat
      BY <1>7 DEF Push
    <3>3. Cardinality(Awake') = Cardinality(Awake) + 1 /\ Cardinality(Awake) \in Nat
      BY <3>1, OneMoreAwake, AwakeFinite
    <3> QED
      BY <3>1, <3>2, <3>3 DEF NoLostWakeup
  <2> QED
    BY <1>7, <2>1, <2>2 DEF Push, WakeOne
<1>8. CASE Stop
  BY <1>8 DEF Stop, WakeAll, Waiting, NoLostWakeup
<1>9. CASE Join
  <2>1. Awake' = Awake /\ Waiting' = Waiting
    BY <1>9 DEF Join, Awake, Waiting
  <2> QED
    BY <1>9, <2>1 DEF Join, NoLostWakeup
<1>10. ASSUME NEW w \in Workers, WorkerLock(w) PROVE NoLostWakeup'
  <2>1. Awake' = Awake /\ Waiting' = Waiting
    BY <1>10 DEF WorkerLock, Awake, Waiting
  <2> QED
    BY <1>10, <2>1 DEF WorkerLock, NoLostWakeup
<1>11. ASSUME NEW w \in Workers, Wait(w) PROVE NoLostWakeup'
  <2>1. Len(tasks') = 0
    BY <1>11 DEF Wait, MustWait
  <2>2. Cardinality(Awake') \in Nat
    BY TypeStep, AwakeFiniteNext
  <2> QED
    BY <2>1, <2>2 DEF NoLostWakeup
<1>12. ASSUME NEW w \in Workers, SpuriousWakeup(w) PROVE NoLostWakeup'
  <2>1. w \notin Awake /\ Awake' = Awake \cup {w} /\ Waiting' \subseteq Waiting
    BY <1>12 DEF SpuriousWakeup, Awake, Waiting
  <2>2. Cardinality(Awake') = Cardinality(Awake) + 1 /\ Cardinality(Awake) \in Nat
    BY <2>1, OneMoreAwake, AwakeFinite
  <2>3. tasks' = tasks /\ Len(tasks) \in Nat
    BY <1>12 DEF SpuriousWakeup, TypeOK
  <2> QED
    BY <2>1, <2>2, <2>3 DEF NoLostWakeup
<1>13. ASSUME NEW w \in Workers, Exit(w) PROVE NoLostWakeup'
  <2>1. Waiting' \subseteq Waiting /\ stop
    BY <1>13 DEF Exit, MayExit, Waiting
  <2> QED
    BY <2>1 DEF NoSleepAfterStop, NoLostWakeup
<1>14. ASSUME NEW w \in Workers, Take(w) PROVE NoLostWakeup'
  <2>1. w \in Awake /\ Awake' = Awake \ {w} /\ Waiting' = Waiting
    BY <1>14 DEF Take, Awake, Waiting
  <2>2. Len(tasks') = Len(tasks) - 1 /\ Len(tasks) \in Nat
    BY <1>14 DEF Take, Popped
  <2>3. Cardinality(Awake') = Cardinality(Awake) - 1 /\ Cardinality(Awake) \in Nat
    BY <2>1, OneLessAwake, AwakeFinite
  <2> QED
    BY <2>1, <2>2, <2>3 DEF NoLostWakeup
<1>15. ASSUME NEW w \in Workers, Return(w) PROVE NoLostWakeup'
  <2>1. w \notin Awake /\ Awake' = Awake \cup {w} /\ Waiting' \subseteq Waiting
    BY <1>15 DEF Return, Awake, Waiting
  <2>2. Cardinality(Awake') = Cardinality(Awake) + 1 /\ Cardinality(Awake) \in Nat
    BY <2>1, OneMoreAwake, AwakeFinite
  <2>3. tasks' = tasks /\ Len(tasks) \in Nat
    BY <1>15 DEF Return, TypeOK
  <2> QED
    BY <2>1, <2>2, <2>3 DEF NoLostWakeup
<1>16. CASE Ended
  BY <1>16 DEF Ended, vars, Waiting, Awake, NoLostWakeup
<1> QED
  BY <1>1, <1>2, <1>3, <1>4, <1>5, <1>6, <1>7, <1>8, <1>9, <1>10, <1>11, <1>12, <1>13, <1>14, <1>15, <1>16 DEF Next, MainNext, WorkerNext

-----------------------------------------------------------------------------
(* Where the connections are. *)

\* push() adds the connection being enqueued and keeps those queued before.
LEMMA PushQueue ==
    ASSUME TypeOK, Push
    PROVE  InQueue' = InQueue \cup {client}
<1>1. Len(tasks') = Len(tasks) + 1 /\ Len(tasks) \in Nat
  BY DEF TypeOK, Push
<1>2. \A i \in 1..Len(tasks) : tasks'[i] = tasks[i]
  BY DEF TypeOK, Push
<1>3. tasks'[Len(tasks) + 1] = client
  BY DEF TypeOK, Push
<1> QED
  BY <1>1, <1>2, <1>3 DEF InQueue

\* front() and pop() take the oldest connection and keep the others.
LEMMA TakeQueue ==
    ASSUME TypeOK, NEW w \in Workers, Take(w)
    PROVE  InQueue = InQueue' \cup {Head(tasks)}
<1>1. tasks' = Tail(tasks) /\ tasks # <<>> /\ tasks \in Seq(Sockets)
  BY DEF TypeOK, Take, Popped
<1>2. Len(tasks') = Len(tasks) - 1 /\ Len(tasks) \in Nat \ {0}
  BY <1>1
<1>3. \A i \in 1..Len(tasks') : tasks'[i] = tasks[i + 1]
  BY <1>1
<1>4. tasks[1] = Head(tasks)
  BY <1>1
<1>5. ASSUME NEW x \in InQueue PROVE x \in InQueue' \cup {Head(tasks)}
  <2>1. PICK i \in 1..Len(tasks) : x = tasks[i]
    BY <1>5 DEF InQueue
  <2>2. CASE i = 1
    BY <2>1, <2>2, <1>4
  <2>3. CASE i # 1
    <3>1. i - 1 \in 1..Len(tasks') /\ tasks'[i - 1] = tasks[i]
      BY <2>3, <1>2, <1>3
    <3> QED
      BY <3>1, <2>1 DEF InQueue
  <2> QED
    BY <2>2, <2>3
<1>6. ASSUME NEW x \in InQueue' PROVE x \in InQueue
  <2>1. PICK i \in 1..Len(tasks') : x = tasks'[i]
    BY <1>6 DEF InQueue
  <2>2. i + 1 \in 1..Len(tasks) /\ tasks[i + 1] = x
    BY <2>1, <1>2, <1>3
  <2> QED
    BY <2>2 DEF InQueue
<1>7. Head(tasks) \in InQueue
  BY <1>2, <1>4 DEF InQueue
<1> QED
  BY <1>5, <1>6, <1>7

LEMMA TakeService ==
    ASSUME TypeOK, ThreadStates, NEW w \in Workers, Take(w)
    PROVE  Head(tasks) \in Sockets /\ InService' = InService \cup {Head(tasks)}
<1>1. Head(tasks) \in Sockets /\ Head(tasks) # NoSocket
  BY PoolAssumption DEF TypeOK, Take
<1>2. socket' = [socket EXCEPT ![w] = Head(tasks)] /\ socket[w] = NoSocket
  BY DEF TypeOK, ThreadStates, Take
<1> QED
  BY <1>1, <1>2 DEF InService, TypeOK

LEMMA ReturnService ==
    ASSUME TypeOK, ThreadStates, EachOnce, NEW w \in Workers, Return(w)
    PROVE  /\ socket[w] \in InService
           /\ InService' = InService \ {socket[w]}
<1>1. socket' = [socket EXCEPT ![w] = NoSocket] /\ socket[w] # NoSocket
  BY DEF TypeOK, ThreadStates, Return
<1>2. \A v \in Workers : socket[v] = socket[w] => v = w
  BY <1>1 DEF EachOnce
<1> QED
  BY <1>1, <1>2 DEF InService, TypeOK

LEMMA AccountedStep ==
    ASSUME TypeOK, ThreadStates, EachOnce, Accounted, [Next]_vars
    PROVE  Accounted'
<1>1. CASE UNCHANGED vars
  BY <1>1 DEF vars, InQueue, InService, Accounted
<1>2. ASSUME NEW w \in Workers, Spawn(w) PROVE Accounted'
  <2>1. InQueue' = InQueue /\ InService' = InService
    BY <1>2 DEF Spawn, InQueue, InService
  <2> QED
    BY <1>2, <2>1 DEF Spawn, Accounted
<1>3. CASE SpawnFails
  <2>1. InQueue' = InQueue /\ InService' = InService
    BY <1>3 DEF SpawnFails, InQueue, InService
  <2> QED
    BY <1>3, <2>1 DEF SpawnFails, Accounted
<1>4. ASSUME NEW s \in Sockets, Accept(s) PROVE Accounted'
  <2>1. InQueue' = InQueue /\ InService' = InService
    BY <1>4 DEF Accept, InQueue, InService
  <2>2. client = NoSocket /\ client' = s /\ s # NoSocket
    BY <1>4, PoolAssumption DEF Accept, ThreadStates
  <2>3. Sockets \ fresh' = (Sockets \ fresh) \cup {s}
    BY <1>4 DEF Accept
  <2> QED
    BY <1>4, <2>1, <2>2, <2>3 DEF Accept, Accounted
<1>5. CASE AcceptFails
  <2>1. InQueue' = InQueue /\ InService' = InService
    BY <1>5 DEF AcceptFails, InQueue, InService
  <2> QED
    BY <1>5, <2>1 DEF AcceptFails, Accounted
<1>6. CASE MainLock
  <2>1. InQueue' = InQueue /\ InService' = InService
    BY <1>6 DEF MainLock, InQueue, InService
  <2> QED
    BY <1>6, <2>1 DEF MainLock, Accounted
<1>7. CASE Push
  <2>1. InService' = InService
    BY <1>7 DEF Push, InService
  <2>2. client # NoSocket /\ client' = NoSocket
    BY <1>7 DEF Push, ThreadStates
  <2>3. InQueue' = InQueue \cup {client}
    BY <1>7, PushQueue
  <2> QED
    BY <1>7, <2>1, <2>2, <2>3 DEF Push, Accounted
<1>8. CASE Stop
  <2>1. InQueue' = InQueue /\ InService' = InService
    BY <1>8 DEF Stop, WakeAll, Waiting, InQueue, InService
  <2> QED
    BY <1>8, <2>1 DEF Stop, WakeAll, Waiting, Accounted
<1>9. CASE Join
  <2>1. InQueue' = InQueue /\ InService' = InService
    BY <1>9 DEF Join, AllExited, InQueue, InService
  <2> QED
    BY <1>9, <2>1 DEF Join, AllExited, Accounted
<1>10. ASSUME NEW w \in Workers, WorkerLock(w) PROVE Accounted'
  <2>1. InQueue' = InQueue /\ InService' = InService
    BY <1>10 DEF WorkerLock, MutexAvailable, InQueue, InService
  <2> QED
    BY <1>10, <2>1 DEF WorkerLock, MutexAvailable, Accounted
<1>11. ASSUME NEW w \in Workers, Wait(w) PROVE Accounted'
  <2>1. InQueue' = InQueue /\ InService' = InService
    BY <1>11 DEF Wait, MustWait, InQueue, InService
  <2> QED
    BY <1>11, <2>1 DEF Wait, MustWait, Accounted
<1>12. ASSUME NEW w \in Workers, SpuriousWakeup(w) PROVE Accounted'
  <2>1. InQueue' = InQueue /\ InService' = InService
    BY <1>12 DEF SpuriousWakeup, InQueue, InService
  <2> QED
    BY <1>12, <2>1 DEF SpuriousWakeup, Accounted
<1>13. ASSUME NEW w \in Workers, Exit(w) PROVE Accounted'
  <2>1. InQueue' = InQueue /\ InService' = InService
    BY <1>13 DEF Exit, MayExit, InQueue, InService
  <2> QED
    BY <1>13, <2>1 DEF Exit, MayExit, Accounted
<1>14. ASSUME NEW w \in Workers, Take(w) PROVE Accounted'
  <2>1. InQueue = InQueue' \cup {Head(tasks)} /\ InService' = InService \cup {Head(tasks)}
    BY <1>14, TakeQueue, TakeService
  <2> QED
    BY <1>14, <2>1 DEF Take, Accounted
<1>15. ASSUME NEW w \in Workers, Return(w) PROVE Accounted'
  <2>1. InQueue' = InQueue
    BY <1>15 DEF Return, InQueue
  <2>2. socket[w] \in InService /\ InService' = InService \ {socket[w]}
    BY <1>15, ReturnService
  <2> QED
    BY <1>15, <2>1, <2>2 DEF Return, Accounted
<1>16. CASE Ended
  BY <1>16 DEF Ended, vars, InQueue, InService, Accounted
<1> QED
  BY <1>1, <1>2, <1>3, <1>4, <1>5, <1>6, <1>7, <1>8, <1>9, <1>10, <1>11, <1>12, <1>13, <1>14, <1>15, <1>16 DEF Next, MainNext, WorkerNext

LEMMA OnceStep ==
    ASSUME TypeOK, ThreadStates, Accounted, EachOnce, [Next]_vars
    PROVE  EachOnce'
<1>1. CASE UNCHANGED vars
  BY <1>1 DEF vars, InQueue, InService, EachOnce
<1>2. ASSUME NEW w \in Workers, Spawn(w) PROVE EachOnce'
  <2>1. InQueue' = InQueue /\ InService' = InService
    BY <1>2 DEF Spawn, InQueue, InService
  <2> QED
    BY <1>2, <2>1 DEF Spawn, EachOnce
<1>3. CASE SpawnFails
  <2>1. InQueue' = InQueue /\ InService' = InService
    BY <1>3 DEF SpawnFails, InQueue, InService
  <2> QED
    BY <1>3, <2>1 DEF SpawnFails, EachOnce
<1>4. ASSUME NEW s \in Sockets, Accept(s) PROVE EachOnce'
  <2>1. InQueue' = InQueue /\ InService' = InService
    BY <1>4 DEF Accept, InQueue, InService
  <2>2. client' = s /\ s \notin served \cup InQueue \cup InService
    BY <1>4 DEF Accept, Accounted
  <2> QED
    BY <1>4, <2>1, <2>2 DEF Accept, EachOnce
<1>5. CASE AcceptFails
  <2>1. InQueue' = InQueue /\ InService' = InService
    BY <1>5 DEF AcceptFails, InQueue, InService
  <2> QED
    BY <1>5, <2>1 DEF AcceptFails, EachOnce
<1>6. CASE MainLock
  <2>1. InQueue' = InQueue /\ InService' = InService
    BY <1>6 DEF MainLock, InQueue, InService
  <2> QED
    BY <1>6, <2>1 DEF MainLock, EachOnce
<1>7. CASE Push
  <2>1. InService' = InService /\ InQueue' = InQueue \cup {client}
    BY <1>7, PushQueue DEF Push, InService
  <2>2. client \in Sockets /\ client' = NoSocket
    BY <1>7 DEF Push, ThreadStates, TypeOK
  <2>3. NoSocket \notin InQueue' \cup InService' \cup served'
    BY <1>7, <2>1, <2>2, PoolAssumption DEF Push, InQueue, InService, TypeOK
  <2>4. ASSUME NEW i \in 1..Len(tasks'), NEW j \in 1..Len(tasks'), tasks'[i] = tasks'[j]
        PROVE  i = j
    <3>1. Len(tasks') = Len(tasks) + 1 /\ Len(tasks) \in Nat
      BY <1>7 DEF Push, TypeOK
    <3>2. \A k \in 1..Len(tasks) : tasks'[k] = tasks[k] /\ tasks[k] \in InQueue
      BY <1>7 DEF Push, TypeOK, InQueue
    <3>3. tasks'[Len(tasks) + 1] = client /\ client \notin InQueue
      BY <1>7 DEF Push, TypeOK, EachOnce
    <3> QED
      BY <2>4, <3>1, <3>2, <3>3 DEF EachOnce
  <2> QED
    BY <1>7, <2>1, <2>2, <2>3, <2>4 DEF Push, EachOnce
<1>8. CASE Stop
  <2>1. InQueue' = InQueue /\ InService' = InService
    BY <1>8 DEF Stop, WakeAll, Waiting, InQueue, InService
  <2> QED
    BY <1>8, <2>1 DEF Stop, WakeAll, Waiting, EachOnce
<1>9. CASE Join
  <2>1. InQueue' = InQueue /\ InService' = InService
    BY <1>9 DEF Join, AllExited, InQueue, InService
  <2> QED
    BY <1>9, <2>1 DEF Join, AllExited, EachOnce
<1>10. ASSUME NEW w \in Workers, WorkerLock(w) PROVE EachOnce'
  <2>1. InQueue' = InQueue /\ InService' = InService
    BY <1>10 DEF WorkerLock, MutexAvailable, InQueue, InService
  <2> QED
    BY <1>10, <2>1 DEF WorkerLock, MutexAvailable, EachOnce
<1>11. ASSUME NEW w \in Workers, Wait(w) PROVE EachOnce'
  <2>1. InQueue' = InQueue /\ InService' = InService
    BY <1>11 DEF Wait, MustWait, InQueue, InService
  <2> QED
    BY <1>11, <2>1 DEF Wait, MustWait, EachOnce
<1>12. ASSUME NEW w \in Workers, SpuriousWakeup(w) PROVE EachOnce'
  <2>1. InQueue' = InQueue /\ InService' = InService
    BY <1>12 DEF SpuriousWakeup, InQueue, InService
  <2> QED
    BY <1>12, <2>1 DEF SpuriousWakeup, EachOnce
<1>13. ASSUME NEW w \in Workers, Exit(w) PROVE EachOnce'
  <2>1. InQueue' = InQueue /\ InService' = InService
    BY <1>13 DEF Exit, MayExit, InQueue, InService
  <2> QED
    BY <1>13, <2>1 DEF Exit, MayExit, EachOnce
<1>14. ASSUME NEW w \in Workers, Take(w) PROVE EachOnce'
  <2>1. InQueue = InQueue' \cup {Head(tasks)} /\ InService' = InService \cup {Head(tasks)}
    BY <1>14, TakeQueue, TakeService
  <2>2. tasks' = Tail(tasks) /\ tasks # <<>> /\ tasks \in Seq(Sockets)
    BY <1>14 DEF Take, Popped, TypeOK
  <2>3. Len(tasks') = Len(tasks) - 1 /\ Len(tasks) \in Nat \ {0}
    BY <2>2
  <2>4. \A i \in 1..Len(tasks') : tasks'[i] = tasks[i + 1] /\ i + 1 \in 1..Len(tasks)
    BY <2>2, <2>3
  <2>5. Head(tasks) = tasks[1] /\ 1 \in 1..Len(tasks)
    BY <2>2, <2>3
  <2>6. Head(tasks) \notin InQueue'
    BY <2>3, <2>4, <2>5 DEF EachOnce, InQueue
  <2>7. \A i, j \in 1..Len(tasks') : tasks'[i] = tasks'[j] => i = j
    BY <2>3, <2>4 DEF EachOnce
  <2>8. \A u, v \in Workers : socket'[u] = socket'[v] /\ socket'[u] # NoSocket => u = v
    <3>1. socket' = [socket EXCEPT ![w] = Head(tasks)] /\ Head(tasks) \notin InService
      BY <1>14, <2>1 DEF Take, EachOnce
    <3>2. \A v \in Workers : socket[v] # Head(tasks)
      BY <3>1, TakeService, <1>14, PoolAssumption DEF InService
    <3> QED
      BY <3>1, <3>2 DEF TypeOK, EachOnce
  <2> QED
    BY <1>14, <2>1, <2>6, <2>7, <2>8 DEF Take, EachOnce
<1>15. ASSUME NEW w \in Workers, Return(w) PROVE EachOnce'
  <2>1. InQueue' = InQueue
    BY <1>15 DEF Return, InQueue
  <2>2. socket[w] \in InService /\ InService' = InService \ {socket[w]}
    BY <1>15, ReturnService
  <2>3. \A u, v \in Workers : socket'[u] = socket'[v] /\ socket'[u] # NoSocket => u = v
    BY <1>15 DEF Return, EachOnce, TypeOK
  <2> QED
    BY <1>15, <2>1, <2>2, <2>3 DEF Return, EachOnce
<1>16. CASE Ended
  BY <1>16 DEF Ended, vars, InQueue, InService, EachOnce
<1> QED
  BY <1>1, <1>2, <1>3, <1>4, <1>5, <1>6, <1>7, <1>8, <1>9, <1>10, <1>11, <1>12, <1>13, <1>14, <1>15, <1>16 DEF Next, MainNext, WorkerNext

-----------------------------------------------------------------------------
LEMMA Invariance == Spec => []IInv
<1>1. ASSUME IInv, [Next]_vars PROVE IInv'
  BY <1>1, TypeStep, LockStep, SleepStep, StatesStep, WakeupStep, AccountedStep,
     OnceStep DEF IInv
<1> QED
  BY InitIInv, <1>1, PTL DEF Spec

\* The threads' states and the queue have the types the code declares.
THEOREM TypeCorrect == Spec => []TypeOK
BY Invariance, PTL DEF IInv

\* The critical sections of enqueue, shutdown and worker exclude each other.
THEOREM MutualExclusion == Spec => []LockProtects
BY Invariance, PTL DEF IInv

\* One pthread_cond_signal per enqueue loses no wakeup, however many workers
\* and connections there are and however often a wakeup is spurious.
THEOREM WakeupsSuffice == Spec => []NoLostWakeup
BY Invariance, PTL DEF IInv

\* No worker sleeps once stop is set.
THEOREM StopReachesAll == Spec => []NoSleepAfterStop
BY Invariance, PTL DEF IInv

\* The states of the threads agree with the state they share.
THEOREM StatesAgree == Spec => []ThreadStates
BY Invariance, PTL DEF IInv

\* No accepted connection is lost.
THEOREM NothingLost == Spec => []Accounted
BY Invariance, PTL DEF IInv

\* No accepted connection is queued or served twice.
THEOREM NothingTwice == Spec => []EachOnce
BY Invariance, PTL DEF IInv

\* The destructor returns only when every accepted connection was served.
THEOREM ShutdownDrains == Spec => []DrainedAtJoin
<1>1. ASSUME IInv PROVE DrainedAtJoin
  <2>1. SUFFICES ASSUME main = "joined" PROVE tasks = <<>> /\ served = Sockets \ fresh
    BY DEF DrainedAtJoin
  <2>2. \A w \in Workers : wpc[w] = "exit"
    BY <1>1, <2>1 DEF IInv, ThreadStates
  <2>3. tasks = <<>>
    BY <1>1, <2>2, PoolAssumption DEF IInv, ThreadStates
  <2>4. InService = {}
    BY <1>1, <2>2 DEF IInv, ThreadStates, InService
  <2>5. client = NoSocket
    BY <1>1, <2>1 DEF IInv, ThreadStates
  <2>6. InQueue = {}
    BY <2>3 DEF InQueue
  <2> QED
    BY <1>1, <2>3, <2>4, <2>5, <2>6 DEF IInv, Accounted
<1> QED
  BY Invariance, <1>1, PTL

-----------------------------------------------------------------------------
(* ThreadPool implements the safety of TaskPool. *)

\* A worker about to take a connection leaves room: the others serve at most
\* one connection each.
LEMMA RoomToServe ==
    ASSUME IInv, NEW w \in Workers, wpc[w] # "serve"
    PROVE  Cardinality(InService) < Cardinality(Workers)
<1> DEFINE Serving == {v \in Workers : wpc[v] = "serve"}
           f == [v \in Serving |-> socket[v]]
<1>1. IsFiniteSet(Workers \ {w}) /\ Cardinality(Workers \ {w}) = Cardinality(Workers) - 1
  BY PoolAssumption, FS_RemoveElement
<1>2. Serving \subseteq Workers \ {w}
  OBVIOUS
<1>3. IsFiniteSet(Serving) /\ Cardinality(Serving) <= Cardinality(Workers \ {w})
  BY <1>1, <1>2, FS_Subset
<1>4. InService = {socket[v] : v \in Serving}
  BY DEF InService, IInv, ThreadStates
<1>5. f \in Surjection(Serving, InService)
  BY <1>4 DEF Surjection
<1>6. IsFiniteSet(InService) /\ Cardinality(InService) <= Cardinality(Serving)
  BY <1>3, <1>5, FS_Surjection
<1>7. /\ Cardinality(InService) \in Nat
      /\ Cardinality(Serving) \in Nat
      /\ Cardinality(Workers) \in Nat
  BY <1>3, <1>6, PoolAssumption, FS_CardinalityType
<1> QED
  BY <1>1, <1>3, <1>6, <1>7

LEMMA QueuedIsInQueue == Pool!Queued = InQueue
BY DEF Pool!Queued, InQueue

LEMMA SameCardinality == ASSUME NEW S PROVE Pool!Cardinality(S) = Cardinality(S)
BY DEF Pool!Cardinality, Cardinality

LEMMA StepRefines ==
    ASSUME IInv, [Next]_vars
    PROVE  [Pool!PoolNext]_(Pool!poolVars)
<1> USE DEF Pool!poolVars
<1>1. CASE UNCHANGED vars
  BY <1>1 DEF vars, InService
<1>2. ASSUME NEW w \in Workers, Spawn(w) PROVE [Pool!PoolNext]_(Pool!poolVars)
  BY <1>2 DEF Spawn, InService
<1>3. CASE SpawnFails
  BY <1>3 DEF SpawnFails, InService
<1>4. ASSUME NEW s \in Sockets, Accept(s) PROVE [Pool!PoolNext]_(Pool!poolVars)
  BY <1>4 DEF Accept, InService
<1>5. CASE AcceptFails
  BY <1>5 DEF AcceptFails, InService
<1>6. CASE MainLock
  BY <1>6 DEF MainLock, InService
<1>7. CASE Push
  <2>1. client \in Sockets /\ InService' = InService
    BY <1>7 DEF Push, IInv, TypeOK, ThreadStates, InService
  <2>2. client \notin Pool!Queued \cup InService \cup served
    BY QueuedIsInQueue DEF IInv, EachOnce
  <2>3. Pool!Submit(client)
    BY <1>7, <2>1, <2>2 DEF Push, Pool!Submit
  <2> QED
    BY <2>1, <2>3 DEF Pool!PoolNext
<1>8. CASE Stop
  BY <1>8 DEF Stop, WakeAll, Waiting, InService
<1>9. CASE Join
  BY <1>9 DEF Join, AllExited, InService
<1>10. ASSUME NEW w \in Workers, WorkerLock(w) PROVE [Pool!PoolNext]_(Pool!poolVars)
  BY <1>10 DEF WorkerLock, MutexAvailable, InService
<1>11. ASSUME NEW w \in Workers, Wait(w) PROVE [Pool!PoolNext]_(Pool!poolVars)
  BY <1>11 DEF Wait, MustWait, InService
<1>12. ASSUME NEW w \in Workers, SpuriousWakeup(w) PROVE [Pool!PoolNext]_(Pool!poolVars)
  BY <1>12 DEF SpuriousWakeup, InService
<1>13. ASSUME NEW w \in Workers, Exit(w) PROVE [Pool!PoolNext]_(Pool!poolVars)
  BY <1>13 DEF Exit, MayExit, InService
<1>14. ASSUME NEW w \in Workers, Take(w) PROVE [Pool!PoolNext]_(Pool!poolVars)
  <2>1. Head(tasks) \in Sockets /\ InService' = InService \cup {Head(tasks)}
    BY <1>14, TakeService DEF IInv
  <2>2. Cardinality(InService) < Cardinality(Workers)
    BY <1>14, RoomToServe DEF Take
  <2>3. Pool!Start(Head(tasks))
    <3>1. tasks # <<>> /\ tasks' = Tail(tasks) /\ UNCHANGED served
      BY <1>14 DEF Take, Popped
    <3> QED
      BY <2>1, <2>2, <3>1, SameCardinality DEF Pool!Start
  <2> QED
    BY <2>1, <2>3 DEF Pool!PoolNext
<1>15. ASSUME NEW w \in Workers, Return(w) PROVE [Pool!PoolNext]_(Pool!poolVars)
  <2>1. socket[w] \in InService /\ InService' = InService \ {socket[w]}
    BY <1>15, ReturnService DEF IInv
  <2>2. socket[w] \in Sockets
    BY <2>1 DEF InService, IInv, TypeOK
  <2>3. Pool!Finish(socket[w])
    BY <1>15, <2>1 DEF Return, Pool!Finish
  <2> QED
    BY <2>2, <2>3 DEF Pool!PoolNext
<1>16. CASE Ended
  BY <1>16 DEF Ended, vars, InService
<1> QED
  BY <1>1, <1>2, <1>3, <1>4, <1>5, <1>6, <1>7, <1>8, <1>9, <1>10, <1>11, <1>12, <1>13, <1>14, <1>15, <1>16 DEF Next, MainNext, WorkerNext

\* Connections are served in the order of their enqueue(), each once, at most
\* one per thread of the pool.
THEOREM ImplementsPoolSafety == Spec => Pool!PoolSafety
<1>1. Init => Pool!PoolInit
  BY DEF Init, Pool!PoolInit, InService
<1> QED
  BY Invariance, StepRefines, <1>1, PTL DEF Spec, Pool!PoolSafety
=============================================================================
