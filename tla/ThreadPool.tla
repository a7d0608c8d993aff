----------------------------- MODULE ThreadPool -----------------------------
(***************************************************************************)
(* osi/ThreadPool.cpp (tcp_pthread/ThreadPool.cpp is the same file) with   *)
(* the one thread that uses it: the constructor loop of Server, which      *)
(* accepts connections and enqueues them until accept() fails, and then    *)
(* destroys the pool.                                                      *)
(*                                                                         *)
(* Every critical section of the pool's mutex is two steps, taking the     *)
(* lock and doing the work up to the unlock or the wait, so that threads   *)
(* compete for the lock as they do in the program.                         *)
(***************************************************************************)
EXTENDS Naturals, Sequences, FiniteSets

CONSTANTS
    Workers,      \* the num_threads threads of the pool
    Sockets,      \* the connections accept() will return, each once
    Main,         \* the accepting thread
    Free,         \* the value of mutex when nobody holds it
    NoSocket,     \* "no socket" in a local variable
    MaxSpurious   \* bound: wakeups of pthread_cond_wait without a signal

ASSUME PoolAssumption ==
    /\ IsFiniteSet(Workers)
    /\ Workers # {}
    /\ Main \notin Workers
    /\ Free \notin Workers \cup {Main}
    /\ NoSocket \notin Sockets
    /\ MaxSpurious \in Nat

VARIABLES
    tasks,        \* ThreadPool::tasks
    stop,         \* ThreadPool::stop
    mutex,        \* the holder of ThreadPool::mutex, or Free
    main,         \* where the accepting thread is
    client,       \* its local `client`, the connection being enqueued
    wpc,          \* where each worker is
    socket,       \* each worker's local `socket`, the connection it serves
    fresh,        \* connections not accepted yet
    served,       \* connections whose handler has returned
    spurious      \* spurious wakeups so far

vars == <<tasks, stop, mutex, main, client, wpc, socket, fresh, served, spurious>>

\* The threads blocked in pthread_cond_wait.
Waiting == {w \in Workers : wpc[w] = "wait"}

\* The workers that will look at the queue again without being signalled.
Awake == {w \in Workers : wpc[w] \in {"lock", "test"}}

Init ==
    /\ tasks = <<>>
    /\ stop = FALSE
    /\ mutex = Free
    /\ main = "spawn"
    /\ client = NoSocket
    /\ wpc = [w \in Workers |-> "unborn"]
    /\ socket = [w \in Workers |-> NoSocket]
    /\ fresh = Sockets
    /\ served = {}
    /\ spurious = 0

-----------------------------------------------------------------------------
(* The accepting thread. *)

\* One pthread_create of the constructor; the last one ends the loop.
Spawn(w) ==
    /\ main = "spawn"
    /\ wpc[w] = "unborn"
    /\ wpc' = [wpc EXCEPT ![w] = "lock"]
    /\ main' = IF \E v \in Workers \ {w} : wpc[v] = "unborn" THEN "spawn" ELSE "accept"
    /\ UNCHANGED <<tasks, stop, mutex, client, socket, fresh, served, spurious>>

\* pthread_create fails: the constructor throws and the program is on its way
\* out, with the threads created so far still running and nothing enqueued.
SpawnFails ==
    /\ main = "spawn"
    /\ main' = "failed"
    /\ UNCHANGED <<tasks, stop, mutex, client, wpc, socket, fresh, served, spurious>>

Accept(s) ==
    /\ main = "accept"
    /\ s \in fresh
    /\ fresh' = fresh \ {s}
    /\ client' = s
    /\ main' = "enqueue"
    /\ UNCHANGED <<tasks, stop, mutex, wpc, socket, served, spurious>>

\* FAULT: nobody looks at what accept() returns.
UncheckedAccept ==
    /\ main = "accept"
    /\ main' = "enqueue"
    /\ UNCHANGED <<tasks, stop, mutex, client, wpc, socket, fresh, served, spurious>>

\* accept() fails: the exception leaves the constructor of Server, which
\* destroys the pool.
AcceptFails ==
    /\ main = "accept"
    /\ main' = "shutdown"
    /\ UNCHANGED <<tasks, stop, mutex, client, wpc, socket, fresh, served, spurious>>

MainLock ==
    /\ main \in {"enqueue", "shutdown"}
    /\ mutex = Free
    /\ mutex' = Main
    /\ main' = IF main = "enqueue" THEN "push" ELSE "stopping"
    /\ UNCHANGED <<tasks, stop, client, wpc, socket, fresh, served, spurious>>

\* FAULT: the signal is forgotten.
WakeNone == wpc' = wpc

\* FAULT: the broadcast of shutdown is a signal.
WakeAny ==
    IF Waiting = {} THEN wpc' = wpc
    ELSE \E w \in Waiting : wpc' = [wpc EXCEPT ![w] = "lock"]

\* pthread_cond_signal: one waiter, if there is one, goes to take the lock.
WakeOne ==
    \/ /\ Waiting = {}
       /\ wpc' = wpc
    \/ \E w \in Waiting : wpc' = [wpc EXCEPT ![w] = "lock"]

\* pthread_cond_broadcast.
WakeAll ==
    wpc' = [w \in Workers |-> IF w \in Waiting THEN "lock" ELSE wpc[w]]

\* The rest of enqueue(): push, signal, unlock.
Push ==
    /\ main = "push"
    /\ tasks' = Append(tasks, client)
    /\ client' = NoSocket
    /\ WakeOne
    /\ mutex' = Free
    /\ main' = "accept"
    /\ UNCHANGED <<stop, socket, fresh, served, spurious>>

\* The locked part of shutdown(): stop, broadcast, unlock.
Stop ==
    /\ main = "stopping"
    /\ stop' = TRUE
    /\ WakeAll
    /\ mutex' = Free
    /\ main' = "join"
    /\ UNCHANGED <<tasks, client, socket, fresh, served, spurious>>

\* The condition on which the pthread_join loop returns.
AllExited == \A w \in Workers : wpc[w] = "exit"

Join ==
    /\ main = "join"
    /\ AllExited
    /\ main' = "joined"
    /\ UNCHANGED <<tasks, stop, mutex, client, wpc, socket, fresh, served, spurious>>

-----------------------------------------------------------------------------
(* worker(): the loop of a pool thread. *)

MutexAvailable(w) == mutex = Free

WorkerLock(w) ==
    /\ wpc[w] = "lock"
    /\ MutexAvailable(w)
    /\ mutex' = w
    /\ wpc' = [wpc EXCEPT ![w] = "test"]
    /\ UNCHANGED <<tasks, stop, main, client, socket, fresh, served, spurious>>

\* The condition of the inner while.
MustWait == tasks = <<>> /\ ~stop

\* pthread_cond_wait: the lock is released and the thread waits, atomically.
Wait(w) ==
    /\ wpc[w] = "test"
    /\ MustWait
    /\ mutex' = Free
    /\ wpc' = [wpc EXCEPT ![w] = "wait"]
    /\ UNCHANGED <<tasks, stop, main, client, socket, fresh, served, spurious>>

\* POSIX lets pthread_cond_wait return without a signal; the while loop
\* takes the lock and tests again.
SpuriousWakeup(w) ==
    /\ wpc[w] = "wait"
    /\ spurious < MaxSpurious
    /\ spurious' = spurious + 1
    /\ wpc' = [wpc EXCEPT ![w] = "lock"]
    /\ UNCHANGED <<tasks, stop, mutex, main, client, socket, fresh, served>>

\* FAULT: a stopped pool drops what is still queued.
StopOnly == stop

\* The condition on which a worker leaves its loop.
MayExit == stop /\ tasks = <<>>

Exit(w) ==
    /\ wpc[w] = "test"
    /\ MayExit
    /\ mutex' = Free
    /\ wpc' = [wpc EXCEPT ![w] = "exit"]
    /\ UNCHANGED <<tasks, stop, main, client, socket, fresh, served, spurious>>

\* FAULT: the newest task is taken.
Newest == SubSeq(tasks, 1, Len(tasks) - 1)

\* What tasks.pop() leaves.
Popped == Tail(tasks)

\* The task is moved out of the queue and served outside the lock.
Take(w) ==
    /\ wpc[w] = "test"
    /\ tasks # <<>>
    /\ socket' = [socket EXCEPT ![w] = Head(tasks)]
    /\ tasks' = Popped
    /\ mutex' = Free
    /\ wpc' = [wpc EXCEPT ![w] = "serve"]
    /\ UNCHANGED <<stop, main, client, fresh, served, spurious>>

\* handler_ returns and the worker's reference to the connection is dropped.
Return(w) ==
    /\ wpc[w] = "serve"
    /\ served' = served \cup {socket[w]}
    /\ socket' = [socket EXCEPT ![w] = NoSocket]
    /\ wpc' = [wpc EXCEPT ![w] = "lock"]
    /\ UNCHANGED <<tasks, stop, mutex, main, client, fresh, spurious>>

-----------------------------------------------------------------------------
MainNext ==
    \/ \E w \in Workers : Spawn(w)
    \/ SpawnFails
    \/ \E s \in Sockets : Accept(s)
    \/ AcceptFails
    \/ MainLock
    \/ Push
    \/ Stop
    \/ Join

WorkerNext(w) ==
    \/ WorkerLock(w)
    \/ Wait(w)
    \/ SpuriousWakeup(w)
    \/ Exit(w)
    \/ Take(w)
    \/ Return(w)

\* The destructor has returned, or the constructor has thrown: the main
\* thread does nothing more here.
Ended ==
    /\ main \in {"joined", "failed"}
    /\ UNCHANGED vars

Next == MainNext \/ (\E w \in Workers : WorkerNext(w)) \/ Ended

\* Threads that can run are scheduled. Nothing is assumed of accept(), of
\* pthread_create failing or of spurious wakeups. That Return is fair is an
\* assumption about the handler: every connection's service ends.
Fairness ==
    /\ WF_vars(\E w \in Workers : Spawn(w))
    /\ WF_vars(MainLock \/ Push \/ Stop \/ Join)
    /\ \A w \in Workers :
        /\ WF_vars(WorkerLock(w) \/ Wait(w) \/ Exit(w) \/ Take(w))
        /\ WF_vars(Return(w))

Spec == Init /\ [][Next]_vars
FairSpec == Spec /\ Fairness

-----------------------------------------------------------------------------
(* Properties. *)

InService == {socket[w] : w \in Workers} \ {NoSocket}

TypeOK ==
    /\ tasks \in Seq(Sockets)
    /\ stop \in BOOLEAN
    /\ mutex \in Workers \cup {Main, Free}
    /\ main \in {"spawn", "failed", "accept", "enqueue", "push",
                 "shutdown", "stopping", "join", "joined"}
    /\ client \in Sockets \cup {NoSocket}
    /\ wpc \in [Workers -> {"unborn", "lock", "test", "wait", "serve", "exit"}]
    /\ socket \in [Workers -> Sockets \cup {NoSocket}]
    /\ fresh \in SUBSET Sockets
    /\ served \in SUBSET Sockets
    /\ spurious \in 0..MaxSpurious

\* The lock protects the queue: a thread is inside a critical section exactly
\* when it is the holder, so no two are.
LockProtects ==
    /\ \A w \in Workers : wpc[w] = "test" <=> mutex = w
    /\ main \in {"push", "stopping"} <=> mutex = Main

\* No wakeup is lost: while a worker sleeps on the condition variable there
\* are as many awake workers as queued connections, each of which will come
\* to test the queue. One signal per push is enough for that, although a
\* worker that was never asleep may take the connection a signal was for.
NoLostWakeup ==
    Waiting # {} => Len(tasks) <= Cardinality(Awake)

\* Once stop is set no worker sleeps, so none is missed by the broadcast and
\* pthread_join in shutdown() does not hang.
NoSleepAfterStop == stop => Waiting = {}

\* Where the threads are against the state they share: stop is set by the time
\* main joins, only a stopped and empty pool loses a worker, and main gets past
\* the joins only when all are gone.
ThreadStates ==
    /\ stop <=> main \in {"join", "joined"}
    /\ client # NoSocket <=> main \in {"enqueue", "push"}
    /\ \A w \in Workers :
        /\ socket[w] # NoSocket <=> wpc[w] = "serve"
        /\ wpc[w] = "unborn" => main \in {"spawn", "failed"}
        /\ wpc[w] = "exit" => stop /\ tasks = <<>>
        /\ main = "joined" => wpc[w] = "exit"

InQueue == {tasks[i] : i \in 1..Len(tasks)}

\* No connection is lost on its way from accept() through the queue to a
\* worker and to its end.
Accounted ==
    Sockets \ fresh = served \cup InQueue \cup InService \cup ({client} \ {NoSocket})

\* No connection is in two places at once: queued twice, served by two
\* threads, or queued again after it was served.
EachOnce ==
    /\ \A i, j \in 1..Len(tasks) : tasks[i] = tasks[j] => i = j
    /\ \A v, w \in Workers : socket[v] = socket[w] /\ socket[v] # NoSocket => v = w
    /\ InQueue \cap (served \cup InService \cup {client}) = {}
    /\ InService \cap (served \cup {client}) = {}
    /\ client \notin served

\* Shutdown drains: when the destructor's joins are over, every connection
\* that was ever accepted has been served to its end.
DrainedAtJoin ==
    main = "joined" => tasks = <<>> /\ served = Sockets \ fresh

\* The pool serves connections in the order of enqueue(), each once, at most
\* one per thread, and leaves none queued while a thread is idle.
Pool == INSTANCE TaskPool WITH
    Tasks <- Sockets, Width <- Cardinality(Workers),
    queue <- tasks, active <- InService, finished <- served

ImplementsTaskPool == Pool!PoolSpec

\* Destroying the server ends: if the services end, shutdown() returns.
ShutdownReturns == main = "shutdown" ~> main = "joined"

\* A connection that was accepted is served to its end, whatever happens to
\* the pool afterwards.
AcceptedIsServed == \A s \in Sockets : s = client ~> s \in served
=============================================================================
