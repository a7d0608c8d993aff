# Specifications of network_tasks

TLA+ models of the four programs of this repository, the TLC runs that check
them on small instances, and TLAPS proofs, for instances of any size, of every
type and safety invariant that the passing runs check.
`PROJECT.json` lists, for machines, what this file says for readers: the
components, the runs, the source lines behind every definition, the hazards.

## 1. The system

The repository holds four stages of a course in network programming, each a
pair of programs of its own, and no tests.

| part | programs | what is hard about it |
|---|---|---|
| `udp/` | echo server and client | lost and duplicated datagrams; who gets the echo; one `exit` for two programs |
| `tcp/` | server for one client, and its client, in turns | a request and its answer matched by turns alone; short reads; the end of either process |
| `tcp_pthread/` | chat room on a thread pool, first version | a list of connections shared without a lock |
| `osi/` | chat room on a thread pool, second version | pool, sessions, shared table, broadcasts from a copy, clients that vanish |

`osi/` is the most complete program and contains `tcp_pthread/`'s pool, socket
and `Mutexed` (the pool and `Mutexed` files are identical), so it comes first.

### 1.1 Components of `osi/`

**Thread pool** (`ThreadPool.cpp`). State: the queue `tasks`, the flag `stop`,
a mutex and a condition variable for both, the threads. Operations: the
constructor (creates the threads), `enqueue`, `shutdown` (from the destructor),
and the loop `worker`. Caller: the constructor of `Server`, an endless
`accept()` loop that an exception ends; callee: `Server::serve_connection_`.
Correct if: no wakeup is lost, each connection is served once, first come first
served, and `shutdown` returns after everything that was queued is served.

**Chat server** (`Server.cpp`). State: the table `conns_` from name to
connection, behind `Mutexed`; per session the locals `state`, `user`,
`nickname`. Operations: greeting (state 0), authentication (state 1), the room
(state 2: text, ping, bye, private), `broadcast_msg_`, `private_msg_`, the
erase at the end. Sessions run on pool threads and interact through `conns_`
and by sending on each other's sockets. Correct if: broadcasts reach the users
of the room and private messages their addressee, in the sender's order; the
table holds those who are served and nobody else; the room's size and the names
are as documented; a client that breaks off harms nobody.

**Stream socket and Mutexed**. `send` under a per-socket mutex, `receive`, and
a lock whose guard is a temporary: it covers the full expression in which
`conns_.get()` occurs, and nothing longer.

**Client** (`Client.cpp`). A greeting and a name in the main thread, then two
threads: one reads the keyboard and sends, one receives and prints, and on
`MSG_BYE` ends the room for both. State: `is_running_`, the socket, the
terminal's mode. Correct if: it keeps to the order of requests the server
expects, shows each message once and in order, ends when the user or the server
ends, and gives the terminal back.

### 1.2 The other programs

**`tcp_pthread/`** serves a chat room with an unlocked `std::list` of
connections and a locked set of names, and combines greeting and name in one
message that a client repeats until it is accepted. The accepting thread
appends to the list; sessions iterate it (`broadcast_msg_`) and shrink it
(`erase(remove(...))`); all of them read its size. Correct if: the list is the
connections being served, the set the names of their users, the room no fuller
than `max_connections_`, and messages arrive in order. Its client is the one
that `osi/Client.cpp` was made from, with a login that is a loop. **`tcp/`**: a server loop
with two states and a client loop with two states on one connection.
**`udp/`**: a server that echoes each datagram to port 22334 of a host, and a
client that sends a line and waits for the echo.

## 2. Modules

| module | models | kind |
|---|---|---|
| `TaskPool` | what the pool promises: FIFO starts, each task once, at most `Width` at a time, work conservation | abstract specification |
| `ThreadPool` | `osi/ThreadPool.cpp` = `tcp_pthread/ThreadPool.cpp`, with the accept loop | detailed specification, implements `TaskPool` |
| `ThreadPoolProofs` | | theorems about `ThreadPool` |
| `ChatServer` | `osi/Server.cpp` with its sockets and clients, on top of `TaskPool`'s actions | specification |
| `ChatServerProofs` | | theorems about `ChatServer`: the table, the audience, the room's size |
| `ChatOrderProofs` | | theorems about `ChatServer`: order, welcome and departures |
| `PthreadRoom` | `tcp_pthread/Server.cpp` with its pool, its sockets and its clients | specification |
| `PthreadRoomProofs` | | theorems about `PthreadRoom`: the list, the names, the room's size |
| `PthreadOrderProofs` | | theorems about `PthreadRoom`: order and departures |
| `ChatUser` | what the two servers assume of a client: the order of its requests | abstract specification |
| `ChatClient` | `osi/Client.cpp` and `tcp_pthread/Client.cpp` against one server session | detailed specification, implements `ChatUser` |
| `ChatClientProofs` | | theorems about `ChatClient` |
| `TcpChat` | both programs of `tcp/` | specification |
| `TcpChatProofs` | | theorems about `TcpChat` |
| `UdpEcho` | both programs of `udp/` | specification |
| `UdpEchoProofs` | | theorems about `UdpEcho` |
| `MCThreadPool`, `MCChatServer`, `MCPthreadRoom`, `MCTcpChat`, `MCUdpEcho` | | values of the constants for TLC |

Definitions whose comment begins with `FAULT` are no part of a specification:
each is a plausible slip in the code (a forgotten signal, a guard left out) in
the form of the definition that follows it. Put in its place, it makes TLC
refute the property that `PROJECT.json` names under `mutants`; that is how each
property was seen to depend on the code.

### 2.1 ThreadPool

`tasks`, `stop` and `mutex` are the members; `main` and `client` are the place
and the local of the accepting thread, `wpc[w]` and `socket[w]` those of worker
`w`; `fresh` and `served` record which connections have not been accepted yet
and which ones are done with. A critical section is two steps, taking the lock
(`MainLock`, `WorkerLock`) and the rest up to the unlock or the wait (`Push`,
`Stop`, `Wait`, `Exit`, `Take`); `WakeOne` and `WakeAll` are the signal and the
broadcast, which move waiting threads to where they compete for the lock again.
A wait may end without a signal (`SpuriousWakeup`, at most `MaxSpurious`
times), `pthread_create` may fail (`SpawnFails`), `accept()` may fail
(`AcceptFails`), which is how the program's only way to `shutdown` begins. The
handler is one step, `Return`; `ChatServer` says what happens in it.

### 2.2 ChatServer

A connection `c` stands for its session in the server and for the client at its
other end. `pc[c]` is the session's place in `serve_connection_`, from `hello`
(state 0) over `auth`, `register`, `announce`, `greet` (state 1) and `chat`,
`lookup`, `left` (state 2) to `cleanup`; `send` is any of the places where it
sends, and `job[c]` says what, to whom, and where it goes on. `conns` is
`conns_`; the lock is not a variable, because every full expression that holds
it is one step. The pool's variables are those of `TaskPool`, whose `Submit`,
`Start` and `Finish` are conjuncts of `Connect`, `Dispatch` and `Cleanup`, with
`max_connections_ + 1` threads.

`inbox[c]` is what the client sent and the session has not received,
`outbox[c]` everything the server ever sent to `c`, in order. `peer[c]` is the
client's end: `open`; `fin`, closed; `abort`, closed with unread data, so that
TCP reports an error once; `rst`, closed and known to be. `Receive` follows
`StreamSocket::receive`: 0 bytes become `MSG_BYE`, an error goes unnoticed and
yields a `Message` nobody wrote (`Noise`, any type). `Deliver` follows
`StreamSocket::send`: to a closed socket it draws a reset, and to a reset one
it may raise SIGPIPE, which ends the server (`up`).

Texts are numbers that identify the message a client said, names are model
values with `""` and one name too long, and a private message without a colon,
which makes `decodePrivateMsg_` throw, is a kind of its own, `GARBLED`.

### 2.3 PthreadRoom

`conns_` is the sequence `cells`; `NULL` is the empty pointer that `std::remove`
leaves behind. A session that is in a loop over the list (`pc[w]` is `send`,
`remove` or `erase`) has a place `pos[w]`, and while it moves pointers to the
front also `dst[w]`. Each turn of a loop is a step: `Send` looks at one cell and
sends to it, `Remove` compares or moves one cell, `Erase` cuts the end off.
Another thread may run between any two of them, as no lock is held. `Erase`
sends the threads that stand on a freed node to `pos = 0`, from where their loop
crashes or ends. Where two threads change the chain of nodes at the same time,
one of the changes may be lost, and freeing a node twice may end the process.
`raced` remembers that two threads were in the list while one of them changed
it; the properties of the list hold as long as it is unset. `enqueued` remembers
everything the pool was ever given. After a race the last cell may be that of an
older connection, which is then enqueued, and served, a second time: with four
connections its client can be announced to another one twice, so `SenderOrder`
speaks of the messages of users whose connection was not enqueued twice
(`EnqueuedOnce`); theirs no race disturbs.

`users` is the set behind `Mutexed`, used in three critical sections (`Count`,
`Insert`, `Forget`) and by then perhaps destroyed: `AcceptFails` is the
exception out of the constructor, which destroys `users_` before the pool
(`Server.hpp` declares it later) and then waits for the sessions (`Exit`). The
accepting thread appends and enqueues in two steps (`Push`, `Enqueue`), the
second with whatever is the last cell by then. `Dispatch` stands for the
pool, whose `max_connections + 1` threads take connections in order; `max_connections` is
chosen in the initial state, so that one run covers several rooms. Connections break as in `ChatServer`.

### 2.4 ChatClient and ChatUser

`program` says which of the two clients it is; they differ in the login, in
`/private`, and in what they do with `MSG_PRIVATE`. `main` is the place of the
main thread: `reply`, `name`, `answer`, `enter` (login), `type` and `send` (the
loop of `writerRoutine_`; a line may be completed while the room ends), `join`
(the destructor) and `done`. `listener` is that of the listening thread: it
clears `is_running` (`Stop`) and closes the socket (`CloseSocket`) in two steps.
`Transmit` and `Recv` are the socket as above, seen from the client.

The server is the environment: `session` is the place of its session,
`toServer` and `toClient` what is under way, `Talk` a message of another user,
which may overtake the welcome, and `ServerDies` the end of the server at any
moment. It may refuse, or answer that a name is in use, as it likes.

`ChatUser` is the dialogue alone. `ChatServer` and `PthreadRoom` have its
actions as those of their clients; `IsChatUser` says that both clients implement
it, which is why the servers' models may be content with it.

### 2.5 TcpChat

`pc` holds the place of both programs, `stream[e]` the bytes on their way to
end `e`, each message as two pieces of which `recv()` takes one or, unless
`Splits`, always both. `fate[e]` is what became of `e`'s socket, as `peer`
above; a server that dies before `accept()` resets the connection waiting for
it, unread data or not. The client remembers what it asked; `entered` and `printed` are the
texts on either side.

### 2.6 UdpEcho

Datagrams under way are sets, so they may overtake each other; `Lose` drops one
and `Take` may leave one to be delivered again. `client_ret` is the server's
variable of that name: the host all echoes go to, which the first datagram
decides. `exit` is a line marked so.

## 3. Runs

Eight runs pass; the longest, `ChatRoom` and `PthreadRoom`, take one to two
minutes with two workers.

| run | instance | shows |
|---|---|---|
| `ThreadPool` | 3 workers, 3 connections, 1 spurious wakeup | `NoLostWakeup`, `DrainedAtJoin`, freedom from deadlock, refinement of `TaskPool`, `shutdown()` returns, accepted connections are served |
| `ChatRoom` | 3 clients, 3 names and the two refused ones, 1 place, `fin` and `abort` | `Audience` (who may hear what), `NoStaleEntry` and `SeatKept` (table and sessions agree, in either direction), `CapacitySlack`, `WelcomeIsEarned` |
| `ChatOrder` | 2 clients with own names, 2 messages each, texts, whispers, byes, `fin` | `SenderOrder` and `DepartureAnnounced` |
| `ChatLiveness` | 2 clients, 1 message each, `fin`, fair workers | `LeaverRemoved`, `PingAnswered` |
| `PthreadRoom` | 2 clients, rivals for one name, one of them also for `""`; a room of 1 and of 2; 2 requests each; one breaks off, one leaves; `accept()` may fail after one connection | `ListMatches`, `RoomBound`, `NamesAreLive`, `SenderOrder`, `DepartureAnnounced`, `LoginAnswered` |
| `ClientThreads` | both clients, 4 lines and names, 3 messages of others, a server that refuses, ends or dies | `ShownInOrder`, `InRoomIsRegistered`, `AtMostOneLineLost`, `IsChatUser`, `EverythingShown`, `JoinReturns`, `EndNoticed` |
| `TcpTurns` | 4 lines, either process may die in any way | `Turns`, `RightAnswer`, `RequestAnswered`, `BreakNoticed` |
| `UdpClients` | 2 hosts, 3 lines each, 2 losses, 2 duplicates, failing calls | `EchoOfLast`, `ExitEndsBoth`, `EchoArrives` |

Each run checks its module's type invariant too, except that `ChatServer`'s is
in `ChatRoom` only.

Bounds. Three workers are the least with a worker that sleeps, one that is
signalled and one that overtakes it; three connections then make a queue with
workers busy. A single place with three clients (two pool threads) is the least
room in which two sessions pass the capacity test and a third waits for a
thread; three names let all register. In `ChatRoom` the clients say nothing of
their own in the room; a reset makes a session read one message of any kind,
texts, private messages and malformed ones included, which is what `Audience`
is tried with. Two clients suffice for order and announcements, which are about
one sender and one receiver; the second message is what order needs. In
`PthreadRoom` two clients make the list as long as its races need: one session
at the end of its loop, and another or the accepting thread behind it; a third
worker is there for the room of two. Four lines let a client of `tcp_pthread`
ask for a name twice and still talk and quit; three messages of others can come
before, in place of, and after the welcome. `TcpTurns` repeats every pair of
consecutive requests with four lines. Losses and duplicates in `UdpEcho` can hit
every datagram kind within two. Symmetry is used in `ChatRoom` alone, a run of
invariants where clients and names are interchangeable. (`Dispatch` of
`PthreadRoom` gives a connection to one of the idle workers, which are alike.)

Deadlock is checked for the pool, whose `Ended` is the only way to stop. In the
other modules the users may fall silent and the programs end, so the runs do
not check for it; what must not stop is stated as liveness.

Fairness. `ThreadPool`: threads that can run are scheduled, and the handler
returns (an assumption about the caller; nothing else uses it). Nothing is
assumed of `accept()`, spurious wakeups or failures, and weak fairness on the
lock step is enough because the properties hold without a fair mutex for the
small number of connections there is. `ChatServer`, `PthreadRoom`: workers and
the accepting thread are scheduled and `send` returns; clients do as they like
and new ones need not come. `ChatClient`: its two threads and the server's
session are scheduled; the user need not type, the others need not talk, and
the server may die. `TcpChat`, `UdpEcho`: the processes run and what is not lost
arrives; the user need not type.

### 3.1 What the code does not keep

Four runs are expected to end with a violation, each of a sentence of the
repository's own.

| run | sentence | what happens |
|---|---|---|
| `ChatUniqueNick` | `osi/README.md:197`, a name in use is refused | two clients pass `count(nickname)` (Server.cpp:234) before either is entered (260); the second replaces the first in the table and both chat under one name |
| `ChatPrivateReportsMissing` | `osi/Server.hpp:42`, false if not delivered | the addressee leaves between `count` (364) and `at` (373); `at` throws and the sender is disconnected without a word |
| `PthreadRoomSurvives` | `tcp_pthread/README.md:177`, the others go on when a client leaves | a new connection is appended (Server.cpp:87) between the leaver's `std::remove` and its `erase` (239), which removes both; the server takes the last element of an empty list (88) |
| `TcpShortReads` | `tcp/README.md:96`, `/ping` is answered | a `recv()` of part of a `Message` (StreamSocket.cpp:32) shifts the type byte; the request is ignored and both ends wait for ever |

Seen while modelling, without a run of their own.

In every program with `StreamSocket`: the second `send` to a closed connection
raises SIGPIPE (StreamSocket.cpp:44), which ends the process, in `osi/` against
`osi/README.md:177` as well; after a reset `receive()` returns a message nobody
wrote. If that is a text, a chat server broadcasts it; if it is a private message
without a colon, `decodePrivateMsg_` throws and the session ends without the
announcement of `osi/README.md:199`.

`osi/Server.cpp`: the room may hold one user more than `max_connections`
(greeting 192, registration 260; `CapacitySlack` is the bound that does hold);
clients that never give a name hold all threads, so that a further greeting
stays unread; of two sessions with one name, the first to end erases the entry
of the other, who then misses broadcasts (`SeatKept` says that nothing else can
cost a user its entry); an exception in a session ends it without the
announcement that a goodbye makes. `DepartureAnnounced` is therefore checked
with names of their own, without resets (an unread message may throw) and with
no whisper that can fail at somebody else's cost.

`osi/Client.cpp`: the comment at 181 says that `authRoutine_` returns false when
the server has closed the connection, but the `MSG_BYE` that `receive()` makes
of it is taken for a success (189, 208), and the client enters a room that the
listening thread ends at once. When no address can be connected to, `socket_` is
empty and used (128). At the end of its input without `/quit` the writer stops
and the destructor waits as long as the server lives. A client killed by a
signal leaves the terminal raw. `osi/README.md:89-92` asks for reconnection,
which is not there.

`tcp_pthread/Server.cpp`: `count` (171) and `insert` (180) are two critical
sections, so two sessions may bear one name, against `tcp_pthread/README.md:197`,
and the end of either frees it; the size of the room counts connections that
have no name yet, or wait for a thread, so a room may be full of clients that
were never let in; a session whose client gave no name erases `""`, a name that
another client may bear; `enqueue(*conns_.rbegin())` (88) may enqueue an empty
pointer while another session removes its own; a broadcast may overtake
`MSG_WELCOME`, upon which the client asks for another name and the server, which
has let it in under the first one, ignores that request.

`udp/server.cpp`: echoes go to the host of the first datagram (51), so with two
hosts the other client never gets one, although `udp/README.md:9` has the
message sent back to its client. A lost line or echo leaves the client waiting
for ever, and a lost `exit` leaves the server running, against
`udp/README.md:28`; after a duplicated datagram the client shows the echo of an
earlier line as the answer. The three properties of `UdpEcho` name these cases
as the ones they exclude, and say that the programs work in all others.

## 4. Proofs

`ThreadPoolProofs` proves, for every finite set of workers, every set of
connections and every bound on spurious wakeups, each invariant of the module
(`TypeCorrect`, `MutualExclusion`, `WakeupsSuffice`,
`StopReachesAll`, `StatesAgree`, `NothingLost`, `NothingTwice`,
`ShutdownDrains`) and that every step is a step of the abstract pool or leaves
it alone (`ImplementsPoolSafety`). The assumptions are `PoolAssumption`.

- `MutualExclusion` needs types only.
- `NoLostWakeup` is `Waiting # {} => Len(tasks) <= Cardinality(Awake)`. It is
  inductive with types and mutual exclusion: a push adds one to the left and, by
  its signal, one to the right if anyone waits; a worker that takes leaves the
  awake ones and takes one from the queue; one that goes to sleep found the
  queue empty. The last case is why the queue must be tested under the lock.
- `NoSleepAfterStop`: only `Wait` puts a worker to sleep, and only when `stop`
  is not set; `Stop` wakes all.
- `ThreadStates`, `Accounted` and `EachOnce` are inductive together with types
  and mutual exclusion; `DrainedAtJoin` follows: when main has joined, all
  workers are out, nothing is in a queue or in service, so what was accepted was
  served.
- For the refinement, `Push` is `Submit`, `Take` is `Start` and `Return` is
  `Finish`; `EachOnce` gives the guards of `Submit` and that a returning worker
  removes its connection alone from `InService`, and a worker that takes was
  not in service before, which keeps the number in service below the width.

`ChatServerProofs` proves, for every set of clients and names (finite) and
every capacity, `TypeOK`, `SessionState`, `NoStaleEntry`, `SeatKept`,
`JobAudience`, `Audience` and `CapacitySlack` from `ChatAssumption`.

- `SessionState` ties `pc` to the pool's sets and says when a session has a
  name; it is inductive with types.
- `NoStaleEntry` follows inductively: an entry is written by its session while
  it is served, `user` changes only there, from "" on, and `Cleanup`, which is
  the only way out of `active`, erases the entry of that very name. That
  another session's entry may be erased with it does not hurt this direction.
- `SeatKept` is the other direction, from a session to its entry: `Register` and
  `Cleanup` touch the entry of one name, that of `user`, and a session that was
  refused has no `user`, so whoever loses an entry shares its name.
- `Audience` needs `JobAudience` (what a session has decided to send is for
  those it has decided to send to), because the decision and the sends are
  different steps; and it is stable because a session's `user` never changes
  once set.
- `CapacitySlack` is a count: `NoStaleEntry` maps the registered names
  injectively to sessions in service, of which the pool allows
  `MaxConnections + 1`.

`ChatClientProofs` proves, for either client and every bound on lines and
messages, `TypeOK`, `InRoomIsRegistered`, `AtMostOneLineLost`, `ShownInOrder`
and that every step is a step of `ChatUser` or leaves it alone
(`ImplementsChatUser`), from `ClientAssumption`. Its invariant has three parts.

- `Threads`: the listening thread exists between the login and the destructor,
  clears `is_running` before it closes the socket, and nothing is sent after
  `MSG_BYE`. A line can be lost only when the writer was at `send` while the
  socket was closed, and `Enter`, the only way there, asks `is_running`: so one
  line is lost and no second one follows.
- `Login` lists, while the session has not entered the user, the pairs of places
  in which client and session can be, with what is under way between them; the
  only reply that `authRoutine_` can read then is one to its own request, which
  gives `InRoomIsRegistered`.
- `Order`: the messages of others under way are exactly those that were said and
  not shown yet, in order (`Orderly`). This is what makes the head of the queue
  the next number to show, whether the login or the listening thread takes it;
  the reply to the greeting, which is dropped unshown, is taken before the others
  can speak (`Login`).

The refinement needs `Threads` for the moment of `Start`, which must not find a
goodbye already sent, and for `SendLine`, after which `phase` is `quit` only if
the line was one.

`ChatOrderProofs` adds, from `ChatAssumption`, `SenderOrder` (`OrderIsKept`),
`WelcomeIsEarned` (`WelcomeIsTrue`) and `DepartureAnnounced`
(`DeparturesAreTold`). What a step does is first said from one session's point
of view (`SessionSteps`): its own place, job and requests change, or nothing of
it does, while others can only append to its client's outbox.

- `InboxOrder`: the requests under way carry increasing numbers, none above
  what the client has said. `JobOrder`: what a session sends is older than all
  of them. `Delivered` is the strengthening of `SenderOrder`: every message in
  any outbox is older than everything its sender has yet to say to that client,
  in the job under way and in the requests behind it. A new message therefore
  goes to the end of an outbox in which everything of its sender is older.
- `Unregistered` says, place by place, what a connection without a name has been
  sent: an answer to its greeting and at most one refusal, never a message of a
  user. So what a client takes for its welcome is one.
- `DepartureAnnounced` has the hypothesis `Orderly` on the constants: no reset,
  no request that can end a session by an exception, no name that two clients
  may ask for. Each is needed: what a reset leaves to be received and a private
  message to a user who left throw out of the session without an announcement,
  and a user whose entry another one has overwritten is not in the copy of the
  table that an announcement goes to. The run `ChatOrder` has the same
  restrictions. Under them a user keeps its seat in the table (`Seated`), and
  whoever heard of a coming is among those the announcement of the leaving is
  for (`Told`).

`PthreadRoomProofs` proves, for every set of connections, names and faults and
every finite set of threads (`RoomAssumption`), `TypeOK`, `NamesAreLive`,
`RoomBound` and `ListMatches`. The first three of the invariant's parts survive
races.

- `Places`: a loop's place is in the list (or 0, off a freed node), `dst` is set
  only in a removal and stands before `pos`. Types need it, because a cell is
  read at `pos` and written at `dst` after others may have shortened the list.
- `Newcomers`: nothing is known of a connection before it is pushed. `Jobs`: what
  is broadcast, and where the session goes on.
- `NamesAreLive` follows by looking at the two steps that change `users`: an
  inserted name is borne by its session from that step on, and `Forget` takes
  with it the name that alone it could leave behind.
- `RoomBound` does not come from the comparison with `max_connections` alone,
  which is made several steps before a user is entered. `Bounded` counts the
  entered users and the sessions on their way there (`Admitted`), as far as
  their connections are in the list: the comparison is with the whole list, so
  whoever joins `Admitted` finds it no longer than the room, and the list only
  gets new connections that are not admitted. A race may lose a cell, but adds
  none, so this holds in the presence of races, too.
- `ListMatches` is a consequence of `Orderly`, inductive while `raced` is unset:
  outside the gap of a removal each cell holds another connection (`Cells`), no
  connection is in two of queue, pool and accepting thread (`OnePlace`), the
  cells' connections are those (`Members`), and a removal walks with its gap
  right before it and finds its connection (`Removals`). `Alone` is the lemma
  that makes it work: a step that changes the list without a race finds nobody
  else in it.

`PthreadOrderProofs` adds `DepartureAnnounced` and `SenderOrder`.

- For the departures (`DInv`), a connection cannot both be let in and shut
  (`Apart`), so the sends of the server to those that hear of others
  (`InsideHears`) go out. `Due` is the strengthening: who heard of a coming has
  heard of the leaving or is still to be told (`WillTell`), that is, the session
  is in the room, or it broadcasts the leaving and the receiver's cell is not
  behind its place. Without races no cell moves while a broadcast walks.
- For the order (`OInv`), cells do move while broadcasts walk: removals shift
  them towards the front, so a broadcast may miss a receiver, but never meets it
  twice, because a connection never is in two cells (`CellsOnce`) and moves
  only towards the front (`AheadStep`). `Followed` is the strengthening: each
  message in an outbox ranks below what the session has yet to say, and below
  its present job as long as the receiver's cell is ahead. `SilentFirst` covers
  the time before a connection's first message, `ServedOnce` that one session
  alone speaks for it, which is where `EnqueuedOnce` of that connection is needed.

`TcpChatProofs` proves `TypeOK` for all values of the constants, and `Turns`,
`RightAnswer` and `PrintedAsEntered` for `Splits = FALSE`, when `recv()` returns
whole messages; with short reads the answer to a request may never come (the run
`TcpShortReads`), so the theorems are stated for the case in which the code
works. Five turns (`UserTurn`, `ServerTurn`, `AnswerTurn`, `ClientTurn`,
`LastTurn`) list the joint states of two living ends and what is under way in
each; a step leads from turn to turn. When an end dies, `LastRequest` and
`LastAnswer` say what remains of its last message, and `Console` what the
server has printed by then.

`UdpEchoProofs` proves `TypeOK` and `EchoOfLast` from `EchoAssumption`. As long
as one client is alone and no datagram was doubled, at most one datagram is
under way, and it repeats the line entered last (`Single`). Duplicates and other
clients end that for good, which is why the invariant is an implication.

Only checked by TLC: all liveness, which is out of the prover's reach
(`ShutdownReturns`, `AcceptedIsServed`, the fairness part of
`ImplementsTaskPool`, `LeaverRemoved`, `PingAnswered`, `LoginAnswered`,
`EverythingShown`, `JoinReturns`, `EndNoticed`, `RequestAnswered`,
`BreakNoticed`, `ExitEndsBoth`, `EchoArrives`). Every invariant of a passing run
is a theorem. The invariants of `ThreadPool` and `ChatServer` that are not in a
run (`LockProtects`, `NoSleepAfterStop`, `ThreadStates`, `Accounted`,
`EachOnce`, `SessionState`, `JobAudience`) are steps of these proofs.
`PrintedAsEntered` of `TcpChat` is proved and in no run either. The inductive
invariants of the `Proofs` modules were checked by TLC on the runs' instances
before they were proved.

## 5. Not modelled

- Setting up sockets (`getaddrinfo`, `socket`, `bind`, `listen`): it precedes
  every behaviour above, and a failure ends the program.
- Logging, the line editor and the redrawing of the input line, and with them
  the data race on `current_input` (osi/Client.cpp:27).
- Payload bytes: truncation at 1023 characters, the unterminated buffer of the
  UDP client and of the name (`strncpy` with the full size), names with a colon,
  which the encoding of private messages cuts off.
- The move constructors and assignments of `Server` and `Client`, which nothing
  calls.
- In `ChatServer` and `PthreadRoom`, short reads (see `TcpChat` for the same
  code) and a `send` that blocks on a full buffer; in `ChatServer`, `accept()`
  failing while sessions run (see `ThreadPool` and `PthreadRoom`).
- In `PthreadRoom`, a cell torn by two threads writing it at once, and the values
  that a freed node may hold: the loop that meets one crashes or ends.

## 6. Plan

Done: the pool with its abstract specification, both chat rooms, both chat
clients with the abstract client, the two small programs, and the proofs of all
their invariants. Left:

1. Proofs: that the clients inside `ChatServer` and `PthreadRoom` take only
   steps of `ChatUser`, and that `ChatServer`'s sessions run on `TaskPool`
   (both hold by the way the actions are built, so they come last).
2. `ByteStream`: the framing of `StreamSocket` with short reads and a bounded
   socket buffer, to give the rooms sends that block, if an instance small
   enough for TLC can be found.
