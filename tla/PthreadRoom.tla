---------------------------- MODULE PthreadRoom -----------------------------
(***************************************************************************)
(* The first chat room, tcp_pthread/Server.cpp. Its connections are in a   *)
(* std::list that the accepting thread appends to and the sessions walk    *)
(* and shrink, without a lock; its names are in a set behind Mutexed.      *)
(*                                                                         *)
(* The list is modelled by its cells. erase(remove(...)) walks it twice,   *)
(* moving shared pointers towards the front cell by cell, and then cuts    *)
(* off the end; a broadcast looks at a cell and then sends to it. Each     *)
(* access of a cell is one step. Where two threads change the chain of     *)
(* nodes at once, or one uses a node another one has freed, the build may  *)
(* do anything; here the change is made, or is lost, or the process dies.  *)
(***************************************************************************)
EXTENDS Naturals, Sequences, FiniteSets

CONSTANTS
    Conns,            \* connections, each with the client at its other end
    Workers,          \* the threads of the pool
    Names,            \* nicknames
    EmptyNick,        \* "", a nickname like any other
    NULL,             \* a moved-from shared pointer
    Widths,           \* the values max_connections_ may have
    Choices,          \* the names each client may ask for
    Kinds,            \* what each client sends in the room
    Faults,           \* how its connection may break: "fin", "abort"
    Failures,         \* bound: accept() may fail after that many connections
    MaxSays           \* bound: names and messages that each client sends

ChatKinds == {"TEXT", "PING", "BYE"}
RequestKinds == ChatKinds \cup {"HELLO", "OTHER"}

ASSUME RoomAssumption ==
    /\ NULL \notin Conns
    /\ NULL \notin Workers
    /\ EmptyNick \in Names
    /\ Widths \subseteq Nat
    /\ IsFiniteSet(Workers)
    /\ \A n \in Widths : n < Cardinality(Workers)
    /\ Choices \in [Conns -> SUBSET Names]
    /\ Kinds \in [Conns -> SUBSET ChatKinds]
    /\ Faults \in [Conns -> SUBSET {"fin", "abort"}]
    /\ Failures \subseteq Nat
    /\ MaxSays \in Nat

VARIABLES
    max_connections,
    up,         \* the server process is alive
    main,       \* where the accepting thread is
    client,     \* the connection it has just accepted
    cells,      \* conns_
    raced,      \* history: two threads were in conns_ at once, one changing it
    users,      \* users_
    auth,       \* the connections whose is_auth is set
    shut,       \* the connections whose socket the server has closed
    queue,      \* the pool's queue
    enqueued,   \* history: everything that was ever enqueued
    pc,         \* where each worker's session is
    conn,       \* the connection it serves
    user,       \* its local `user`
    nickname,   \* its local `nickname`
    job,        \* what it broadcasts, and where it goes on
    pos,        \* its place in the list: the cell it reads
    dst,        \* and the cell that std::remove writes next; 0 if none
    inbox,      \* requests under way to the server
    outbox,     \* everything the server's sends put on a connection
    peer,       \* the state of a client's end of the connection
    phase,      \* where each client is
    read,       \* how many replies it read while logging in
    said        \* how many requests it sent

listVars == <<cells, raced>>
nameVars == <<users, auth>>
mainVars == <<max_connections, main, client, queue, enqueued>>
frameVars == <<conn, user, nickname, job>>
walkVars == <<pos, dst>>
netVars == <<outbox, peer, up>>
clientVars == <<phase, read, said>>
sharedVars == <<listVars, nameVars, mainVars, shut>>
localVars == <<frameVars, walkVars>>
serverVars == <<sharedVars, localVars, pc>>
vars == <<serverVars, inbox, netVars, clientVars>>

Request(kind, nick, n) == [kind |-> kind, nick |-> nick, n |-> n]
Requests == [kind : RequestKinds, nick : Names, n : 0..MaxSays]

\* "HI", "LEFT" and "USED" are MSG_TEXTs of the server, told by their words.
Reply(kind, from, n) == [kind |-> kind, from |-> from, n |-> n]
ReplyKinds == {"WELCOME", "USED", "HI", "LEFT", "TEXT", "PONG", "BYE"}
Replies == [kind : ReplyKinds, from : Conns, n : 0..MaxSays]

NoJob == [kind |-> "HI", n |-> 0, then |-> "greet"]

Init ==
    /\ max_connections \in Widths
    /\ up = TRUE
    /\ main = "accept"
    /\ client = NULL
    /\ cells = <<>>
    /\ raced = FALSE
    /\ users = {}
    /\ auth = {}
    /\ shut = {}
    /\ queue = <<>>
    /\ enqueued = <<>>
    /\ pc = [w \in Workers |-> "idle"]
    /\ conn = [w \in Workers |-> NULL]
    /\ user = [w \in Workers |-> EmptyNick]
    /\ nickname = [w \in Workers |-> EmptyNick]
    /\ job = [w \in Workers |-> NoJob]
    /\ pos = [w \in Workers |-> 1]
    /\ dst = [w \in Workers |-> 0]
    /\ inbox = [c \in Conns |-> <<>>]
    /\ outbox = [c \in Conns |-> <<>>]
    /\ peer = [c \in Conns |-> "open"]
    /\ phase = [c \in Conns |-> "off"]
    /\ read = [c \in Conns |-> 0]
    /\ said = [c \in Conns |-> 0]

Goto(w, next) == pc' = [pc EXCEPT ![w] = next]

Listed == {cells[i] : i \in 1..Len(cells)} \ {NULL}

\* Somebody holds a shared pointer to c, so its socket exists.
Held(c) ==
    \/ c \in Listed \cup {queue[i] : i \in 1..Len(queue)}
    \/ c = client
    \/ \E w \in Workers : conn[w] = c

InList == {"send", "remove", "erase"}

\* Workers other than w that are in a loop over the list, and those of them
\* that change it. (w is NULL for the accepting thread.)
Walking(w) == {v \in Workers \ {w} : pc[v] \in InList}
Changing(w) == {v \in Walking(w) : pc[v] # "send" /\ dst[v] # 0}

\* Those that are about to cut the end off.
Cutting(w) == {v \in Changing(w) : pc[v] = "erase"}

ReadsList(w) == raced' = (raced \/ Changing(w) # {})
WritesList(w) == raced' = (raced \/ Walking(w) # {} \/ main \in {"push", "enqueue"})

-----------------------------------------------------------------------------
(* The accepting thread. *)

\* A client connects and accept() returns the connection.
Accept(c) ==
    /\ main = "accept"
    /\ phase[c] = "off"
    /\ phase' = [phase EXCEPT ![c] = "name"]
    /\ client' = c
    /\ main' = "push"
    /\ UNCHANGED <<localVars, listVars, nameVars, netVars, max_connections, queue,
                   enqueued, shut, pc, inbox, read, said>>

\* conns_.push_back(...)
Push ==
    /\ main = "push"
    /\ \/ cells' = Append(cells, client)
       \/ Cutting(NULL) # {} /\ UNCHANGED cells
    /\ ReadsList(NULL)
    /\ client' = NULL
    /\ main' = "enqueue"
    /\ UNCHANGED <<localVars, nameVars, netVars, clientVars, max_connections, queue,
                   enqueued, shut, pc, inbox>>

\* FAULT: the front of the list is enqueued.
First == Head(cells)

Last == cells[Len(cells)]

\* pool_.enqueue(*conns_.rbegin()): whatever is the last cell by now.
Enqueue ==
    /\ main = "enqueue"
    /\ IF cells = <<>>
       THEN up' = FALSE /\ UNCHANGED <<queue, enqueued>>
       ELSE /\ queue' = Append(queue, Last)
            /\ enqueued' = Append(enqueued, Last)
            /\ UNCHANGED up
    /\ ReadsList(NULL)
    /\ main' = "accept"
    /\ UNCHANGED <<localVars, nameVars, clientVars, max_connections, client,
                   cells, shut, pc, inbox, outbox, peer>>

\* The constructor throws. The members declared after pool_, users_ among
\* them, are destroyed before pool_, whose destructor then waits for the
\* sessions.
AcceptFails ==
    /\ main = "accept"
    /\ Cardinality({c \in Conns : phase[c] # "off"}) \in Failures
    /\ main' = "unwound"
    /\ UNCHANGED <<localVars, listVars, nameVars, netVars, clientVars,
                   max_connections, client, queue, enqueued, shut, pc, inbox>>

Exit ==
    /\ main = "unwound"
    /\ queue = <<>>
    /\ \A w \in Workers : pc[w] = "idle"
    /\ up' = FALSE
    /\ UNCHANGED <<serverVars, clientVars, inbox, outbox, peer>>

-----------------------------------------------------------------------------
(* The clients (tcp_pthread/Client.cpp). *)

SendRequest(c, m) ==
    /\ said[c] < MaxSays
    /\ said' = [said EXCEPT ![c] = @ + 1]
    /\ inbox' = [inbox EXCEPT ![c] = Append(@, m)]

EnterName(c, n) ==
    /\ phase[c] = "name"
    /\ SendRequest(c, Request("HELLO", n, 0))
    /\ phase' = [phase EXCEPT ![c] = "wait"]
    /\ UNCHANGED <<serverVars, netVars, read>>

\* The connection's end as the client sees it: everything sent has been read,
\* and the server's socket is closed.
ServerClosed(c) == (c \in shut \/ ~Held(c)) /\ phase[c] # "off"

Leave(c, fault) ==
    /\ phase' = [phase EXCEPT ![c] = "gone"]
    /\ peer' = [peer EXCEPT ![c] = fault]

\* Any reply but MSG_WELCOME and MSG_BYE asks for a name again, a broadcast
\* that was faster than MSG_WELCOME included.
ReadReply(c) ==
    /\ phase[c] = "wait"
    /\ \/ /\ read[c] < Len(outbox[c])
          /\ read' = [read EXCEPT ![c] = @ + 1]
          /\ LET kind == outbox[c][read[c] + 1].kind IN
             IF kind = "BYE" THEN Leave(c, "fin")
             ELSE /\ phase' = [phase EXCEPT ![c] = IF kind = "WELCOME" THEN "chat" ELSE "name"]
                  /\ UNCHANGED peer
       \/ /\ read[c] = Len(outbox[c])
          /\ ServerClosed(c)
          /\ Leave(c, "fin")
          /\ UNCHANGED read
    /\ UNCHANGED <<serverVars, inbox, outbox, up, said>>

Say(c, kind) ==
    /\ phase[c] = "chat"
    /\ SendRequest(c, Request(kind, EmptyNick, said[c] + 1))
    /\ phase' = [phase EXCEPT ![c] = IF kind = "BYE" THEN "quit" ELSE @]
    /\ UNCHANGED <<serverVars, netVars, read>>

\* The client received MSG_BYE or the end of the connection in the room.
CloseSocket(c) ==
    /\ phase[c] \in {"chat", "quit"}
    /\ ServerClosed(c) \/ \E i \in 1..Len(outbox[c]) : outbox[c][i].kind = "BYE"
    /\ Leave(c, "fin")
    /\ UNCHANGED <<serverVars, inbox, outbox, up, read, said>>

\* The client's process ends; unread data make the close a reset.
Vanish(c, fault) ==
    /\ phase[c] \notin {"off", "gone"}
    /\ fault = "abort" => Len(outbox[c]) > read[c]
    /\ Leave(c, fault)
    /\ UNCHANGED <<serverVars, inbox, outbox, up, read, said>>

-----------------------------------------------------------------------------
(* A session and its connection. *)

\* FAULT: a name that was not received is no name at all.
Unread == [kind : RequestKinds, nick : {NULL}, n : {0}]

\* What a failing recv() leaves in the message is whatever was there.
Noise == [kind : RequestKinds, nick : Names, n : {0}]

\* What StreamSocket::receive() may return now; nothing while it blocks.
Incoming(c) ==
    IF c \in shut THEN Noise
    ELSE IF inbox[c] # <<>> THEN {Head(inbox[c])}
    ELSE CASE peer[c] = "open" -> {}
           [] peer[c] = "abort" -> Noise
           [] OTHER -> {Request("BYE", EmptyNick, 0)}

\* receive() returns m. A reset is reported by one error, and by 0 from then on.
Receive(c, m) ==
    /\ m \in Incoming(c)
    /\ inbox' = [inbox EXCEPT ![c] = IF @ = <<>> THEN @ ELSE Tail(@)]
    /\ peer' = [peer EXCEPT ![c] = IF inbox[c] = <<>> /\ @ = "abort" THEN "rst" ELSE @]

\* FAULT: the message is sent again.
DeliverTwice(r, m) ==
    /\ outbox' = [outbox EXCEPT ![r] = @ \o <<m, m>>]
    /\ UNCHANGED <<peer, up>>

\* One ::send to r, which nothing keeps from raising SIGPIPE.
Deliver(r, m) ==
    \/ /\ peer[r] = "open"
       /\ outbox' = [outbox EXCEPT ![r] = IF r \in shut THEN @ ELSE Append(@, m)]
       /\ UNCHANGED <<peer, up>>
    \/ /\ peer[r] = "fin"
       /\ \E p \in {"fin", "rst"} : peer' = [peer EXCEPT ![r] = p]
       /\ UNCHANGED <<outbox, up>>
    \/ /\ peer[r] = "abort"
       /\ peer' = [peer EXCEPT ![r] = "rst"]
       /\ UNCHANGED <<outbox, up>>
    \/ /\ peer[r] = "rst"
       /\ up' \in BOOLEAN
       /\ UNCHANGED <<outbox, peer>>

\* The session answers its own client and goes on at `next`.
Answer(w, kind, next) ==
    /\ Deliver(conn[w], Reply(kind, conn[w], 0))
    /\ Goto(w, next)

\* The loop ends; the next one will begin at the first cell.
Restart(w, next) == pos' = [pos EXCEPT ![w] = 1] /\ Goto(w, next)

\* The loop has used its cell and goes to the next one.
Advance(w, next) ==
    IF pos[w] < Len(cells) THEN pos' = [pos EXCEPT ![w] = @ + 1] /\ UNCHANGED pc
    ELSE Restart(w, next)

\* A null or a freed pointer is used.
Die == up' = FALSE /\ UNCHANGED <<pc, pos, outbox, peer>>

\* broadcast_msg_
Broadcast(w, kind, n, next) ==
    /\ job' = [job EXCEPT ![w] = [kind |-> kind, n |-> n, then |-> next]]
    /\ Goto(w, "send")

\* A name is looked up, inserted or erased under the lock of users_, which
\* may be gone already.
UsesNames == IF main = "unwound" THEN up' \in BOOLEAN ELSE UNCHANGED up

\* A worker takes a connection from the queue. The threads are alike, so it is
\* left to one of the idle ones.
Dispatch(w) ==
    /\ pc[w] = "idle"
    /\ w = CHOOSE v \in Workers : pc[v] = "idle"
    /\ Cardinality({v \in Workers : pc[v] # "idle"}) <= max_connections
    /\ queue # <<>>
    /\ queue' = Tail(queue)
    /\ conn' = [conn EXCEPT ![w] = Head(queue)]
    /\ IF Head(queue) = NULL THEN up' = FALSE /\ UNCHANGED pc
       ELSE Goto(w, "hello") /\ UNCHANGED up
    /\ UNCHANGED <<listVars, nameVars, walkVars, clientVars, max_connections,
                   main, client, enqueued, shut, user, nickname, job, inbox, outbox,
                   peer>>

\* FAULT: the room is full one connection later.
FullLater == Len(cells) > max_connections + 1

Full == Len(cells) > max_connections

\* Case 0. The room's size is looked at once the client has said something.
RecvHello(w) ==
    /\ pc[w] = "hello"
    /\ \E m \in Incoming(conn[w]) :
        /\ Receive(conn[w], m)
        /\ nickname' = [nickname EXCEPT ![w] = m.nick]
        /\ Goto(w, IF Full THEN "refuse" ELSE IF m.kind = "HELLO" THEN "count" ELSE "remove")
    /\ UNCHANGED <<sharedVars, walkVars, clientVars, conn, user, job, outbox, up>>

\* "Room is full": the client is told, and its socket closed at once.
Refuse(w) ==
    /\ pc[w] = "refuse"
    /\ Answer(w, "BYE", "remove")
    /\ shut' = shut \cup {conn[w]}
    /\ UNCHANGED <<localVars, listVars, nameVars, mainVars, clientVars, inbox>>

\* users_.get()->count(nickname)
Count(w) ==
    /\ pc[w] = "count"
    /\ Goto(w, IF nickname[w] \in users THEN "used" ELSE "insert")
    /\ UsesNames
    /\ UNCHANGED <<sharedVars, localVars, clientVars, inbox, outbox, peer>>

\* FAULT: the client is not told.
SilentUsed(w) ==
    /\ pc[w] = "used"
    /\ Goto(w, "hello")
    /\ UNCHANGED <<sharedVars, localVars, netVars, clientVars, inbox>>

\* "... is used yet": the client may greet again.
Used(w) ==
    /\ pc[w] = "used"
    /\ Answer(w, "USED", "hello")
    /\ UNCHANGED <<sharedVars, localVars, clientVars, inbox>>

\* users_.get()->insert(nickname), whether or not it is there by now.
Insert(w) ==
    /\ pc[w] = "insert"
    /\ users' = users \cup {nickname[w]}
    /\ user' = [user EXCEPT ![w] = nickname[w]]
    /\ Goto(w, "announce")
    /\ UsesNames
    /\ UNCHANGED <<listVars, mainVars, walkVars, clientVars, auth, shut, conn,
                   nickname, job, inbox, outbox, peer>>

\* is_auth, and "Say hi to ..."
Announce(w) ==
    /\ pc[w] = "announce"
    /\ auth' = auth \cup {conn[w]}
    /\ Broadcast(w, "HI", 0, "greet")
    /\ UNCHANGED <<listVars, mainVars, walkVars, netVars, clientVars, users, shut,
                   conn, user, nickname, inbox>>

Greet(w) ==
    /\ pc[w] = "greet"
    /\ Answer(w, "WELCOME", "chat")
    /\ UNCHANGED <<sharedVars, localVars, clientVars, inbox>>

\* Case 1: the room. A type that is none of these is not looked at.
RecvChat(w) ==
    /\ pc[w] = "chat"
    /\ \E m \in Incoming(conn[w]) :
        /\ Receive(conn[w], m)
        /\ CASE m.kind = "TEXT" -> Broadcast(w, "TEXT", m.n, "chat")
             [] m.kind \in {"PING", "BYE"} ->
                    /\ Goto(w, IF m.kind = "PING" THEN "pong" ELSE "goodbye")
                    /\ UNCHANGED job
             [] OTHER -> UNCHANGED <<pc, job>>
    /\ UNCHANGED <<sharedVars, walkVars, clientVars, conn, user, nickname, outbox,
                   up>>

Pong(w) ==
    /\ pc[w] = "pong"
    /\ Answer(w, "PONG", "chat")
    /\ UNCHANGED <<sharedVars, localVars, clientVars, inbox>>

\* FAULT: the others are not told.
SilentGoodbye(w) ==
    /\ pc[w] = "goodbye"
    /\ Answer(w, "BYE", "remove")
    /\ UNCHANGED <<sharedVars, localVars, clientVars, inbox>>

\* The client is answered, and the others are told that it disconnected.
Goodbye(w) ==
    /\ pc[w] = "goodbye"
    /\ Deliver(conn[w], Reply("BYE", conn[w], 0))
    /\ Broadcast(w, "LEFT", 0, "remove")
    /\ UNCHANGED <<sharedVars, walkVars, clientVars, conn, user, nickname, inbox>>

Hears(w, r) == r # conn[w] /\ r \in auth

\* One turn of the loop of broadcast_msg_: a look at the cell and the send to
\* the connection in it. An empty pointer is dereferenced, too.
Send(w) ==
    /\ pc[w] = "send"
    /\ ReadsList(w)
    /\ IF pos[w] = 0 THEN Die \/ (Restart(w, job[w].then) /\ UNCHANGED netVars)
       ELSE IF cells = <<>> THEN Advance(w, job[w].then) /\ UNCHANGED netVars
       ELSE LET r == cells[pos[w]] IN
            IF r = NULL THEN Die
            ELSE /\ Advance(w, job[w].then)
                 /\ IF Hears(w, r) THEN Deliver(r, Reply(job[w].kind, conn[w], job[w].n))
                    ELSE UNCHANGED netVars
    /\ UNCHANGED <<nameVars, mainVars, frameVars, clientVars, cells, shut, dst,
                   inbox>>

-----------------------------------------------------------------------------
(* The end of serve_connection_. *)

\* std::remove, one cell: it looks for the connection and then moves what
\* follows one cell to the front, leaving empty pointers behind.
Remove(w) ==
    /\ pc[w] = "remove"
    /\ UNCHANGED <<nameVars, mainVars, frameVars, clientVars, shut, inbox, outbox,
                   peer>>
    /\ IF pos[w] = 0 \/ cells = <<>>
       THEN /\ \/ pos[w] = 0 /\ up' = FALSE
               \/ UNCHANGED up
            /\ Goto(w, "erase")
            /\ ReadsList(w)
            /\ UNCHANGED <<cells, pos, dst>>
       ELSE /\ Advance(w, "erase")
            /\ UNCHANGED up
            /\ LET c == cells[pos[w]] IN
               CASE dst[w] = 0 ->
                      /\ dst' = [dst EXCEPT ![w] = IF c = conn[w] THEN pos[w] ELSE 0]
                      /\ ReadsList(w)
                      /\ UNCHANGED cells
                 [] dst[w] # 0 /\ c # conn[w] ->
                      /\ cells' = [cells EXCEPT ![dst[w]] = c, ![pos[w]] = NULL]
                      /\ dst' = [dst EXCEPT ![w] = @ + 1]
                      /\ WritesList(w)
                 [] OTHER -> ReadsList(w) /\ UNCHANGED <<cells, dst>>

\* The nodes from dst on are freed. Whoever is at one of them is lost.
Cut(w) ==
    LET at(v) == IF pc[v] = "erase" THEN dst[v] ELSE pos[v] IN
    /\ cells' = SubSeq(cells, 1, dst[w] - 1)
    /\ pos' = [v \in Workers |->
                 IF v = w THEN 1
                 ELSE IF v \in Walking(w) /\ at(v) >= dst[w] THEN 0 ELSE pos[v]]
    /\ Goto(w, "forget")
    /\ UNCHANGED up

\* conns_.erase(...). With another thread at the end of the list, or with a
\* node that is gone, nothing is erased, or nodes are freed twice.
Erase(w) ==
    /\ pc[w] = "erase"
    /\ \/ dst[w] = 0 /\ Restart(w, "forget") /\ UNCHANGED <<listVars, up>>
       \/ dst[w] # 0 /\ pos[w] # 0 /\ Cut(w) /\ WritesList(w)
       \/ /\ dst[w] # 0
          /\ \/ (pos[w] = 0 \/ Cutting(w) # {}) /\ up' \in BOOLEAN
             \/ main = "push" /\ UNCHANGED up
          /\ Restart(w, "forget")
          /\ WritesList(w)
          /\ UNCHANGED cells
    /\ UNCHANGED <<nameVars, mainVars, frameVars, clientVars, shut, dst, inbox,
                   outbox, peer>>

\* FAULT: the name is not given back.
KeepNames(w) == users

\* The names after erase(user), without that name, whosever it is by now.
Without(w) == users \ {user[w]}

\* users_.get()->erase(user); the worker is free, and what was local is gone.
Forget(w) ==
    /\ pc[w] = "forget"
    /\ users' = Without(w)
    /\ UsesNames
    /\ conn' = [conn EXCEPT ![w] = NULL]
    /\ user' = [user EXCEPT ![w] = EmptyNick]
    /\ nickname' = [nickname EXCEPT ![w] = EmptyNick]
    /\ job' = [job EXCEPT ![w] = NoJob]
    /\ dst' = [dst EXCEPT ![w] = 0]
    /\ Goto(w, "idle")
    /\ UNCHANGED <<listVars, mainVars, clientVars, auth, shut, pos, inbox, outbox,
                   peer>>

-----------------------------------------------------------------------------
Accepting ==
    \/ \E c \in Conns : Accept(c)
    \/ Push
    \/ Enqueue
    \/ AcceptFails
    \/ Exit

Client(c) ==
    \/ \E n \in Choices[c] : EnterName(c, n)
    \/ ReadReply(c)
    \/ \E kind \in Kinds[c] : Say(c, kind)
    \/ CloseSocket(c)
    \/ \E fault \in Faults[c] : Vanish(c, fault)

Session(w) ==
    \/ RecvHello(w)
    \/ Refuse(w)
    \/ Count(w)
    \/ Used(w)
    \/ Insert(w)
    \/ Announce(w)
    \/ Greet(w)
    \/ RecvChat(w)
    \/ Pong(w)
    \/ Goodbye(w)
    \/ Send(w)
    \/ Remove(w)
    \/ Erase(w)
    \/ Forget(w)

Serve == \E w \in Workers : Dispatch(w)

Next ==
    /\ up
    /\ \/ Accepting
       \/ Serve
       \/ \E c \in Conns : Client(c)
       \/ \E w \in Workers : Session(w)

\* The threads are scheduled, and ::send does not block for ever. Nothing is
\* assumed of the clients, and a new one need not come.
Fairness ==
    /\ WF_vars(up /\ (Push \/ Enqueue))
    /\ WF_vars(up /\ Serve)
    /\ \A w \in Workers : WF_vars(up /\ Session(w))

Spec == Init /\ [][Next]_vars
FairSpec == Spec /\ Fairness

-----------------------------------------------------------------------------
(* Properties. *)

MainPCs == {"accept", "push", "enqueue", "unwound"}
SessionPCs == {"idle", "hello", "refuse", "count", "used", "insert", "announce",
               "greet", "chat", "pong", "goodbye", "forget"} \cup InList

TypeOK ==
    /\ max_connections \in Widths
    /\ up \in BOOLEAN
    /\ main \in MainPCs
    /\ client \in Conns \cup {NULL}
    /\ cells \in Seq(Conns \cup {NULL})
    /\ raced \in BOOLEAN
    /\ users \in SUBSET Names
    /\ auth \in SUBSET Conns
    /\ shut \in SUBSET Conns
    /\ queue \in Seq(Conns \cup {NULL})
    /\ enqueued \in Seq(Conns \cup {NULL})
    /\ pc \in [Workers -> SessionPCs]
    /\ conn \in [Workers -> Conns \cup {NULL}]
    /\ user \in [Workers -> Names]
    /\ nickname \in [Workers -> Names]
    /\ job \in [Workers -> [kind : ReplyKinds, n : 0..MaxSays, then : SessionPCs]]
    /\ pos \in [Workers -> Nat]
    /\ dst \in [Workers -> Nat]
    /\ inbox \in [Conns -> Seq(Requests)]
    /\ outbox \in [Conns -> Seq(Replies)]
    /\ peer \in [Conns -> {"open", "fin", "abort", "rst"}]
    /\ phase \in [Conns -> {"off", "name", "wait", "chat", "quit", "gone"}]
    /\ read \in [Conns -> Nat]
    /\ said \in [Conns -> 0..MaxSays]

Queued == {queue[i] : i \in 1..Len(queue)}
Served == {conn[w] : w \in Workers} \ {NULL}

\* The list is what it is meant to be, the connections accepted and not
\* finished with, each once, as long as no two threads were in it at once: a
\* session removes its own connection and no other. Within a removal there
\* are gaps.
ListMatches ==
    /\ ~raced
    /\ Changing(NULL) = {}
    =>
    /\ Len(cells) = Cardinality(Listed)
    /\ Listed \ (IF main = "enqueue" THEN {Last} ELSE {})
         = Queued \cup {conn[w] : w \in {v \in Workers : pc[v] \notin {"idle", "forget"}}}

\* The room has max_connections_ users at most, although a session compares
\* the number of connections, and enters its user several steps later, and
\* although two threads may be in the list at once.
RoomBound == Cardinality(auth \cap Listed) <= max_connections

\* A name in users_ is the name of a session under way: a name cannot be
\* lost to everyone, whichever way the sessions that bore it ended, although
\* two may have borne it, and a session without a name gives back "".
NamesAreLive ==
    \A n \in users : \E w \in Workers :
        /\ pc[w] \notin {"idle", "hello", "refuse", "count", "used", "insert"}
        /\ user[w] = n

\* The place of a message among those of its sender.
Rank(m) == CASE m.kind = "HI" -> 0
             [] m.kind = "LEFT" -> MaxSays + 1
             [] OTHER -> m.n

\* A race can bring it about that a connection is enqueued again: when another
\* one lost its cell, and the last of those left over is enqueued for it.
EnqueuedOnce(c) ==
    \A i, j \in 1..Len(enqueued) : enqueued[i] = c /\ enqueued[j] = c => i = j

\* What a user says reaches any other user in the order it was said and once
\* at most, after the news of its coming and before the news of its leaving,
\* although connections move from cell to cell while the list is walked;
\* but two sessions of one connection may say the same.
\* Messages nobody wrote (see Noise) have no place.
SenderOrder ==
    \A r \in Conns : \A i, j \in 1..Len(outbox[r]) :
        LET a == outbox[r][i]
            b == outbox[r][j]
        IN  /\ i < j
            /\ a.from = b.from
            /\ EnqueuedOnce(a.from)
            /\ {a.kind, b.kind} \subseteq {"HI", "TEXT", "LEFT"}
            /\ \A m \in {a, b} : m.kind = "TEXT" => m.n # 0
            => Rank(a) < Rank(b)

\* A user who was told that somebody came is told when that user leaves
\* (README.md:199), if the user is still there and no two threads were in the
\* list at once.
DepartureAnnounced ==
    \A c, r \in Conns :
        LET heard == {outbox[r][i].kind : i \in {j \in 1..Len(outbox[r]) : outbox[r][j].from = c}}
        IN  /\ ~raced
            /\ c # r
            /\ c \notin Listed
            /\ "HI" \in heard
            /\ r \in Listed
            /\ peer[r] = "open"
            => "LEFT" \in heard

\* A client that asked for a name and is served gets an answer, or the end of
\* its connection.
LoginAnswered ==
    \A c \in Conns :
        phase[c] = "wait" /\ c \in Served
        ~>
        \/ phase[c] # "wait"
        \/ read[c] < Len(outbox[c])
        \/ ServerClosed(c)
        \/ raced
        \/ ~up

-----------------------------------------------------------------------------
(* What the repository says of the server, and the code does not keep. *)

\* "The other clients go on working" when one disconnects (README.md:177).
RoomSurvives == up

=============================================================================
