----------------------------- MODULE ChatServer -----------------------------
(***************************************************************************)
(* The chat room of osi/Server.cpp: one session (serve_connection_) per    *)
(* accepted connection, run by the thread pool, and the table conns_ of    *)
(* the users of the room, which the sessions share.                        *)
(*                                                                         *)
(* Each full expression on conns_.get() holds the table's lock from its    *)
(* beginning to its end (Mutexed.hpp), so each is one step; what a session *)
(* learnt from the table may be stale at its next step. One ::send is one  *)
(* step too. A receive() is joined with the first table access after it,   *)
(* which no other thread can tell apart.                                   *)
(*                                                                         *)
(* A connection stands for its client as well (osi/Client.cpp), which      *)
(* greets, gives a name, chats, and may disappear at any moment.           *)
(***************************************************************************)
EXTENDS Naturals, Sequences, FiniteSets

CONSTANTS
    Conns,            \* connections, each with the client at its other end
    Nicks,            \* the nicknames of 1 to NICKNAME_MAX_SIZE characters
    EmptyNick,        \* ""
    LongNick,         \* any longer name
    NoConn,           \* "no entry" in the table
    MaxConnections,   \* max_connections_
    Choices,          \* the names each client may ask for
    Kinds,            \* the kinds of message each client sends in the room
    Faults,           \* how a client's connection may break: "fin", "abort"
    MaxSays           \* bound: messages each client sends once in the room

Names == Nicks \cup {EmptyNick, LongNick}

\* "GARBLED" is a MSG_PRIVATE whose payload has no colon, "OTHER" a type that
\* is no MessageType.
ChatKinds == {"TEXT", "PING", "PRIVATE", "GARBLED", "BYE"}
RequestKinds == ChatKinds \cup {"HELLO", "AUTH", "OTHER"}

ASSUME ChatAssumption ==
    /\ IsFiniteSet(Nicks)
    /\ EmptyNick \notin Nicks
    /\ LongNick \notin Nicks \cup {EmptyNick}
    /\ NoConn \notin Conns
    /\ MaxConnections \in Nat
    /\ Choices \in [Conns -> SUBSET Names]
    /\ Kinds \in [Conns -> SUBSET ChatKinds]
    /\ Faults \subseteq {"fin", "abort"}
    /\ MaxSays \in Nat

VARIABLES
    up,         \* the server process is alive
    conns,      \* Server::conns_, NoConn where there is no entry
    queue,      \* the pool: accepted, waiting for a worker,
    active,     \*   being served by a worker,
    finished,   \*   serve_connection_ has returned
    pc,         \* where each session is
    user,       \* each session's local `user`
    nickname,   \* each session's local `nickname`
    job,        \* what each session is sending, to whom, and what comes next
    inbox,      \* requests that a client sent and its session has not received
    outbox,     \* everything the server's sends put on a client's connection
    peer,       \* the state of a client's end of the connection
    phase,      \* where each client is
    said        \* how many messages each client sent in the room

tableVars == <<conns, user, nickname>>
poolVars == <<queue, active, finished>>
netVars == <<outbox, peer, up>>
clientVars == <<phase, said>>
vars == <<tableVars, poolVars, pc, job, inbox, netVars, clientVars>>

\* ThreadPool provides this; the pool is one thread wider than the room.
Pool == INSTANCE TaskPool WITH Tasks <- Conns, Width <- MaxConnections + 1

Request(kind, nick, n) == [kind |-> kind, nick |-> nick, n |-> n]

Requests == [kind : RequestKinds, nick : Names, n : 0..MaxSays]

\* MSG_SERVER_INFO is "HI" or "LEFT" by its text; `from` and `n` identify the
\* request that a chat message repeats, `nick` the addressee of a private one.
Reply(kind, from, nick, n) ==
    [kind |-> kind, from |-> from, nick |-> nick, n |-> n]

ReplyKinds == {"WELCOME", "ERROR", "HI", "LEFT", "TEXT", "PRIVATE", "PONG", "BYE"}

Replies == [kind : ReplyKinds, from : Conns, nick : Names, n : 0..MaxSays]

\* What the server says to c on its own behalf.
Plain(kind, c) == Reply(kind, c, EmptyNick, 0)

SessionPCs == {"idle", "queued", "hello", "auth", "register", "announce",
               "greet", "chat", "lookup", "send", "left", "cleanup", "done"}

Registered == {n \in Nicks : conns[n] # NoConn}

Init ==
    /\ up = TRUE
    /\ conns = [n \in Nicks |-> NoConn]
    /\ Pool!PoolInit
    /\ pc = [c \in Conns |-> "idle"]
    /\ user = [c \in Conns |-> EmptyNick]
    /\ nickname = [c \in Conns |-> EmptyNick]
    /\ job = [c \in Conns |->
                [msg |-> Plain("WELCOME", c), to |-> {}, then |-> "auth"]]
    /\ inbox = [c \in Conns |-> <<>>]
    /\ outbox = [c \in Conns |-> <<>>]
    /\ peer = [c \in Conns |-> "open"]
    /\ phase = [c \in Conns |-> "off"]
    /\ said = [c \in Conns |-> 0]

Goto(c, next) == pc' = [pc EXCEPT ![c] = next]

-----------------------------------------------------------------------------
(* The clients. *)

SendRequest(c, m) == inbox' = [inbox EXCEPT ![c] = Append(@, m)]

\* connect() and the greeting; the server's main thread accepts the connection
\* and enqueues it.
Connect(c) ==
    /\ phase[c] = "off"
    /\ phase' = [phase EXCEPT ![c] = "hello"]
    /\ SendRequest(c, Request("HELLO", EmptyNick, 0))
    /\ Pool!Submit(c)
    /\ Goto(c, "queued")
    /\ UNCHANGED <<tableVars, job, netVars, said>>

\* A reply other than MSG_ERROR makes the client ask its user for a name.
EnterNick(c, n) ==
    /\ phase[c] = "hello"
    /\ outbox[c] # <<>>
    /\ outbox[c][1].kind # "ERROR"
    /\ n \in Choices[c]
    /\ phase' = [phase EXCEPT ![c] = "auth"]
    /\ SendRequest(c, Request("AUTH", n, 0))
    /\ UNCHANGED <<tableVars, poolVars, pc, job, netVars, said>>

\* Any second message that is not MSG_ERROR lets the client into the room.
EnterRoom(c) ==
    /\ phase[c] = "auth"
    /\ Len(outbox[c]) > 1
    /\ outbox[c][2].kind # "ERROR"
    /\ phase' = [phase EXCEPT ![c] = "chat"]
    /\ UNCHANGED <<tableVars, poolVars, pc, job, inbox, netVars, said>>

\* The user enters a line: a text, /ping, /private n or /quit. After /quit
\* the client only waits for the server's MSG_BYE.
Say(c, kind, n) ==
    /\ phase[c] = "chat"
    /\ said[c] < MaxSays
    /\ said' = [said EXCEPT ![c] = @ + 1]
    /\ SendRequest(c, Request(kind, n, said[c] + 1))
    /\ phase' = IF kind = "BYE" THEN [phase EXCEPT ![c] = "quit"] ELSE phase
    /\ UNCHANGED <<tableVars, poolVars, pc, job, netVars>>

Dismissed(c) ==
    \/ phase[c] = "hello" /\ outbox[c] # <<>> /\ outbox[c][1].kind = "ERROR"
    \/ phase[c] = "auth" /\ Len(outbox[c]) > 1 /\ outbox[c][2].kind = "ERROR"
    \/ phase[c] \in {"chat", "quit"} /\ \E i \in 1..Len(outbox[c]) : outbox[c][i].kind = "BYE"

\* The client closes its socket: it was refused, or it received MSG_BYE.
CloseSocket(c) ==
    /\ Dismissed(c)
    /\ phase' = [phase EXCEPT ![c] = "gone"]
    /\ peer' = [peer EXCEPT ![c] = "fin"]
    /\ UNCHANGED <<tableVars, poolVars, pc, job, inbox, outbox, up, said>>

\* The messages a client has certainly read in its present phase.
Read(c) == IF phase[c] = "hello" THEN 0 ELSE IF phase[c] = "auth" THEN 1 ELSE 2

\* The client's process ends. TCP turns the close of a socket with unread data
\* into a reset.
Vanish(c, fault) ==
    /\ phase[c] \notin {"off", "gone"}
    /\ fault = "abort" => Len(outbox[c]) > Read(c)
    /\ phase' = [phase EXCEPT ![c] = "gone"]
    /\ peer' = [peer EXCEPT ![c] = fault]
    /\ UNCHANGED <<tableVars, poolVars, pc, job, inbox, outbox, up, said>>

-----------------------------------------------------------------------------
(* What a session needs of its connection. *)

\* When recv() fails, receive() returns a message it never wrote to: it may
\* be of any type, and its text is nobody's (n is 0).
Noise == [kind : RequestKinds, nick : Names, n : {0}]

\* FAULT: the end of the connection is not noticed.
OnlyMessages(c) == IF inbox[c] # <<>> THEN {Head(inbox[c])} ELSE {}

\* FAULT: the latest message is read in place of the oldest one.
LatestIncoming(c) ==
    IF inbox[c] # <<>> THEN {inbox[c][Len(inbox[c])]}
    ELSE IF peer[c] = "open" THEN {} ELSE {Request("BYE", EmptyNick, 0)}

\* What StreamSocket::receive() may return now; nothing while it blocks.
Incoming(c) ==
    IF inbox[c] # <<>> THEN {Head(inbox[c])}
    ELSE CASE peer[c] = "open" -> {}
           [] peer[c] = "abort" -> Noise
           [] OTHER -> {Request("BYE", EmptyNick, 0)}

\* receive() returns m. The error of a reset is reported once, after which
\* recv() returns 0.
Receive(c, m) ==
    /\ m \in Incoming(c)
    /\ inbox' = [inbox EXCEPT ![c] = IF @ = <<>> THEN @ ELSE Tail(@)]
    /\ peer' = [peer EXCEPT ![c] = IF inbox[c] = <<>> /\ @ = "abort" THEN "rst" ELSE @]
    /\ UNCHANGED <<outbox, up>>

\* One ::send to r. Data for a closed socket is answered by a reset, and a
\* send after that raises SIGPIPE, which nobody handles; a send may also be
\* the one that is told of the reset by an error code.
Deliver(r, m) ==
    \/ /\ peer[r] = "open"
       /\ outbox' = [outbox EXCEPT ![r] = Append(@, m)]
       /\ UNCHANGED <<peer, up>>
    \/ /\ peer[r] = "fin"
       /\ \E p \in {"fin", "rst"} : peer' = [peer EXCEPT ![r] = p]
       /\ UNCHANGED <<outbox, up>>
    \/ /\ peer[r] = "abort"
       /\ peer' = [peer EXCEPT ![r] = "rst"]
       /\ UNCHANGED <<outbox, up>>
    \/ /\ peer[r] = "rst"
       /\ up' \in BOOLEAN
       /\ UNCHANGED <<outbox, peer>>

\* The session sends m to each of `to`, one after the other, and goes on at
\* `next`.
StartSending(c, m, to, next) ==
    /\ job' = [job EXCEPT ![c] = [msg |-> m, to |-> to, then |-> next]]
    /\ Goto(c, IF to = {} THEN next ELSE "send")

\* FAULT: a broadcast goes to whoever is connected.
AllServed(c) == active \ {c}

\* The connections broadcast_msg_ copies from the table for source c.
Others(c) == {conns[n] : n \in Registered} \ {c}

\* Case 0: the greeting. The room is full or not before the type is looked at.
RecvHello(c) ==
    /\ pc[c] = "hello"
    /\ \E m \in Incoming(c) :
        /\ Receive(c, m)
        /\ IF m.kind = "HELLO" /\ Cardinality(Registered) < MaxConnections
           THEN StartSending(c, Plain("WELCOME", c), {c}, "auth")
           ELSE StartSending(c, Plain("ERROR", c), {c}, "cleanup")
    /\ UNCHANGED <<tableVars, poolVars, clientVars>>

\* FAULT: the length of the name is not checked.
TakenOrEmpty(n) == n \in Registered \cup {EmptyNick}

\* In use, empty or too long.
Refused(n) == n \in Registered \/ n \notin Nicks

\* Case 1, up to the decision.
RecvAuth(c) ==
    /\ pc[c] = "auth"
    /\ \E m \in Incoming(c) :
        /\ Receive(c, m)
        /\ nickname' = [nickname EXCEPT ![c] = m.nick]
        /\ IF m.kind # "AUTH" \/ Refused(m.nick)
           THEN StartSending(c, Plain("ERROR", c), {c}, "cleanup")
           ELSE Goto(c, "register") /\ UNCHANGED job
    /\ UNCHANGED <<conns, user, poolVars, clientVars>>

\* Case 1, the name is entered in the table: whoever is there is replaced.
Register(c) ==
    /\ pc[c] = "register"
    /\ conns' = [conns EXCEPT ![nickname[c]] = c]
    /\ user' = [user EXCEPT ![c] = nickname[c]]
    /\ Goto(c, "announce")
    /\ UNCHANGED <<nickname, poolVars, job, inbox, netVars, clientVars>>

\* Case 1, "Say hi to ...": broadcast_msg_ copies the table and sends from
\* the copy.
Announce(c) ==
    /\ pc[c] = "announce"
    /\ StartSending(c, Plain("HI", c), Others(c), "greet")
    /\ UNCHANGED <<tableVars, poolVars, inbox, netVars, clientVars>>

\* Case 1, "Hello, ...!", the end of the authentication.
Greet(c) ==
    /\ pc[c] = "greet"
    /\ StartSending(c, Plain("WELCOME", c), {c}, "chat")
    /\ UNCHANGED <<tableVars, poolVars, inbox, netVars, clientVars>>

-----------------------------------------------------------------------------
(* Case 2: the room. *)

Chat(c, m) ==
    /\ pc[c] = "chat"
    /\ Receive(c, m)
    /\ UNCHANGED <<tableVars, poolVars, clientVars>>

RecvText(c) ==
    \E m \in Incoming(c) :
        /\ m.kind = "TEXT"
        /\ Chat(c, m)
        /\ StartSending(c, Reply("TEXT", c, EmptyNick, m.n), Others(c), "chat")

\* FAULT: a ping is read and forgotten.
SilentPing(c) ==
    \E m \in Incoming(c) :
        /\ m.kind = "PING"
        /\ Chat(c, m)
        /\ UNCHANGED <<pc, job>>

RecvPing(c) ==
    \E m \in Incoming(c) :
        /\ m.kind = "PING"
        /\ Chat(c, m)
        /\ StartSending(c, Reply("PONG", c, EmptyNick, m.n), {c}, "chat")

\* MSG_BYE, or the end of the connection: the client is answered first.
RecvBye(c) ==
    \E m \in Incoming(c) :
        /\ m.kind = "BYE"
        /\ Chat(c, m)
        /\ StartSending(c, Plain("BYE", c), {c}, "left")

\* FAULT: a departure is not announced.
SilentLeft(c) ==
    /\ pc[c] = "left"
    /\ Goto(c, "cleanup")
    /\ UNCHANGED <<tableVars, poolVars, job, inbox, netVars, clientVars>>

\* "... disconnected"
Left(c) ==
    /\ pc[c] = "left"
    /\ StartSending(c, Plain("LEFT", c), Others(c), "cleanup")
    /\ UNCHANGED <<tableVars, poolVars, inbox, netVars, clientVars>>

\* private_msg_, the test that the addressee is there.
RecvPrivate(c) ==
    \E m \in Incoming(c) :
        /\ m.kind = "PRIVATE"
        /\ Chat(c, m)
        /\ IF m.nick \in Registered
           THEN /\ job' = [job EXCEPT ![c].msg = Reply("PRIVATE", c, m.nick, m.n)]
                /\ Goto(c, "lookup")
           ELSE StartSending(c, Plain("ERROR", c), {c}, "chat")

\* private_msg_, the addressee is looked up again: at() throws when it has
\* left since, and the exception ends the session of the sender.
Lookup(c) ==
    /\ pc[c] = "lookup"
    /\ LET to == job[c].msg.nick IN
       IF to \in Registered
       THEN StartSending(c, job[c].msg, {conns[to]}, "chat")
       ELSE Goto(c, "cleanup") /\ UNCHANGED job
    /\ UNCHANGED <<tableVars, poolVars, inbox, netVars, clientVars>>

\* decodePrivateMsg_ throws, and the session ends.
RecvGarbled(c) ==
    \E m \in Incoming(c) :
        /\ m.kind = "GARBLED"
        /\ Chat(c, m)
        /\ Goto(c, "cleanup")
        /\ UNCHANGED job

\* No other type is looked at.
RecvOther(c) ==
    \E m \in Incoming(c) :
        /\ m.kind \notin ChatKinds
        /\ Chat(c, m)
        /\ UNCHANGED <<pc, job>>

\* Who is still to be sent to after r.
Remaining(c, r) == job[c].to \ {r}

\* One send of a broadcast or of a reply. The table is an unordered_map, so
\* its copy is iterated in any order.
Send(c) ==
    /\ pc[c] = "send"
    /\ \E r \in job[c].to :
        /\ Deliver(r, job[c].msg)
        /\ StartSending(c, job[c].msg, Remaining(c, r), job[c].then)
    /\ UNCHANGED <<tableVars, poolVars, inbox, clientVars>>

\* FAULT: the entry stays in the table.
Unerased(c) == conns

\* FAULT: the name asked for is erased, although a session that was refused
\* does not bear it.
ErasedAsked(c) == [n \in Nicks |-> IF n = nickname[c] THEN NoConn ELSE conns[n]]

\* The table after erase(user): without an entry of that name, whosever it is.
\* There is none under "", the name of a session that never registered.
Erased(c) == [n \in Nicks |-> IF n = user[c] THEN NoConn ELSE conns[n]]

\* The end of serve_connection_; the worker is free.
Cleanup(c) ==
    /\ pc[c] = "cleanup"
    /\ conns' = Erased(c)
    /\ Pool!Finish(c)
    /\ Goto(c, "done")
    /\ UNCHANGED <<user, nickname, job, inbox, netVars, clientVars>>

\* FAULT: a thread per connection.
DispatchAtOnce(c) ==
    /\ queue # <<>>
    /\ c = Head(queue)
    /\ queue' = Tail(queue)
    /\ active' = active \cup {c}
    /\ Goto(c, "hello")
    /\ UNCHANGED <<finished, tableVars, job, inbox, netVars, clientVars>>

\* A worker takes the connection from the pool's queue.
Dispatch(c) ==
    /\ Pool!Start(c)
    /\ Goto(c, "hello")
    /\ UNCHANGED <<tableVars, job, inbox, netVars, clientVars>>

-----------------------------------------------------------------------------
Client(c) ==
    \/ Connect(c)
    \/ \E n \in Names : EnterNick(c, n)
    \/ EnterRoom(c)
    \/ \E kind \in Kinds[c] \ {"PRIVATE"} : Say(c, kind, EmptyNick)
    \/ "PRIVATE" \in Kinds[c] /\ \E n \in Nicks : Say(c, "PRIVATE", n)
    \/ CloseSocket(c)
    \/ \E fault \in Faults : Vanish(c, fault)

Session(c) ==
    \/ RecvHello(c)
    \/ RecvAuth(c)
    \/ Register(c)
    \/ Announce(c)
    \/ Greet(c)
    \/ RecvText(c)
    \/ RecvPing(c)
    \/ RecvBye(c)
    \/ Left(c)
    \/ RecvPrivate(c)
    \/ Lookup(c)
    \/ RecvGarbled(c)
    \/ RecvOther(c)
    \/ Send(c)
    \/ Cleanup(c)

Serve == \E c \in Conns : Dispatch(c)

Next ==
    /\ up
    /\ \/ \E c \in Conns : Client(c) \/ Session(c)
       \/ Serve

\* A worker that can run is scheduled, and ::send does not block for ever.
\* Nothing is assumed of the clients.
Fairness ==
    /\ WF_vars(up /\ Serve)
    /\ \A c \in Conns : WF_vars(up /\ Session(c))

Spec == Init /\ [][Next]_vars
FairSpec == Spec /\ Fairness

-----------------------------------------------------------------------------
(* Properties. *)

TypeOK ==
    /\ up \in BOOLEAN
    /\ conns \in [Nicks -> Conns \cup {NoConn}]
    /\ queue \in Seq(Conns)
    /\ active \in SUBSET Conns
    /\ finished \in SUBSET Conns
    /\ pc \in [Conns -> SessionPCs]
    /\ user \in [Conns -> Nicks \cup {EmptyNick}]
    /\ nickname \in [Conns -> Names]
    /\ job \in [Conns -> [msg : Replies, to : SUBSET Conns, then : SessionPCs]]
    /\ inbox \in [Conns -> Seq(Requests)]
    /\ outbox \in [Conns -> Seq(Replies)]
    /\ peer \in [Conns -> {"open", "fin", "abort", "rst"}]
    /\ phase \in [Conns -> {"off", "hello", "auth", "chat", "quit", "gone"}]
    /\ said \in [Conns -> 0..MaxSays]

\* How a session's state goes with the pool's: it is served from "hello" to
\* "cleanup", has no name before it registers, and registers a name that fits.
SessionState ==
    /\ \A i, j \in 1..Len(queue) : queue[i] = queue[j] => i = j
    /\ \A c \in Conns :
        /\ c \in active <=> pc[c] \notin {"idle", "queued", "done"}
        /\ c \in Pool!Queued <=> pc[c] = "queued"
        /\ c \in finished <=> pc[c] = "done"
        /\ pc[c] \in {"idle", "queued", "hello", "auth", "register"} => user[c] = EmptyNick
        /\ pc[c] = "send" =>
            /\ job[c].then \in {"auth", "greet", "chat", "left", "cleanup"}
            /\ job[c].then = "auth" => user[c] = EmptyNick
        /\ pc[c] = "register" => nickname[c] \in Nicks

\* An entry of the table belongs to a session that is being served under that
\* name. A session that ends leaves no entry behind, however it ends and even
\* when another session took its name: messages are never sent to a
\* connection nobody serves.
NoStaleEntry ==
    \A n \in Registered :
        /\ conns[n] \in active
        /\ user[conns[n]] = n

\* A user of the room is in the table, where broadcasts and private messages
\* look for it, whatever other sessions enter and erase there: only a session
\* that bore the same name can have taken its entry. Sessions that were
\* refused that name erase nothing of it.
SeatKept ==
    \A c \in active :
        user[c] # EmptyNick =>
            \/ conns[user[c]] = c
            \/ \E d \in Conns \ {c} : user[d] = user[c]

\* The greeting's test for room and the registration are two steps, so the
\* room may hold more than max_connections_ users (osi/README.md:187), but one
\* more at most: a session holds one of the pool's max_connections_ + 1
\* threads.
CapacitySlack == Cardinality(Registered) <= MaxConnections + 1

\* Whether message m of session c may be sent to r: a broadcast is for the
\* registered users but its sender, a private message for the bearer of the
\* name, a reply for the client it answers.
MayHear(r, m) ==
    CASE m.kind \in {"TEXT", "HI", "LEFT"} -> m.from # r /\ user[r] # EmptyNick
      [] m.kind = "PRIVATE" -> m.nick \in Nicks /\ user[r] = m.nick
      [] OTHER -> m.from = r

\* Those whom a session has decided to send to may all hear it, although they
\* may have left since.
JobAudience ==
    \A c \in Conns :
        /\ pc[c] = "send" => \A r \in job[c].to : MayHear(r, job[c].msg)
        /\ pc[c] = "lookup" => job[c].msg.kind = "PRIVATE"

\* Who hears what: a broadcast reaches users who have registered, and never
\* its sender; a private message reaches the one who bears the name it was
\* sent to; a reply reaches the client it answers. The table a session reads
\* and the users it then sends to are two moments.
Audience ==
    \A r \in Conns : \A i \in 1..Len(outbox[r]) : MayHear(r, outbox[r][i])

\* The place of a message among those its sender causes.
Rank(m) == CASE m.kind = "HI" -> 0
             [] m.kind = "LEFT" -> MaxSays + 1
             [] OTHER -> m.n

\* What c says reaches every other user in the order c said it, each message
\* once at most, after the news that c came and before the news that it left,
\* although the sends of several sessions interleave on one connection.
\* Messages nobody wrote (see Noise) have no place.
SenderOrder ==
    \A r \in Conns : \A i, j \in 1..Len(outbox[r]) :
        LET a == outbox[r][i]
            b == outbox[r][j]
        IN  /\ i < j
            /\ a.from = b.from
            /\ {a.kind, b.kind} \subseteq {"HI", "TEXT", "PRIVATE", "LEFT"}
            /\ \A m \in {a, b} : m.kind \in {"TEXT", "PRIVATE"} => m.n # 0
            => Rank(a) < Rank(b)

\* A client that takes itself to be in the room has been registered: what it
\* took for its welcome was not a message meant for others, nor an error.
WelcomeIsEarned ==
    \A c \in Conns : phase[c] \in {"chat", "quit"} => user[c] # EmptyNick

\* A user who was told that somebody came is told when that user leaves
\* (osi/README.md:199). `r` is still in the room and connected.
DepartureAnnounced ==
    \A c, r \in Conns :
        LET heard == {outbox[r][i].kind : i \in {j \in 1..Len(outbox[r]) : outbox[r][j].from = c}}
        IN  /\ c # r
            /\ pc[c] = "done"
            /\ pc[r] = "chat"
            /\ peer[r] = "open"
            /\ "HI" \in heard
            => "LEFT" \in heard

\* A user whose connection broke is taken out of the table, unless the whole
\* server goes down.
LeaverRemoved ==
    \A c \in Conns :
        peer[c] # "open" ~> ~up \/ \A n \in Registered : conns[n] # c

\* Every /ping is answered, or its sender is gone before the answer.
PingAnswered ==
    \A c \in Conns, k \in 1..MaxSays :
        (\E i \in 1..Len(inbox[c]) : inbox[c][i].kind = "PING" /\ inbox[c][i].n = k)
        ~>
        \/ \E i \in 1..Len(outbox[c]) : outbox[c][i].kind = "PONG" /\ outbox[c][i].n = k
        \/ peer[c] # "open"
        \/ pc[c] \in {"cleanup", "done"}
        \/ ~up

-----------------------------------------------------------------------------
(* What the repository says of the server, and the code does not keep. *)

\* Two users of the room have different names: a client whose name exists is
\* refused (osi/README.md:197).
UniqueNick ==
    \A c, d \in Conns :
        /\ c # d
        /\ pc[c] = "chat"
        /\ pc[d] = "chat"
        => user[c] # user[d]

\* private_msg_ returns false when the message is not delivered
\* (Server.hpp:42), and its caller tells the sender: a session ends only after
\* a goodbye or an error was sent, or when the client is gone.
PrivateReportsMissing ==
    \A c \in Conns :
        /\ pc[c] = "cleanup"
        /\ peer[c] = "open"
        => \E i \in 1..Len(outbox[c]) : outbox[c][i].kind \in {"BYE", "ERROR"}

=============================================================================
