----------------------------- MODULE ChatClient -----------------------------
(***************************************************************************)
(* The chat client, osi/Client.cpp, and the older one it was made from,    *)
(* tcp_pthread/Client.cpp. The main thread connects, names its user and    *)
(* then reads the keyboard; a listening thread shows what the server sends *)
(* and ends the room for both. They share the socket and is_running_.      *)
(*                                                                         *)
(* One server session is the environment. What it may send at which moment *)
(* is what ChatServer and PthreadRoom let a session send to its client.    *)
(***************************************************************************)
EXTENDS Naturals, Sequences

CONSTANTS
    Programs,   \* which of the clients: "osi", "tcp_pthread"
    Kinds,      \* the kinds of line the user enters: "TEXT", "PING", "PRIVATE", "BYE"
    MaxLines,   \* bound: lines and names the user enters
    MaxTalk     \* bound: messages of the others

ChatKinds == {"TEXT", "PING", "PRIVATE"}

ASSUME ClientAssumption ==
    /\ Programs \subseteq {"osi", "tcp_pthread"}
    /\ Kinds \subseteq ChatKinds \cup {"BYE"}
    /\ MaxLines \in Nat
    /\ MaxTalk \in Nat

VARIABLES
    program,     \* which client this is
    alive,       \* its process has not been killed
    main,        \* where the main thread is
    listener,    \* where the listening thread is
    is_running,
    fd,          \* the client's socket: "open" or "closed"
    terminal,    \* "raw" or "cooked"
    line,        \* the kind of the line being sent
    shown,       \* the messages of the others that were shown, in that order
    typed,       \* how many lines and names were entered
    lost,        \* how many lines went to the closed socket
    sent,        \* the requests put on the connection
    session,     \* where the server's session is
    link,        \* the connection as the client's kernel sees it
    toServer,    \* requests not yet received
    toClient,    \* messages not yet received
    talk         \* how many messages of the others the server has sent

threadVars == <<main, listener, is_running, line>>
screenVars == <<terminal, shown, typed, lost>>
serverVars == <<session, talk>>
netVars == <<toServer, toClient, link, fd, sent>>
vars == <<program, alive, threadVars, screenVars, serverVars, netVars>>

Message(kind, n) == [kind |-> kind, n |-> n]
MessageKinds == {"WELCOME", "ERROR", "USED", "TEXT", "PONG", "BYE"}
Messages == [kind : MessageKinds, n : 0..MaxTalk]

Init ==
    /\ program \in Programs
    /\ alive = TRUE
    /\ main = "start"
    /\ listener = "none"
    /\ is_running = FALSE
    /\ fd = "open"
    /\ terminal = "cooked"
    /\ line = "TEXT"
    /\ shown = <<>>
    /\ typed = 0
    /\ lost = 0
    /\ sent = <<>>
    /\ session = "hello"
    /\ link = "open"
    /\ toServer = <<>>
    /\ toClient = <<>>
    /\ talk = 0

-----------------------------------------------------------------------------
(* The server's session. *)

Push(kind, n) == toClient' = Append(toClient, Message(kind, n))

\* The session is over and the connection closed from the server's side.
Finish == session' = "over" /\ link' = "fin"

Proceed(next) == session' = next /\ UNCHANGED link

\* A name or a greeting is answered. The user is in the room's table before
\* the welcome is sent.
ServeLogin(kind) ==
    \/ /\ program = "osi" /\ session = "hello" /\ kind = "HELLO"
       /\ \/ Push("WELCOME", 0) /\ Proceed("auth")
          \/ Push("ERROR", 0) /\ Finish
    \/ /\ program = "osi" /\ session = "auth" /\ kind = "AUTH"
       /\ \/ UNCHANGED toClient /\ Proceed("entered")
          \/ Push("ERROR", 0) /\ Finish
    \/ /\ program = "tcp_pthread" /\ session = "hello"
       /\ \/ UNCHANGED toClient /\ Proceed("entered")
          \/ Push("USED", 0) /\ Proceed("hello")
          \/ Push("BYE", 0) /\ Finish

\* A line is answered. An unknown addressee is an error.
ServeLine(kind) ==
    /\ session = "room"
    /\ CASE kind = "PING" -> Push("PONG", 0) /\ Proceed("room")
         [] kind = "BYE" -> Push("BYE", 0) /\ Proceed("left")
         [] kind = "PRIVATE" -> (Push("ERROR", 0) \/ UNCHANGED toClient) /\ Proceed("room")
         [] OTHER -> UNCHANGED toClient /\ Proceed("room")

Receive ==
    /\ toServer # <<>>
    /\ ServeLogin(Head(toServer)) \/ ServeLine(Head(toServer))
    /\ toServer' = Tail(toServer)
    /\ UNCHANGED <<program, alive, threadVars, screenVars, talk, fd, sent>>

\* The welcome, after the broadcasts that came before it.
Welcome ==
    /\ session = "entered"
    /\ Push("WELCOME", 0)
    /\ Proceed("room")
    /\ UNCHANGED <<program, alive, threadVars, screenVars, talk, fd, sent, toServer>>

\* A broadcast or a private message of another user.
Talk ==
    /\ session \in {"entered", "room", "left"}
    /\ talk < MaxTalk
    /\ talk' = talk + 1
    /\ Push("TEXT", talk + 1)
    /\ UNCHANGED <<program, alive, threadVars, screenVars, session, link, fd, sent, toServer>>

\* The session ends after the goodbye, or because the client is gone.
Close ==
    /\ session = "left" \/ (session # "over" /\ toServer = <<>> /\ (fd = "closed" \/ main = "done"))
    /\ Finish
    /\ UNCHANGED <<program, alive, threadVars, screenVars, talk, fd, sent, toServer, toClient>>

\* The server goes down; what it had not read makes that a reset.
ServerDies ==
    /\ session # "over"
    /\ session' = "over"
    /\ link' = IF toServer = <<>> THEN "fin" ELSE "abort"
    /\ UNCHANGED <<program, alive, threadVars, screenVars, talk, fd, sent, toServer, toClient>>

-----------------------------------------------------------------------------
(* StreamSocket. *)

\* One ::send. A peer that has closed answers with a reset, and after that
\* SIGPIPE kills the process.
Transmit(kind) ==
    \/ /\ link = "open"
       /\ toServer' = Append(toServer, kind)
       /\ UNCHANGED <<link, alive>>
    \/ /\ link = "fin"
       /\ link' \in {"fin", "rst"}
       /\ UNCHANGED <<toServer, alive>>
    \/ /\ link = "abort"
       /\ link' = "rst"
       /\ UNCHANGED <<toServer, alive>>
    \/ /\ link = "rst"
       /\ alive' \in BOOLEAN
       /\ UNCHANGED <<toServer, link>>

Send(kind) ==
    /\ Transmit(kind)
    /\ sent' = IF alive' THEN Append(sent, kind) ELSE sent
    /\ UNCHANGED <<toClient, fd>>

\* FAULT: the end of the stream is not noticed.
RecvMessage(m) ==
    /\ toClient # <<>>
    /\ m = Head(toClient)
    /\ toClient' = Tail(toClient)
    /\ UNCHANGED <<toServer, link, fd, sent>>

\* receive() returns m. The end of the stream is a MSG_BYE; when recv() fails,
\* m was not written to, and is of any type.
Recv(m) ==
    /\ \/ toClient # <<>> /\ m = Head(toClient)
       \/ toClient = <<>> /\ link \in {"fin", "rst"} /\ m = Message("BYE", 0)
       \/ toClient = <<>> /\ link = "abort" /\ m \in [kind : MessageKinds, n : {0}]
    /\ toClient' = IF toClient = <<>> THEN <<>> ELSE Tail(toClient)
    /\ link' = IF toClient = <<>> /\ link = "abort" THEN "rst" ELSE link
    /\ UNCHANGED <<toServer, fd, sent>>

\* FAULT: what is not a message of another user counts as one.
ShowAll(m) == shown' = Append(shown, m.n)

\* FAULT: what comes in place of the welcome is not printed.
ShowInRoom(m) == shown' = IF m.n = 0 \/ listener = "none" THEN shown ELSE Append(shown, m.n)

\* printFormatted, or the reply printed by authRoutine_.
Show(m) == shown' = IF m.n = 0 THEN shown ELSE Append(shown, m.n)

-----------------------------------------------------------------------------
(* The main thread. *)

At(from, to) == main = from /\ main' = to

\* No address could be connected to: socket_ is empty, and used.
ConnectFails ==
    /\ main = "start"
    /\ alive' = FALSE
    /\ UNCHANGED <<program, threadVars, screenVars, serverVars, netVars>>

Connect ==
    /\ program = "tcp_pthread"
    /\ At("start", "name")
    /\ UNCHANGED <<program, alive, listener, is_running, line, screenVars,
                   serverVars, netVars>>

\* osi: connect() and MSG_HELLO.
Hello ==
    /\ program = "osi"
    /\ At("start", "reply")
    /\ Send("HELLO")
    /\ UNCHANGED <<program, listener, is_running, line, screenVars, serverVars>>

RecvHelloReply ==
    \E m \in Messages :
        /\ main = "reply"
        /\ Recv(m)
        /\ main' = IF m.kind = "ERROR" THEN "done" ELSE "name"
        /\ UNCHANGED <<program, alive, listener, is_running, line, screenVars, serverVars>>

\* The user enters a name: MSG_AUTH, or MSG_HELLO of tcp_pthread.
EnterName ==
    /\ At("name", "answer")
    /\ typed < MaxLines
    /\ typed' = typed + 1
    /\ Send(IF program = "osi" THEN "AUTH" ELSE "HELLO")
    /\ UNCHANGED <<program, listener, is_running, line, terminal, shown, lost,
                   serverVars>>

\* FAULT: only an error ends the login.
AfterErrorOnly(kind) == IF kind = "ERROR" THEN "done" ELSE "enter"

\* How authRoutine_ goes on after the reply to the name.
AfterReply(kind) ==
    IF program = "osi" THEN IF kind = "ERROR" THEN "done" ELSE "enter"
    ELSE CASE kind = "BYE" -> "done"
           [] kind = "WELCOME" -> "enter"
           [] OTHER -> "name"

RecvReply ==
    \E m \in Messages :
        /\ main = "answer"
        /\ Recv(m)
        /\ main' = AfterReply(m.kind)
        /\ Show(m)
        /\ UNCHANGED <<program, alive, listener, is_running, line, terminal, typed, lost,
                       serverVars>>

\* FAULT: the listening thread looks at is_running_ before it is set.
StartEarly ==
    /\ At("enter", "type")
    /\ is_running' = TRUE
    /\ terminal' = "raw"
    /\ listener' = "ended"
    /\ UNCHANGED <<program, alive, line, shown, typed, lost, serverVars, netVars>>

\* The room: is_running_ is set before the listening thread is created.
Start ==
    /\ At("enter", "type")
    /\ is_running' = TRUE
    /\ terminal' = "raw"
    /\ listener' = "recv"
    /\ UNCHANGED <<program, alive, line, shown, typed, lost, serverVars, netVars>>

\* writerRoutine_: a line is complete, and the room was not over.
Enter(kind) ==
    /\ is_running
    /\ kind = "PRIVATE" => program = "osi"
    /\ At("type", "send")
    /\ typed < MaxLines
    /\ typed' = typed + 1
    /\ line' = kind
    /\ UNCHANGED <<program, alive, listener, is_running, terminal, shown, lost,
                   serverVars, netVars>>

\* A key after the room was over, or the end of the input.
StopTyping ==
    /\ At("type", "join")
    /\ UNCHANGED <<program, alive, listener, is_running, line, screenVars,
                   serverVars, netVars>>

\* FAULT: the writer goes on after /quit.
AlwaysType == "type"

AfterLine == IF line = "BYE" THEN "join" ELSE "type"

\* The line is sent, although the room may be over by now.
SendLine ==
    /\ At("send", AfterLine)
    /\ IF fd = "open" THEN Send(line) /\ UNCHANGED lost
       ELSE lost' = lost + 1 /\ UNCHANGED <<alive, netVars>>
    /\ UNCHANGED <<program, listener, is_running, line, terminal, shown, typed,
                   serverVars>>

\* ~Client.
Join ==
    /\ listener = "ended"
    /\ At("join", "done")
    /\ terminal' = "cooked"
    /\ UNCHANGED <<program, alive, listener, is_running, line, shown, typed, lost,
                   serverVars, netVars>>

-----------------------------------------------------------------------------
(* The listening thread. Only it clears is_running_, so its test of the loop's *)
(* condition tells it nothing new.                                           *)

\* FAULT: the server's goodbye does not end the loop.
ListenOn(m) ==
    /\ listener = "recv"
    /\ Recv(m)
    /\ UNCHANGED <<program, threadVars, terminal, typed, lost, serverVars>>

ListenTo(m) ==
    /\ listener = "recv"
    /\ Recv(m)
    /\ listener' = IF m.kind = "BYE" THEN "stop" ELSE "recv"
    /\ UNCHANGED <<program, main, is_running, line, terminal, typed, lost, serverVars>>

ListenRecv == \E m \in Messages : ListenTo(m) /\ Show(m) /\ UNCHANGED alive

\* What was not received may look like a MSG_PRIVATE without a colon, on which
\* decodePrivateMsg throws; nothing catches that.
ListenThrows ==
    /\ program = "osi"
    /\ link = "abort"
    /\ toClient = <<>>
    /\ ListenTo(Message("TEXT", 0))
    /\ alive' = FALSE
    /\ UNCHANGED shown

\* FAULT: is_running_ stays set.
StopSilently ==
    /\ listener = "stop"
    /\ listener' = "close"
    /\ UNCHANGED <<program, alive, main, is_running, line, screenVars, serverVars, netVars>>

Stop ==
    /\ listener = "stop"
    /\ listener' = "close"
    /\ is_running' = FALSE
    /\ UNCHANGED <<program, alive, main, line, screenVars, serverVars, netVars>>

CloseSocket ==
    /\ listener = "close"
    /\ listener' = "ended"
    /\ fd' = "closed"
    /\ UNCHANGED <<program, alive, main, is_running, line, screenVars, serverVars,
                   toServer, toClient, link, sent>>

-----------------------------------------------------------------------------
Server == Receive \/ Welcome \/ Close

Person == ConnectFails \/ EnterName \/ (\E kind \in Kinds : Enter(kind)) \/ StopTyping

Main == Connect \/ Hello \/ RecvHelloReply \/ RecvReply \/ Start \/ SendLine \/ Join

Listener == ListenRecv \/ ListenThrows \/ Stop \/ CloseSocket

Next == alive /\ (Server \/ Talk \/ ServerDies \/ Person \/ Main \/ Listener)

\* The two threads are scheduled, and so are the server's. Nothing is assumed
\* of the user, of the others in the room, or of the server's health.
Fairness ==
    /\ WF_vars(alive /\ Server)
    /\ WF_vars(alive /\ Main)
    /\ WF_vars(alive /\ Listener)

Spec == Init /\ [][Next]_vars /\ Fairness

-----------------------------------------------------------------------------
(* Properties. *)

TypeOK ==
    /\ program \in Programs
    /\ {alive, is_running} \subseteq BOOLEAN
    /\ main \in {"start", "reply", "name", "answer", "enter", "type", "send", "join", "done"}
    /\ listener \in {"none", "recv", "stop", "close", "ended"}
    /\ fd \in {"open", "closed"}
    /\ terminal \in {"raw", "cooked"}
    /\ line \in ChatKinds \cup {"BYE"}
    /\ shown \in Seq(1..MaxTalk)
    /\ {typed, lost} \subseteq 0..MaxLines
    /\ sent \in Seq(ChatKinds \cup {"HELLO", "AUTH", "BYE"})
    /\ session \in {"hello", "auth", "entered", "room", "left", "over"}
    /\ link \in {"open", "fin", "abort", "rst"}
    /\ toServer \in Seq(ChatKinds \cup {"HELLO", "AUTH", "BYE"})
    /\ toClient \in Seq(Messages)
    /\ talk \in 0..MaxTalk

Quitting == sent # <<>> /\ sent[Len(sent)] = "BYE"

Phase ==
    IF ~alive \/ fd = "closed" \/ main = "done" THEN "gone"
    ELSE IF main = "start" /\ program = "osi" THEN "off"
    ELSE IF main \in {"reply", "name"} /\ program = "osi" THEN "hello"
    ELSE IF main \in {"start", "name"} THEN "name"
    ELSE IF main \in {"answer", "enter"} THEN "auth"
    ELSE IF Quitting THEN "quit" ELSE "chat"

\* Each of the two clients is the client that its server's model puts at the
\* other end of a connection: it greets and names itself in that order, says
\* nothing in the room before it was let in, and nothing after MSG_BYE,
\* although one thread speaks and the other one ends the conversation.
User == INSTANCE ChatUser WITH phase <- Phase
IsChatUser == User!UserSpec

\* Each message of the others is shown, once and in the order in which the
\* server sent them: none is lost between the thread that logs in, which may
\* read the first ones in place of its welcome, and the thread that listens.
ShownInOrder == shown = [i \in 1..Len(shown) |-> i]

\* Whoever is in the room was entered in the server's table, or the server
\* has closed the connection: no other reply is taken for the welcome.
InRoomIsRegistered == listener # "none" => session \in {"entered", "room", "left", "over"}

\* When the listening thread ends the room, at most one line of the user goes
\* to the socket it has closed: the one that was complete at that moment.
AtMostOneLineLost == lost <= 1

\* What the others say is shown until the room is over.
EverythingShown ==
    \A k \in 1..MaxTalk :
        k <= talk /\ is_running ~> k <= Len(shown) \/ ~is_running \/ ~alive

\* /quit ends the process, with the terminal as it was: the destructor's wait
\* for the listening thread is ended by the server's answer.
JoinReturns ==
    main = "join" /\ Quitting
    ~>
    (main = "done" /\ listener = "ended" /\ terminal = "cooked") \/ ~alive

\* The server's end ends the room, whatever the user does.
EndNoticed == session = "over" /\ is_running ~> ~is_running \/ ~alive
=============================================================================
