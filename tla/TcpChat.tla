------------------------------ MODULE TcpChat -------------------------------
(***************************************************************************)
(* tcp/: a server for one client and its client, which talk in turns over  *)
(* a TCP connection: a greeting, then a line of the user's and the         *)
(* server's answer to it, until /quit or the end of the connection.        *)
(*                                                                         *)
(* The stream carries every Message in two pieces, of which one recv()     *)
(* takes one or both. The cut is somewhere inside the message.             *)
(***************************************************************************)
EXTENDS Naturals, Sequences

CONSTANTS
    Kinds,      \* what the user enters: "TEXT" a line, "PING" /ping, "BYE" /quit
    Splits,     \* whether recv() may return a part of a message
    Faults,     \* how the process of each end may die: "fin", "abort"
    MaxLines    \* bound: how often the user enters something

Ends == {"client", "server"}

ASSUME TcpAssumption ==
    /\ Kinds \subseteq {"TEXT", "PING", "BYE"}
    /\ Splits \in BOOLEAN
    /\ Faults \in [Ends -> SUBSET {"fin", "abort"}]
    /\ MaxLines \in Nat

VARIABLES
    pc,         \* where each process is
    stream,     \* the pieces on their way to each end
    fate,       \* what became of each end's socket
    asked,      \* the client's latest request
    lines,      \* how often the user entered something
    answer,     \* what the server is about to send, and its state after it
    entered,    \* the texts the user entered
    printed     \* the texts on the server's console

vars == <<pc, stream, fate, asked, lines, answer, entered, printed>>

\* `n` tells requests apart; the answer to one bears its number.
Msg(kind, n) == [kind |-> kind, n |-> n]

\* "OTHER" is any value of the type byte that is no MessageType.
MsgKinds == {"HELLO", "WELCOME", "TEXT", "PING", "PONG", "BYE", "OTHER"}

Messages == [kind : MsgKinds, n : 0..MaxLines]

\* What may be in a Message that recv() left alone.
Noise == [kind : MsgKinds, n : {0}]

Pieces(m) == <<[msg |-> m, part |-> 1], [msg |-> m, part |-> 2]>>

Opposite(e) == IF e = "client" THEN "server" ELSE "client"

Init ==
    /\ pc = [client |-> "connect", server |-> "accept"]
    /\ stream = [e \in Ends |-> <<>>]
    /\ fate = [e \in Ends |-> "open"]
    /\ asked = Msg("HELLO", 0)
    /\ lines = 0
    /\ answer = [msg |-> Msg("WELCOME", 0), then |-> "chat"]
    /\ entered = <<>>
    /\ printed = <<>>

Goto(e, next) == pc' = [pc EXCEPT ![e] = next]

-----------------------------------------------------------------------------
(* The sockets. *)

\* What k pieces from the head of the stream make. The type is in the first
\* piece of a message, if the cut is not even before it; of a message that
\* begins with a second piece, the type is a byte of somebody's text.
Parse(s, k) ==
    IF s[1].part = 2 THEN {Msg("OTHER", 0)}
    ELSE IF k = 2 THEN {s[1].msg}
    ELSE {s[1].msg} \cup Noise

\* FAULT: the end of the connection is not noticed.
ReceiveOnly(e, m) ==
    /\ stream[e] # <<>>
    /\ m = stream[e][1].msg
    /\ stream' = [stream EXCEPT ![e] = SubSeq(@, 3, Len(@))]
    /\ UNCHANGED fate

\* receive() returns m. The error of a reset is reported once, after which
\* recv() returns 0; 0 is made a MSG_BYE.
Receive(e, m) ==
    \/ \E k \in 1..2 :
        /\ k <= Len(stream[e])
        /\ k = 1 => Splits
        /\ m \in Parse(stream[e], k)
        /\ stream' = [stream EXCEPT ![e] = SubSeq(@, k + 1, Len(@))]
        /\ UNCHANGED fate
    \/ /\ stream[e] = <<>>
       /\ fate[Opposite(e)] = "abort"
       /\ m \in Noise
       /\ fate' = [fate EXCEPT ![Opposite(e)] = "rst"]
       /\ UNCHANGED stream
    \/ /\ stream[e] = <<>>
       /\ fate[Opposite(e)] \in {"fin", "rst"}
       /\ m = Msg("BYE", 0)
       /\ UNCHANGED <<stream, fate>>

\* The process ends and the kernel closes its socket. Unread data make the
\* close a reset, and so does a connection that was not accepted yet.
End(e, how) ==
    /\ how = "abort" => stream[e] # <<>> \/ pc[e] = "accept"
    /\ fate' = [fate EXCEPT ![e] = how]
    /\ Goto(e, "down")

\* send() of m; the process goes on at `next`. Data for a closed socket are
\* answered by a reset, and a send after that raises SIGPIPE, which nobody
\* handles; an error code is ignored.
Send(e, m, next) ==
    LET o == Opposite(e) IN
    \/ /\ fate[o] = "open"
       /\ stream' = [stream EXCEPT ![o] = @ \o Pieces(m)]
       /\ Goto(e, next)
       /\ UNCHANGED fate
    \/ /\ fate[o] \in {"fin", "abort"}
       /\ \E f \in {fate[o], "rst"} : fate' = [fate EXCEPT ![o] = f]
       /\ Goto(e, next)
       /\ UNCHANGED stream
    \/ /\ fate[o] = "rst"
       /\ Goto(e, next)
       /\ UNCHANGED <<stream, fate>>
    \/ /\ fate[o] = "rst"
       /\ End(e, "fin")
       /\ UNCHANGED stream

\* The loop of main() is left.
Leave(e) ==
    /\ pc[e] = "leave"
    /\ \E how \in {"fin", "abort"} : End(e, how)
    /\ UNCHANGED <<stream, asked, lines, answer, entered, printed>>

\* The process is killed.
Die(e, how) ==
    /\ pc[e] \notin {"connect", "failed", "down"}
    /\ End(e, how)
    /\ UNCHANGED <<stream, asked, lines, answer, entered, printed>>

-----------------------------------------------------------------------------
(* The client. *)

Connect ==
    /\ pc["client"] = "connect"
    /\ fate["server"] = "open"
    /\ Goto("client", "nick")
    /\ UNCHANGED <<stream, fate, asked, lines, answer, entered, printed>>

\* No address of the server's answers: the constructor throws.
ConnectFails ==
    /\ pc["client"] = "connect"
    /\ Goto("client", "failed")
    /\ UNCHANGED <<stream, fate, asked, lines, answer, entered, printed>>

\* State 0: the user enters a name.
Nick ==
    /\ pc["client"] = "nick"
    /\ asked' = Msg("HELLO", 0)
    /\ Send("client", asked', "wait")
    /\ UNCHANGED <<lines, answer, entered, printed>>

\* FAULT: the client does not wait for the answer to a text.
EnterAhead(kind) ==
    /\ pc["client"] = "input"
    /\ lines < MaxLines
    /\ lines' = lines + 1
    /\ asked' = Msg(kind, lines')
    /\ entered' = IF kind = "TEXT" THEN Append(entered, lines') ELSE entered
    /\ Send("client", asked', IF kind = "TEXT" THEN "input" ELSE "wait")
    /\ UNCHANGED <<answer, printed>>

\* State 1: the user enters a line.
Enter(kind) ==
    /\ pc["client"] = "input"
    /\ lines < MaxLines
    /\ lines' = lines + 1
    /\ asked' = Msg(kind, lines')
    /\ entered' = IF kind = "TEXT" THEN Append(entered, lines') ELSE entered
    /\ Send("client", asked', "wait")
    /\ UNCHANGED <<answer, printed>>

\* In both states any answer but MSG_BYE leads to the next input.
ClientReceive ==
    /\ pc["client"] = "wait"
    /\ \E m \in Messages :
        /\ Receive("client", m)
        /\ Goto("client", IF m.kind = "BYE" THEN "leave" ELSE "input")
    /\ UNCHANGED <<asked, lines, answer, entered, printed>>

-----------------------------------------------------------------------------
(* The server. *)

\* accept() returns the connection; the client may have died meanwhile.
Accept ==
    /\ pc["server"] = "accept"
    /\ pc["client"] \notin {"connect", "failed"}
    /\ Goto("server", "hello")
    /\ UNCHANGED <<stream, fate, asked, lines, answer, entered, printed>>

Answer(kind, n, next) ==
    /\ answer' = [msg |-> Msg(kind, n), then |-> next]
    /\ Goto("server", "answer")

\* FAULT: the server does not leave state 0.
RecvHelloAgain ==
    /\ pc["server"] = "hello"
    /\ \E m \in Messages :
        /\ Receive("server", m)
        /\ IF m.kind = "HELLO" THEN Answer("WELCOME", m.n, "hello")
           ELSE Goto("server", "leave") /\ UNCHANGED answer
    /\ UNCHANGED <<asked, lines, entered, printed>>

\* State 0.
RecvHello ==
    /\ pc["server"] = "hello"
    /\ \E m \in Messages :
        /\ Receive("server", m)
        /\ IF m.kind = "HELLO" THEN Answer("WELCOME", m.n, "chat")
           ELSE Goto("server", "leave") /\ UNCHANGED answer
    /\ UNCHANGED <<asked, lines, entered, printed>>

\* State 1.
Chat(m) ==
    /\ pc["server"] = "chat"
    /\ Receive("server", m)
    /\ UNCHANGED <<asked, lines, entered>>

\* FAULT: texts are not answered.
RecvTextSilently ==
    \E m \in Messages :
        /\ m.kind = "TEXT"
        /\ Chat(m)
        /\ printed' = Append(printed, m.n)
        /\ UNCHANGED <<pc, answer>>

RecvText ==
    \E m \in Messages :
        /\ m.kind = "TEXT"
        /\ Chat(m)
        /\ printed' = Append(printed, m.n)
        /\ Answer("TEXT", m.n, "chat")

\* FAULT: a ping is answered with a ping.
RecvPingEcho ==
    \E m \in Messages :
        /\ m.kind = "PING"
        /\ Chat(m)
        /\ Answer("PING", m.n, "chat")
        /\ UNCHANGED printed

RecvPing ==
    \E m \in Messages :
        /\ m.kind = "PING"
        /\ Chat(m)
        /\ Answer("PONG", m.n, "chat")
        /\ UNCHANGED printed

RecvBye ==
    \E m \in Messages :
        /\ m.kind = "BYE"
        /\ Chat(m)
        /\ Answer("BYE", m.n, "leave")
        /\ UNCHANGED printed

\* No other type is answered.
RecvOther ==
    \E m \in Messages :
        /\ m.kind \notin {"TEXT", "PING", "BYE"}
        /\ Chat(m)
        /\ UNCHANGED <<pc, answer, printed>>

SendAnswer ==
    /\ pc["server"] = "answer"
    /\ Send("server", answer.msg, answer.then)
    /\ UNCHANGED <<asked, lines, answer, entered, printed>>

-----------------------------------------------------------------------------
Client ==
    \/ Connect
    \/ ConnectFails
    \/ Nick
    \/ \E kind \in Kinds : Enter(kind)
    \/ ClientReceive
    \/ Leave("client")

Server ==
    \/ Accept
    \/ RecvHello
    \/ RecvText
    \/ RecvPing
    \/ RecvBye
    \/ RecvOther
    \/ SendAnswer
    \/ Leave("server")

Next ==
    \/ Client
    \/ Server
    \/ \E e \in Ends : \E how \in Faults[e] : Die(e, how)

\* The processes are scheduled; the user need not enter anything.
Fairness ==
    /\ WF_vars(Server)
    /\ WF_vars(ClientReceive \/ Leave("client"))

Spec == Init /\ [][Next]_vars
FairSpec == Spec /\ Fairness

-----------------------------------------------------------------------------
(* Properties. *)

Parts == [msg : Messages, part : {1, 2}]

TypeOK ==
    /\ pc["client"] \in {"connect", "failed", "nick", "wait", "input", "leave", "down"}
    /\ pc["server"] \in {"accept", "hello", "chat", "answer", "leave", "down"}
    /\ stream \in [Ends -> Seq(Parts)]
    /\ fate \in [Ends -> {"open", "fin", "abort", "rst"}]
    /\ asked \in Messages
    /\ lines \in 0..MaxLines
    /\ answer \in [msg : Messages, then : {"chat", "leave"}]
    /\ entered \in Seq(1..MaxLines)
    /\ printed \in Seq(0..MaxLines)

\* The two ends take turns: while both are there, there is one thing to be
\* done next, by the user, by the server or by the client, and one message at
\* most is under way.
Turns ==
    (\A e \in Ends : fate[e] = "open") =>
        /\ pc["client"] \in {"nick", "input"} =>
            /\ \A e \in Ends : stream[e] = <<>>
            /\ pc["server"] \in {"accept", "hello", "chat"}
        /\ pc["client"] = "wait" =>
            Len(stream["client"]) + Len(stream["server"]) =
                IF pc["server"] = "answer" THEN 0 ELSE 2

AnswerKind(kind) ==
    CASE kind = "HELLO" -> "WELCOME"
      [] kind = "PING" -> "PONG"
      [] OTHER -> kind

\* The answer on its way to the client is the answer to what the client asked
\* last, not to an earlier request.
RightAnswer ==
    \A i \in 1..Len(stream["client"]) :
        stream["client"][i].msg = Msg(AnswerKind(asked.kind), asked.n)

\* The server's console shows what the user entered, in the order it was
\* entered; when the client is ready for the next line, no line is missing and
\* none is made up, as long as the server lives. What a failed recv() made up
\* (number 0) may follow when the client is dead.
PrintedAsEntered ==
    /\ \A i \in 1..Len(printed) :
        printed[i] # 0 => i <= Len(entered) /\ printed[i] = entered[i]
    /\ pc["client"] = "input" /\ fate["server"] = "open" => printed = entered

\* "Entering /ping leads to an answer" (tcp/README.md:96), like entering
\* anything else: the client does not wait for ever.
RequestAnswered == pc["client"] = "wait" ~> pc["client"] # "wait"

\* The server notices the end of the connection (tcp/README.md:46), whatever
\* it was doing, and ends.
BreakNoticed == fate["client"] # "open" ~> pc["server"] = "down"
=============================================================================
