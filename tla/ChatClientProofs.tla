-------------------------- MODULE ChatClientProofs --------------------------
(***************************************************************************)
(* The safety of ChatClient for any bounds: its two threads (Threads), the *)
(* login against the server's session (Login), what is shown (Order), and  *)
(* that it implements ChatUser.                                            *)
(***************************************************************************)
EXTENDS ChatClient, TLAPS

RequestKinds == ChatKinds \cup {"HELLO", "AUTH", "BYE"}

\* The listening thread lives between the login and the destructor's join, and
\* clears is_running_ before it closes the socket; a line can be lost after
\* that alone, and no other line follows it. Nothing follows a MSG_BYE either.
Threads ==
    /\ listener # "none" => main \in {"type", "send", "join", "done"}
    /\ listener \in {"close", "ended"} => ~is_running
    /\ fd = "closed" <=> listener = "ended"
    /\ lost # 0 => fd = "closed" /\ main # "send"
    /\ AtMostOneLineLost
    /\ main = "send" => typed # 0
    /\ main = "reply" => program = "osi"
    /\ Quitting => main \in {"join", "done"}

\* The two ends of the login: where the client is while the session has not
\* entered its user, and what is under way between them then.
Login ==
    /\ session # "over" => link = "open"
    /\ session = "auth" => program = "osi"
    /\ session = "hello" /\ program = "osi" =>
        /\ toClient = <<>>
        /\ \/ main = "start" /\ toServer = <<>>
           \/ main = "reply" /\ toServer = <<"HELLO">>
    /\ session = "auth" =>
        \/ main = "reply" /\ toServer = <<>> /\ toClient = <<Message("WELCOME", 0)>>
        \/ main = "name" /\ toServer = <<>> /\ toClient = <<>>
        \/ main = "answer" /\ toServer = <<"AUTH">> /\ toClient = <<>>
    /\ session = "hello" /\ program = "tcp_pthread" =>
        \/ main \in {"start", "name"} /\ toServer = <<>> /\ toClient = <<>>
        \/ main = "answer" /\ toServer = <<"HELLO">> /\ toClient = <<>>
        \/ main = "answer" /\ toServer = <<>> /\ toClient = <<Message("USED", 0)>>
    /\ program = "osi" /\ main \in {"start", "reply", "name"} =>
        session \in {"hello", "auth", "over"} /\ talk = 0

\* In the queue q of messages to a client that has shown s, those of the others
\* are the ones up to t that s lacks, in order.
Orderly(q, s, t) ==
    /\ \A i \in 1..Len(s) : s[i] = i
    /\ Len(s) <= t
    /\ \A i \in 1..Len(q) : q[i].n # 0 => Len(s) < q[i].n /\ q[i].n <= t
    /\ \A i, j \in 1..Len(q) :
        i < j /\ q[i].n # 0 /\ q[j].n # 0 => q[i].n < q[j].n
    /\ \A k \in 1..t : Len(s) < k => \E i \in 1..Len(q) : q[i].n = k

Order == Orderly(toClient, shown, talk)

IInv == TypeOK /\ Threads /\ Login /\ Order

Actions ==
    \/ Receive \/ Welcome \/ Close \/ Talk \/ ServerDies
    \/ ConnectFails \/ EnterName \/ (\E kind \in Kinds : Enter(kind)) \/ StopTyping
    \/ Connect \/ Hello \/ RecvHelloReply \/ RecvReply \/ Start \/ SendLine \/ Join
    \/ ListenRecv \/ ListenThrows \/ Stop \/ CloseSocket

LEMMA NextActions == Next => alive /\ Actions
BY DEF Next, Actions, Server, Person, Main, Listener

-----------------------------------------------------------------------------
(* Types. *)

LEMMA PushType ==
    ASSUME TypeOK, NEW kind \in MessageKinds, NEW n \in 0..MaxTalk, Push(kind, n)
    PROVE  /\ toClient' \in Seq(Messages)
           /\ toClient' = Append(toClient, Message(kind, n))
BY DEF TypeOK, Push, Message, Messages

LEMMA SendType ==
    ASSUME TypeOK, NEW kind \in RequestKinds, Send(kind)
    PROVE  /\ toServer' \in Seq(RequestKinds)
           /\ sent' \in Seq(RequestKinds)
           /\ link' \in {"open", "fin", "abort", "rst"}
           /\ alive' \in BOOLEAN
           /\ UNCHANGED <<toClient, fd>>
<1>1. toServer \in Seq(RequestKinds) /\ sent \in Seq(RequestKinds)
  BY DEF TypeOK, RequestKinds
<1>2. Append(toServer, kind) \in Seq(RequestKinds) /\ Append(sent, kind) \in Seq(RequestKinds)
  BY <1>1
<1>3. alive \in BOOLEAN
  BY DEF TypeOK
<1> QED
  BY <1>1, <1>2, <1>3 DEF Send, Transmit, TypeOK

LEMMA RecvType ==
    ASSUME TypeOK, NEW m, Recv(m)
    PROVE  /\ m \in Messages
           /\ toClient' \in Seq(Messages)
           /\ link' \in {"open", "fin", "abort", "rst"}
           /\ UNCHANGED <<toServer, fd, sent>>
<1>1. Message("BYE", 0) \in Messages
  BY ClientAssumption DEF Message, Messages, MessageKinds
<1>2. [kind : MessageKinds, n : {0}] \subseteq Messages
  BY ClientAssumption DEF Messages
<1>3. toClient # <<>> => Head(toClient) \in Messages /\ Tail(toClient) \in Seq(Messages)
  BY DEF TypeOK
<1>4. <<>> \in Seq(Messages)
  OBVIOUS
<1> QED
  BY <1>1, <1>2, <1>3, <1>4 DEF Recv, TypeOK

LEMMA ShowType ==
    ASSUME TypeOK, NEW m \in Messages, Show(m)
    PROVE  shown' \in Seq(1..MaxTalk)
<1>1. m.n \in 0..MaxTalk
  BY DEF Messages
<1>2. m.n # 0 => m.n \in 1..MaxTalk
  BY <1>1, ClientAssumption
<1>3. shown \in Seq(1..MaxTalk)
  BY DEF TypeOK
<1>4. m.n # 0 => Append(shown, m.n) \in Seq(1..MaxTalk)
  BY <1>2, <1>3
<1> QED
  BY <1>3, <1>4 DEF Show

LEMMA InitIInv == Init => IInv
<1> SUFFICES ASSUME Init PROVE IInv
  OBVIOUS
<1>1. TypeOK
  <2>1. <<>> \in Seq(1..MaxTalk) /\ <<>> \in Seq(Messages)
        /\ <<>> \in Seq(ChatKinds \cup {"HELLO", "AUTH", "BYE"})
    OBVIOUS
  <2>2. 0 \in 0..MaxLines /\ 0 \in 0..MaxTalk
    BY ClientAssumption
  <2> QED
    BY <2>1, <2>2 DEF Init, TypeOK, ChatKinds
<1>2. Threads
  BY DEF Init, Threads, AtMostOneLineLost, Quitting
<1>3. Login
  BY ClientAssumption DEF Init, Login
<1>4. Order
  BY DEF Init, Order, Orderly
<1> QED
  BY <1>1, <1>2, <1>3, <1>4 DEF IInv

LEMMA TypeStep ==
    ASSUME IInv, [Next]_vars
    PROVE  TypeOK'
<1> TypeOK
  BY DEF IInv
<1> USE DEF threadVars, screenVars, serverVars, netVars
<1>1. CASE UNCHANGED vars
  BY <1>1 DEF vars, TypeOK
<1>2. CASE Receive
  <2>1. toServer' \in Seq(ChatKinds \cup {"HELLO", "AUTH", "BYE"})
    BY <1>2 DEF Receive, TypeOK
  <2>2. toClient' \in Seq(Messages)
    <3>1. toClient \in Seq(Messages)
      BY DEF TypeOK
    <3>2. toClient' = toClient \/ \E kind \in MessageKinds : Push(kind, 0)
      BY <1>2 DEF Receive, ServeLogin, ServeLine, MessageKinds
    <3> QED
      BY <3>1, <3>2, PushType, ClientAssumption
  <2>3. session' \in {"hello", "auth", "entered", "room", "left", "over"}
        /\ link' \in {"open", "fin", "abort", "rst"}
    BY <1>2 DEF Receive, ServeLogin, ServeLine, Proceed, Finish, TypeOK
  <2> QED
    BY <1>2, <2>1, <2>2, <2>3 DEF Receive, TypeOK
<1>3. CASE Welcome
  BY <1>3, PushType, ClientAssumption DEF Welcome, Proceed, MessageKinds, TypeOK
<1>4. CASE Talk
  <2>1. talk + 1 \in 0..MaxTalk
    BY <1>4, ClientAssumption DEF Talk, TypeOK
  <2> QED
    BY <1>4, <2>1, PushType DEF Talk, MessageKinds, TypeOK
<1>5. CASE Close
  BY <1>5 DEF Close, Finish, TypeOK
<1>6. CASE ServerDies
  BY <1>6 DEF ServerDies, TypeOK
<1>7. CASE ConnectFails
  BY <1>7 DEF ConnectFails, TypeOK
<1>8. CASE EnterName
  <2>1. "AUTH" \in RequestKinds /\ "HELLO" \in RequestKinds
    BY DEF RequestKinds
  <2>2. typed' \in 0..MaxLines
    BY <1>8, ClientAssumption DEF EnterName, TypeOK
  <2> QED
    BY <1>8, <2>1, <2>2, SendType DEF EnterName, At, RequestKinds, TypeOK
<1>9. CASE \E kind \in Kinds : Enter(kind)
  <2>1. PICK kind \in Kinds : Enter(kind)
    BY <1>9
  <2>2. kind \in ChatKinds \cup {"BYE"}
    BY ClientAssumption
  <2>3. typed' \in 0..MaxLines
    BY <2>1, ClientAssumption DEF Enter, TypeOK
  <2> QED
    BY <2>1, <2>2, <2>3 DEF Enter, At, TypeOK
<1>10. CASE StopTyping
  BY <1>10 DEF StopTyping, At, TypeOK
<1>11. CASE Connect
  BY <1>11 DEF Connect, At, TypeOK
<1>12. CASE Hello
  <2>1. "HELLO" \in RequestKinds
    BY DEF RequestKinds
  <2> QED
    BY <1>12, <2>1, SendType DEF Hello, At, RequestKinds, TypeOK
<1>13. CASE RecvHelloReply
  <2>1. PICK m \in Messages : RecvHelloReply!(m)
    BY <1>13 DEF RecvHelloReply
  <2> QED
    BY <2>1, RecvType DEF TypeOK
<1>14. CASE RecvReply
  <2>1. PICK m \in Messages : RecvReply!(m)
    BY <1>14 DEF RecvReply
  <2>2. shown' \in Seq(1..MaxTalk)
    BY <2>1, ShowType
  <2>3. AfterReply(m.kind) \in {"done", "enter", "name"}
    BY DEF AfterReply
  <2> QED
    BY <2>1, <2>2, <2>3, RecvType DEF TypeOK
<1>15. CASE Start
  BY <1>15 DEF Start, At, TypeOK
<1>16. CASE SendLine
  <2>1. line \in RequestKinds
    BY DEF RequestKinds, TypeOK
  <2>2. main' \in {"join", "type"}
    BY <1>16 DEF SendLine, At, AfterLine
  <2>3. CASE fd = "open"
    BY <1>16, <2>1, <2>2, <2>3, SendType DEF SendLine, RequestKinds, TypeOK
  <2>4. CASE fd # "open"
    <3>1. lost = 0 /\ typed # 0 /\ typed \in 0..MaxLines
      BY <1>16 DEF SendLine, At, IInv, Threads, TypeOK
    <3>2. lost' \in 0..MaxLines
      BY <1>16, <2>4, <3>1, ClientAssumption DEF SendLine
    <3> QED
      BY <1>16, <2>2, <2>4, <3>2 DEF SendLine, TypeOK
  <2> QED
    BY <2>3, <2>4
<1>17. CASE Join
  BY <1>17 DEF Join, At, TypeOK
<1>18. CASE ListenRecv
  <2>1. PICK m \in Messages : ListenTo(m) /\ Show(m) /\ UNCHANGED alive
    BY <1>18 DEF ListenRecv
  <2>2. shown' \in Seq(1..MaxTalk)
    BY <2>1, ShowType
  <2> QED
    BY <2>1, <2>2, RecvType DEF ListenTo, TypeOK
<1>19. CASE ListenThrows
  BY <1>19, RecvType DEF ListenThrows, ListenTo, TypeOK
<1>20. CASE Stop
  BY <1>20 DEF Stop, TypeOK
<1>21. CASE CloseSocket
  BY <1>21 DEF CloseSocket, TypeOK
<1> QED
  BY NextActions, <1>1, <1>2, <1>3, <1>4, <1>5, <1>6, <1>7, <1>8, <1>9, <1>10, <1>11, <1>12,
     <1>13, <1>14, <1>15, <1>16, <1>17, <1>18, <1>19, <1>20, <1>21 DEF Actions
-----------------------------------------------------------------------------
(* The order of what is shown. *)

LEMMA Numbers ==
    ASSUME NEW q \in Seq(Messages)
    PROVE  \A i \in 1..Len(q) : q[i].n \in Nat
<1> SUFFICES ASSUME NEW i \in 1..Len(q) PROVE q[i].n \in Nat
  OBVIOUS
<1>1. q[i] \in Messages
  OBVIOUS
<1>2. q[i].n \in 0..MaxTalk
  BY <1>1 DEF Messages
<1> QED
  BY <1>2, ClientAssumption

LEMMA OrderPush ==
    ASSUME NEW q \in Seq(Messages), NEW s \in Seq(Nat), NEW t \in Nat, NEW kind,
           Orderly(q, s, t)
    PROVE  Orderly(Append(q, Message(kind, 0)), s, t)
<1> DEFINE r == Append(q, Message(kind, 0))
<1>1. /\ Len(r) = Len(q) + 1
      /\ \A i \in 1..Len(q) : r[i] = q[i]
      /\ r[Len(q) + 1].n = 0
  BY DEF Message
<1>2. Len(q) \in Nat /\ Len(s) \in Nat
  OBVIOUS
<1> HIDE DEF r
<1>3. \A k \in 1..t : Len(s) < k => \E i \in 1..Len(r) : r[i].n = k
  <2> SUFFICES ASSUME NEW k \in 1..t, Len(s) < k PROVE \E i \in 1..Len(r) : r[i].n = k
    OBVIOUS
  <2>1. PICK i \in 1..Len(q) : q[i].n = k
    BY DEF Orderly
  <2> QED
    BY <1>1, <1>2, <2>1
<1>4. \A i, j \in 1..Len(r) : i < j /\ r[i].n # 0 /\ r[j].n # 0 => r[i].n < r[j].n
  <2> SUFFICES ASSUME NEW i \in 1..Len(r), NEW j \in 1..Len(r),
                      i < j, r[i].n # 0, r[j].n # 0
               PROVE  r[i].n < r[j].n
    OBVIOUS
  <2>1. j # Len(q) + 1
    BY <1>1
  <2>2. i \in 1..Len(q) /\ j \in 1..Len(q)
    BY <1>1, <1>2, <2>1
  <2> QED
    BY <1>1, <2>2 DEF Orderly
<1>5. \A i \in 1..Len(r) : r[i].n # 0 => Len(s) < r[i].n /\ r[i].n <= t
  BY <1>1, <1>2 DEF Orderly
<1>6. Orderly(r, s, t)
  BY <1>3, <1>4, <1>5 DEF Orderly
<1> QED
  BY <1>6 DEF r

LEMMA OrderTalk ==
    ASSUME NEW q \in Seq(Messages), NEW s \in Seq(Nat), NEW t \in Nat, Orderly(q, s, t)
    PROVE  Orderly(Append(q, Message("TEXT", t + 1)), s, t + 1)
<1> DEFINE r == Append(q, Message("TEXT", t + 1))
<1>1. /\ Len(r) = Len(q) + 1
      /\ \A i \in 1..Len(q) : r[i] = q[i]
      /\ r[Len(q) + 1].n = t + 1
  BY DEF Message
<1>2. Len(q) \in Nat /\ Len(s) \in Nat
  OBVIOUS
<1>3. \A i \in 1..Len(q) : q[i].n \in Nat
  BY Numbers
<1> HIDE DEF r
<1>4. \A i, j \in 1..Len(r) : i < j /\ r[i].n # 0 /\ r[j].n # 0 => r[i].n < r[j].n
  <2> SUFFICES ASSUME NEW i \in 1..Len(r), NEW j \in 1..Len(r),
                      i < j, r[i].n # 0, r[j].n # 0
               PROVE  r[i].n < r[j].n
    OBVIOUS
  <2>1. i \in 1..Len(q) /\ r[i] = q[i] /\ r[i].n <= t /\ r[i].n \in Nat
    <3>1. i \in 1..Len(q)
      BY <1>1, <1>2
    <3> QED
      BY <1>1, <1>3, <3>1 DEF Orderly
  <2>2. CASE j \in 1..Len(q)
    BY <1>1, <2>1, <2>2 DEF Orderly
  <2>3. CASE j = Len(q) + 1
    BY <1>1, <2>1, <2>3
  <2>4. j \in 1..Len(q) \/ j = Len(q) + 1
    BY <1>1, <1>2
  <2> QED
    BY <2>2, <2>3, <2>4
<1>5. \A k \in 1..(t + 1) : Len(s) < k => \E i \in 1..Len(r) : r[i].n = k
  <2> SUFFICES ASSUME NEW k \in 1..(t + 1), Len(s) < k
               PROVE  \E i \in 1..Len(r) : r[i].n = k
    OBVIOUS
  <2>1. CASE k = t + 1
    BY <1>1, <1>2, <2>1
  <2>2. CASE k # t + 1
    <3>1. PICK i \in 1..Len(q) : q[i].n = k
      BY <2>2 DEF Orderly
    <3> QED
      BY <1>1, <1>2, <3>1
  <2> QED
    BY <2>1, <2>2
<1>6. \A i \in 1..Len(r) : r[i].n # 0 => Len(s) < r[i].n /\ r[i].n <= t + 1
  <2> SUFFICES ASSUME NEW i \in 1..Len(r), r[i].n # 0
               PROVE  Len(s) < r[i].n /\ r[i].n <= t + 1
    OBVIOUS
  <2>1. CASE i \in 1..Len(q)
    BY <1>1, <1>3, <2>1 DEF Orderly
  <2>2. CASE i = Len(q) + 1
    BY <1>1, <1>2, <2>2 DEF Orderly
  <2> QED
    BY <1>1, <1>2, <2>1, <2>2
<1>7. Orderly(r, s, t + 1)
  BY <1>2, <1>4, <1>5, <1>6 DEF Orderly
<1> QED
  BY <1>7 DEF r

LEMMA OrderShow ==
    ASSUME NEW q \in Seq(Messages), q # <<>>, NEW s \in Seq(Nat), NEW t \in Nat,
           Orderly(q, s, t)
    PROVE  Orderly(Tail(q), IF Head(q).n = 0 THEN s ELSE Append(s, Head(q).n), t)
<1> DEFINE r == Tail(q)
           m == Head(q).n
<1>1. /\ Len(q) \in Nat /\ Len(q) > 0
      /\ Len(r) = Len(q) - 1
      /\ \A i \in 1..Len(r) : r[i] = q[i + 1]
      /\ m = q[1].n
  OBVIOUS
<1>2. \A i \in 1..Len(q) : q[i].n \in Nat
  BY Numbers
<1>3. Len(s) \in Nat
  OBVIOUS
<1> HIDE DEF r, m
<1>4. \A k \in Nat : k # m /\ (\E i \in 1..Len(q) : q[i].n = k)
                     => \E i \in 1..Len(r) : r[i].n = k
  <2> SUFFICES ASSUME NEW k \in Nat, k # m, NEW i \in 1..Len(q), q[i].n = k
               PROVE  \E j \in 1..Len(r) : r[j].n = k
    OBVIOUS
  <2>1. i # 1
    BY <1>1
  <2>2. i - 1 \in 1..Len(r) /\ (i - 1) + 1 = i
    BY <1>1, <2>1
  <2> QED
    BY <1>1, <2>2
<1>5. \A i, j \in 1..Len(r) : i < j /\ r[i].n # 0 /\ r[j].n # 0 => r[i].n < r[j].n
  <2> SUFFICES ASSUME NEW i \in 1..Len(r), NEW j \in 1..Len(r),
                      i < j, r[i].n # 0, r[j].n # 0
               PROVE  r[i].n < r[j].n
    OBVIOUS
  <2>1. i + 1 \in 1..Len(q) /\ j + 1 \in 1..Len(q) /\ i + 1 < j + 1
    BY <1>1
  <2> QED
    BY <1>1, <2>1 DEF Orderly
<1>6. CASE m = 0
  <2>1. \A k \in 1..t : Len(s) < k => \E i \in 1..Len(r) : r[i].n = k
    <3> SUFFICES ASSUME NEW k \in 1..t, Len(s) < k PROVE \E i \in 1..Len(r) : r[i].n = k
      OBVIOUS
    <3>1. k \in Nat /\ k # m
      BY <1>3, <1>6
    <3>2. \E i \in 1..Len(q) : q[i].n = k
      BY DEF Orderly
    <3> QED
      BY <1>4, <3>1, <3>2
  <2>2. \A i \in 1..Len(r) : r[i].n # 0 => Len(s) < r[i].n /\ r[i].n <= t
    BY <1>1 DEF Orderly
  <2>3. Orderly(r, s, t)
    BY <1>5, <2>1, <2>2 DEF Orderly
  <2> QED
    BY <1>6, <2>3 DEF r, m
<1>7. CASE m # 0
  <2>1. Len(s) < m /\ m <= t /\ m \in Nat
    BY <1>1, <1>2, <1>7 DEF Orderly
  <2>2. \A i \in 1..Len(q) : i # 1 /\ q[i].n # 0 => m < q[i].n
    BY <1>1, <1>7 DEF Orderly
  <2>3. m = Len(s) + 1
    <3> SUFFICES ASSUME m # Len(s) + 1 PROVE FALSE
      OBVIOUS
    <3>1. Len(s) + 1 \in 1..t /\ Len(s) < Len(s) + 1
      BY <1>3, <2>1
    <3>2. PICK i \in 1..Len(q) : q[i].n = Len(s) + 1
      BY <3>1 DEF Orderly
    <3> QED
      BY <1>1, <1>3, <2>1, <2>2, <3>2
  <2> DEFINE u == Append(s, m)
  <2>4. /\ Len(u) = Len(s) + 1
        /\ \A i \in 1..Len(s) : u[i] = s[i]
        /\ u[Len(s) + 1] = m
    BY <2>1
  <2>5. \A i \in 1..Len(r) : r[i].n # 0 => m < r[i].n /\ r[i].n <= t
    <3> SUFFICES ASSUME NEW i \in 1..Len(r), r[i].n # 0
                 PROVE  m < r[i].n /\ r[i].n <= t
      OBVIOUS
    <3>1. i + 1 \in 1..Len(q) /\ i + 1 # 1 /\ r[i] = q[i + 1]
      BY <1>1
    <3> QED
      BY <2>2, <3>1 DEF Orderly
  <2>6. \A k \in 1..t : m < k => \E i \in 1..Len(r) : r[i].n = k
    <3> SUFFICES ASSUME NEW k \in 1..t, m < k PROVE \E i \in 1..Len(r) : r[i].n = k
      OBVIOUS
    <3>1. k \in Nat /\ k # m /\ Len(s) < k
      BY <1>3, <2>1
    <3>2. \E i \in 1..Len(q) : q[i].n = k
      BY <3>1 DEF Orderly
    <3> QED
      BY <1>4, <3>1, <3>2
  <2>7. \A i \in 1..Len(u) : u[i] = i
    BY <1>3, <2>3, <2>4 DEF Orderly
  <2> HIDE DEF u
  <2>8. Orderly(r, u, t)
    BY <1>5, <2>1, <2>3, <2>4, <2>5, <2>6, <2>7 DEF Orderly
  <2> QED
    BY <1>7, <2>8 DEF u, m, r
<1> QED
  BY <1>6, <1>7

\* Before the others could speak nothing of theirs can be dropped.
LEMMA OrderDrop ==
    ASSUME NEW q \in Seq(Messages), NEW r \in Seq(Messages), NEW s \in Seq(Nat),
           Orderly(q, s, 0), Len(r) = 0 \/ (q # <<>> /\ r = Tail(q))
    PROVE  Orderly(r, s, 0)
<1>1. \A i \in 1..Len(q) : q[i].n \in Nat
  BY Numbers
<1>2. \A i \in 1..Len(q) : q[i].n = 0
  BY <1>1 DEF Orderly
<1>3. \A i \in 1..Len(r) : r[i].n = 0
  <2>1. CASE Len(r) = 0
    BY <2>1
  <2>2. CASE q # <<>> /\ r = Tail(q)
    BY <1>2, <2>2
  <2> QED
    BY <2>1, <2>2
<1> QED
  BY <1>3 DEF Orderly

-----------------------------------------------------------------------------
(* The steps of the invariant. *)

LEMMA ThreadsStep ==
    ASSUME IInv, Next
    PROVE  Threads'
<1> TypeOK /\ Threads
  BY DEF IInv
<1> USE DEF threadVars, screenVars, serverVars, netVars
<1>1. CASE UNCHANGED <<program, main, listener, is_running, fd, lost, typed, sent>>
  BY <1>1 DEF Threads, AtMostOneLineLost, Quitting
<1>2. CASE Receive \/ Welcome \/ Talk \/ Close \/ ServerDies \/ ConnectFails
  BY <1>1, <1>2 DEF Receive, Welcome, Talk, Close, ServerDies, ConnectFails
<1>3. ASSUME NEW kind, Send(kind), kind # "BYE", sent \in Seq(RequestKinds)
      PROVE  Quitting' => Quitting
  BY <1>3 DEF Send, Quitting
<1>4. sent \in Seq(RequestKinds)
  BY DEF TypeOK, RequestKinds
<1>5. CASE EnterName
  BY <1>3, <1>4, <1>5 DEF EnterName, At, Threads, AtMostOneLineLost, TypeOK, Send
<1>6. CASE \E kind \in Kinds : Enter(kind)
  BY <1>6, ClientAssumption DEF Enter, At, Threads, AtMostOneLineLost, Quitting, TypeOK
<1>7. CASE StopTyping
  BY <1>7 DEF StopTyping, At, Threads, AtMostOneLineLost, Quitting
<1>8. CASE Connect
  BY <1>8 DEF Connect, At, Threads, AtMostOneLineLost, Quitting
<1>9. CASE Hello
  BY <1>3, <1>4, <1>9 DEF Hello, At, Threads, AtMostOneLineLost, Send
<1>10. CASE RecvHelloReply
  BY <1>10 DEF RecvHelloReply, Recv, Threads, AtMostOneLineLost, Quitting
<1>11. CASE RecvReply
  <2>1. PICK m \in Messages : RecvReply!(m)
    BY <1>11 DEF RecvReply
  <2>2. AfterReply(m.kind) \in {"done", "enter", "name"}
    BY DEF AfterReply
  <2> QED
    BY <2>1, <2>2 DEF Recv, Show, Threads, AtMostOneLineLost, Quitting
<1>12. CASE Start
  BY <1>12 DEF Start, At, Threads, AtMostOneLineLost, Quitting
<1>13. CASE SendLine
  <2>1. main = "send" /\ lost = 0 /\ ~Quitting
    BY <1>13 DEF SendLine, At, Threads, TypeOK
  <2>2. CASE fd = "open"
    <3>1. fd' = "open" /\ lost' = 0 /\ UNCHANGED <<program, listener, is_running, typed>>
      BY <1>13, <2>1, <2>2 DEF SendLine, Send
    <3>2. Quitting' => line = "BYE"
      BY <1>3, <1>4, <1>13, <2>1, <2>2 DEF SendLine
    <3> QED
      BY <1>13, <2>1, <3>1, <3>2 DEF SendLine, At, AfterLine, Threads, AtMostOneLineLost
  <2>3. CASE fd # "open"
    <3>1. fd = "closed" /\ lost' = 1 /\ UNCHANGED <<program, listener, is_running, typed, fd, sent>>
      BY <1>13, <2>1, <2>3 DEF SendLine, TypeOK
    <3> QED
      BY <1>13, <2>1, <3>1 DEF SendLine, At, AfterLine, Threads, AtMostOneLineLost, Quitting
  <2> QED
    BY <2>2, <2>3
<1>14. CASE Join
  BY <1>14 DEF Join, At, Threads, AtMostOneLineLost, Quitting
<1>15. CASE ListenRecv \/ ListenThrows
  <2>1. PICK m : ListenTo(m)
    BY <1>15 DEF ListenRecv, ListenThrows
  <2> QED
    BY <2>1 DEF ListenTo, Recv, Threads, AtMostOneLineLost, Quitting, TypeOK
<1>16. CASE Stop
  BY <1>16 DEF Stop, Threads, AtMostOneLineLost, Quitting, TypeOK
<1>17. CASE CloseSocket
  BY <1>17 DEF CloseSocket, Threads, AtMostOneLineLost, Quitting, TypeOK
<1> QED
  BY NextActions, <1>2, <1>5, <1>6, <1>7, <1>8, <1>9, <1>10, <1>11, <1>12, <1>13, <1>14,
     <1>15, <1>16, <1>17 DEF Actions

\* What RecvReply may take for an answer while the session has not entered the
\* user is the refusal of the name.
LEMMA LoginStep ==
    ASSUME IInv, Next
    PROVE  Login'
<1> TypeOK /\ Threads /\ Login
  BY DEF IInv
<1> USE DEF threadVars, screenVars, serverVars, netVars
<1>1. program \in {"osi", "tcp_pthread"}
  BY ClientAssumption DEF TypeOK
<1>2. CASE Receive
  <2>1. toServer # <<>> /\ UNCHANGED <<program, main, talk>>
    BY <1>2 DEF Receive
  <2>2. toServer' = Tail(toServer)
    BY <1>2 DEF Receive
  <2>3. CASE ServeLogin(Head(toServer)) /\ program = "osi" /\ session = "hello"
    <3>1. toServer = <<"HELLO">> /\ toClient = <<>> /\ main = "reply" /\ talk = 0 /\ link = "open"
      BY <2>1, <2>3 DEF Login
    <3>2. toServer' = <<>>
      BY <2>2, <3>1
    <3>3. CASE Push("WELCOME", 0) /\ Proceed("auth")
      BY <2>1, <2>3, <3>1, <3>2, <3>3 DEF Login, Push, Proceed
    <3>4. CASE Push("ERROR", 0) /\ Finish
      BY <2>1, <2>3, <3>1, <3>4 DEF Login, Finish
    <3> QED
      BY <2>3, <3>3, <3>4 DEF ServeLogin
  <2>4. CASE ServeLogin(Head(toServer)) /\ program = "osi" /\ session = "auth"
    <3>1. toServer = <<"AUTH">> /\ main = "answer" /\ link = "open"
      BY <2>1, <2>4 DEF Login
    <3>2. CASE UNCHANGED toClient /\ Proceed("entered")
      BY <2>1, <2>4, <3>1, <3>2 DEF Login, Proceed
    <3>3. CASE Push("ERROR", 0) /\ Finish
      BY <2>1, <2>4, <3>1, <3>3 DEF Login, Finish
    <3> QED
      BY <2>4, <3>2, <3>3 DEF ServeLogin
  <2>5. CASE ServeLogin(Head(toServer)) /\ program = "tcp_pthread" /\ session = "hello"
    <3>1. toServer = <<"HELLO">> /\ toClient = <<>> /\ main = "answer" /\ link = "open"
      BY <2>1, <2>5 DEF Login
    <3>2. toServer' = <<>>
      BY <2>2, <3>1
    <3>3. CASE UNCHANGED toClient /\ Proceed("entered")
      BY <2>1, <2>5, <3>1, <3>3 DEF Login, Proceed
    <3>4. CASE Push("USED", 0) /\ Proceed("hello")
      BY <2>1, <2>5, <3>1, <3>2, <3>4 DEF Login, Proceed, Push
    <3>5. CASE Push("BYE", 0) /\ Finish
      BY <2>1, <2>5, <3>1, <3>5 DEF Login, Finish
    <3> QED
      BY <2>5, <3>3, <3>4, <3>5 DEF ServeLogin
  <2>6. CASE ServeLine(Head(toServer))
    <3>1. session = "room" /\ session' \in {"room", "left"} /\ UNCHANGED link
      BY <2>6 DEF ServeLine, Proceed
    <3>2. ~(program = "osi" /\ main \in {"start", "reply", "name"})
      BY <3>1 DEF Login
    <3> QED
      BY <2>1, <3>1, <3>2 DEF Login
  <2> QED
    BY <1>1, <1>2, <2>3, <2>4, <2>5, <2>6 DEF Receive, ServeLogin
<1>3. CASE Welcome \/ Talk \/ Close \/ ServerDies
  <2>1. CASE Welcome
    BY <2>1 DEF Welcome, Proceed, Login
  <2>2. CASE Talk
    BY <2>2 DEF Talk, Login
  <2>3. CASE Close
    BY <2>3 DEF Close, Finish, Login
  <2>4. CASE ServerDies
    BY <2>4 DEF ServerDies, Login
  <2> QED
    BY <1>3, <2>1, <2>2, <2>3, <2>4
<1>4. CASE ConnectFails
  BY <1>4 DEF ConnectFails, Login
<1>5. ASSUME NEW kind, Send(kind), link = "open"
      PROVE  toServer' = Append(toServer, kind) /\ UNCHANGED <<link, toClient>>
  BY <1>5 DEF Send, Transmit
<1>6. Append(<<>>, "HELLO") = <<"HELLO">> /\ Append(<<>>, "AUTH") = <<"AUTH">>
  OBVIOUS
<1>7. CASE EnterName
  <2>1. main = "name" /\ main' = "answer" /\ UNCHANGED <<program, session, talk>>
    BY <1>7 DEF EnterName, At
  <2>2. CASE session = "over"
    BY <2>1, <2>2 DEF Login
  <2>3. CASE session # "over"
    <3>1. link = "open"
      BY <2>3 DEF Login
    <3>2. toServer' = Append(toServer, IF program = "osi" THEN "AUTH" ELSE "HELLO")
          /\ UNCHANGED <<link, toClient>>
      BY <1>5, <1>7, <3>1 DEF EnterName
    <3> QED
      BY <1>1, <1>6, <2>1, <3>1, <3>2 DEF Login
  <2> QED
    BY <2>2, <2>3
<1>8. CASE Hello
  <2>1. main = "start" /\ main' = "reply" /\ program = "osi" /\ UNCHANGED <<program, session, talk>>
    BY <1>8 DEF Hello, At
  <2>2. CASE session = "over"
    BY <2>1, <2>2 DEF Login
  <2>3. CASE session # "over"
    <3>1. link = "open"
      BY <2>3 DEF Login
    <3>2. toServer' = Append(toServer, "HELLO") /\ UNCHANGED <<link, toClient>>
      BY <1>5, <1>8, <3>1 DEF Hello
    <3> QED
      BY <1>6, <2>1, <3>1, <3>2 DEF Login
  <2> QED
    BY <2>2, <2>3
<1>9. CASE Connect
  BY <1>9 DEF Connect, At, Login
<1>10. ASSUME NEW m, Recv(m), link = "open"
       PROVE  /\ toClient # <<>> /\ m = Head(toClient) /\ toClient' = Tail(toClient)
              /\ UNCHANGED <<link, toServer>>
  BY <1>10 DEF Recv
<1>11. CASE RecvHelloReply
  <2>1. PICK m \in Messages : RecvHelloReply!(m)
    BY <1>11 DEF RecvHelloReply
  <2>2. program = "osi" /\ main = "reply" /\ main' \in {"name", "done"}
        /\ UNCHANGED <<program, session, talk>>
    BY <2>1 DEF Threads
  <2>3. CASE session = "over"
    BY <2>2, <2>3 DEF Login
  <2>4. CASE session # "over"
    <3>1. link = "open" /\ session \in {"hello", "auth"} /\ talk = 0
      BY <2>2, <2>4 DEF Login
    <3>2. toClient # <<>> /\ m = Head(toClient) /\ toClient' = Tail(toClient)
          /\ UNCHANGED <<link, toServer>>
      BY <1>10, <2>1, <3>1
    <3>3. session = "auth" /\ toClient = <<Message("WELCOME", 0)>> /\ toServer = <<>>
      BY <2>2, <3>1, <3>2 DEF Login
    <3>4. m.kind = "WELCOME" /\ toClient' = <<>>
      BY <3>2, <3>3 DEF Message
    <3>5. main' = "name"
      BY <2>1, <3>4
    <3> QED
      BY <2>2, <3>1, <3>2, <3>3, <3>4, <3>5 DEF Login
  <2> QED
    BY <2>3, <2>4
<1>12. CASE RecvReply
  <2>1. PICK m \in Messages : RecvReply!(m)
    BY <1>12 DEF RecvReply
  <2>2. main = "answer" /\ main' = AfterReply(m.kind) /\ UNCHANGED <<program, session, talk>>
    BY <2>1
  <2>3. program = "osi" => main' \in {"done", "enter"}
    BY <2>2 DEF AfterReply
  <2>4. CASE session = "over"
    BY <2>2, <2>3, <2>4 DEF Login
  <2>5. CASE session \in {"entered", "room", "left"}
    <3>1. link = "open" /\ UNCHANGED link
      BY <1>10, <2>1, <2>5 DEF Login
    <3> QED
      BY <2>2, <2>3, <2>5, <3>1 DEF Login
  <2>6. CASE session \in {"hello", "auth"}
    <3>1. toClient # <<>> /\ m = Head(toClient) /\ toClient' = Tail(toClient)
          /\ UNCHANGED <<link, toServer>> /\ link = "open"
      BY <1>10, <2>1, <2>6 DEF Login
    <3>2. program = "tcp_pthread" /\ session = "hello" /\ toServer = <<>>
          /\ toClient = <<Message("USED", 0)>>
      BY <1>1, <2>2, <2>6, <3>1 DEF Login
    <3>3. m.kind = "USED" /\ toClient' = <<>>
      BY <3>1, <3>2 DEF Message
    <3>4. main' = "name"
      BY <2>2, <3>2, <3>3 DEF AfterReply
    <3> QED
      BY <2>2, <3>1, <3>2, <3>3, <3>4 DEF Login
  <2> QED
    BY <2>4, <2>5, <2>6 DEF TypeOK
\* Whoever has entered the room finds the session past the login.
<1>13. main \in {"enter", "type", "send", "join", "done"} \/ listener # "none"
       => session \notin {"hello", "auth"}
  BY <1>1 DEF Login, Threads
<1>14. ASSUME UNCHANGED <<program, session, talk>>, session \notin {"hello", "auth"},
              session # "over" => UNCHANGED link,
              main' \notin {"start", "reply", "name"} \/ UNCHANGED main
       PROVE  Login'
  BY <1>14 DEF Login
<1>15. CASE Start \/ SendLine \/ Join \/ StopTyping \/ \E kind \in Kinds : Enter(kind)
  <2>1. UNCHANGED <<program, session, talk>>
    BY <1>15 DEF Start, SendLine, Join, StopTyping, Enter
  <2>2. main \in {"enter", "type", "send", "join"} /\ main' \in {"type", "send", "join", "done"}
    BY <1>15 DEF Start, SendLine, Join, StopTyping, Enter, At, AfterLine
  <2>3. session # "over" => UNCHANGED link
    BY <1>5, <1>15 DEF Start, SendLine, Join, StopTyping, Enter, Login
  <2> QED
    BY <1>13, <1>14, <2>1, <2>2, <2>3
<1>16. CASE ListenRecv \/ ListenThrows
  <2>1. PICK m : ListenTo(m)
    BY <1>16 DEF ListenRecv, ListenThrows
  <2>2. listener # "none" /\ UNCHANGED <<program, session, talk, main>>
    BY <2>1 DEF ListenTo
  <2>3. session # "over" => UNCHANGED link
    BY <1>10, <2>1 DEF ListenTo, Login
  <2> QED
    BY <1>13, <1>14, <2>2, <2>3
<1>17. CASE Stop \/ CloseSocket
  <2>1. listener # "none" /\ UNCHANGED <<program, session, talk, main, link>>
    BY <1>17 DEF Stop, CloseSocket
  <2> QED
    BY <1>13, <1>14, <2>1
<1> QED
  BY NextActions, <1>2, <1>3, <1>4, <1>7, <1>8, <1>9, <1>11, <1>12, <1>15, <1>16, <1>17 DEF Actions

LEMMA OrderStep ==
    ASSUME IInv, Next
    PROVE  Order'
<1> TypeOK /\ Threads /\ Login /\ Order
  BY DEF IInv
<1> USE DEF threadVars, screenVars, serverVars, netVars
<1>1. /\ toClient \in Seq(Messages)
      /\ shown \in Seq(Nat)
      /\ talk \in Nat
  <2>1. \A i \in 1..Len(shown) : shown[i] \in Nat
    BY ClientAssumption DEF TypeOK
  <2> QED
    BY <2>1, ClientAssumption DEF TypeOK
<1>2. CASE UNCHANGED <<toClient, shown, talk>>
  BY <1>2 DEF Order
<1>3. ASSUME NEW kind, Push(kind, 0), UNCHANGED <<shown, talk>>
      PROVE  Order'
  BY <1>1, <1>3, OrderPush DEF Push, Order
<1>4. CASE Receive
  <2>1. UNCHANGED <<shown, talk>>
    BY <1>4 DEF Receive
  <2>2. UNCHANGED toClient \/ \E kind \in MessageKinds : Push(kind, 0)
    BY <1>4 DEF Receive, ServeLogin, ServeLine, MessageKinds
  <2> QED
    BY <1>2, <1>3, <2>1, <2>2
<1>5. CASE Welcome
  BY <1>3, <1>5 DEF Welcome
<1>6. CASE Talk
  BY <1>1, <1>6, OrderTalk DEF Talk, Push, Order
<1>7. CASE Close \/ ServerDies
  BY <1>2, <1>7 DEF Close, ServerDies
<1>8. ASSUME NEW m, Recv(m), Show(m), UNCHANGED talk
      PROVE  Order'
  <2>1. CASE toClient # <<>>
    <3>1. m = Head(toClient) /\ toClient' = Tail(toClient)
      BY <1>8, <2>1 DEF Recv
    <3>2. shown' = IF Head(toClient).n = 0 THEN shown ELSE Append(shown, Head(toClient).n)
      BY <1>8, <3>1 DEF Show
    <3> QED
      BY <1>1, <1>8, <2>1, <3>1, <3>2, OrderShow DEF Order
  <2>2. CASE toClient = <<>>
    <3>1. m.n = 0 /\ toClient' = <<>>
      BY <1>8, <2>2 DEF Recv, Message
    <3> QED
      BY <1>2, <1>8, <2>2, <3>1 DEF Show
  <2> QED
    BY <2>1, <2>2
<1>9. CASE RecvHelloReply
  <2>1. PICK m \in Messages : RecvHelloReply!(m)
    BY <1>9 DEF RecvHelloReply
  <2>2. talk = 0 /\ UNCHANGED <<talk, shown>>
    BY <2>1 DEF Login, Threads
  <2>3. CASE toClient # <<>>
    <3>1. toClient' = Tail(toClient) /\ Tail(toClient) \in Seq(Messages)
      BY <1>1, <2>1, <2>3 DEF Recv
    <3> QED
      BY <1>1, <2>2, <2>3, <3>1, OrderDrop DEF Order
  <2>4. CASE toClient = <<>>
    BY <1>2, <2>1, <2>2, <2>4 DEF Recv
  <2> QED
    BY <2>3, <2>4
<1>10. CASE RecvReply
  BY <1>8, <1>10 DEF RecvReply
<1>11. CASE ListenRecv
  BY <1>8, <1>11 DEF ListenRecv, ListenTo
<1>12. CASE ListenThrows
  BY <1>2, <1>12 DEF ListenThrows, ListenTo, Recv
<1>13. CASE \/ ConnectFails \/ StopTyping \/ Connect \/ Start \/ Join \/ Stop \/ CloseSocket
            \/ \E kind \in Kinds : Enter(kind)
  BY <1>2, <1>13 DEF ConnectFails, StopTyping, Connect, Start, Join, Stop, CloseSocket, Enter
<1>14. CASE Hello \/ EnterName \/ SendLine
  BY <1>2, <1>14 DEF Hello, EnterName, SendLine, Send
<1> QED
  BY NextActions, <1>4, <1>5, <1>6, <1>7, <1>9, <1>10, <1>11, <1>12, <1>13, <1>14 DEF Actions

LEMMA Inductive == IInv /\ [Next]_vars => IInv'
<1> SUFFICES ASSUME IInv, [Next]_vars PROVE IInv'
  OBVIOUS
<1>1. CASE Next
  BY <1>1, TypeStep, ThreadsStep, LoginStep, OrderStep DEF IInv
<1>2. CASE UNCHANGED vars
  BY <1>2 DEF vars, threadVars, screenVars, serverVars, netVars, IInv, TypeOK, Threads,
     Login, Order, Quitting, AtMostOneLineLost
<1> QED
  BY <1>1, <1>2

LEMMA Invariance == Spec => []IInv
<1>1. Init => IInv
  BY InitIInv
<1>2. IInv /\ [Next]_vars => IInv'
  BY Inductive
<1> QED
  BY <1>1, <1>2, PTL DEF Spec

-----------------------------------------------------------------------------
(* The theorems. *)

\* The variables keep their types; in particular no message of the others gets
\* a number that no one said, and lines are lost within the bound.
THEOREM TypeCorrect == Spec => []TypeOK
BY Invariance, PTL DEF IInv

\* authRoutine_ of either client starts the two threads of the room only when
\* the server's session has entered the user, or is over.
THEOREM InRoom == Spec => []InRoomIsRegistered
<1>1. IInv => InRoomIsRegistered
  BY ClientAssumption DEF IInv, Threads, Login, TypeOK, InRoomIsRegistered
<1> QED
  BY <1>1, Invariance, PTL

\* Between the listening thread's end of the room and the writer's notice of it
\* one line at most is sent to the closed socket.
THEOREM LinesLost == Spec => []AtMostOneLineLost
<1>1. IInv => AtMostOneLineLost
  BY DEF IInv, Threads
<1> QED
  BY <1>1, Invariance, PTL

\* What the login and the listening thread show of the others' messages is all
\* of them, in the order of the server's sends.
THEOREM Shown == Spec => []ShownInOrder
<1>1. IInv => ShownInOrder
  BY DEF IInv, TypeOK, Order, Orderly, ShownInOrder
<1> QED
  BY <1>1, Invariance, PTL

-----------------------------------------------------------------------------
(* The client implements the abstract one. Phase is a function of alive, fd, *)
(* main, program and sent.                                                   *)

LEMMA StepRefines ==
    ASSUME IInv, [Next]_vars
    PROVE  [User!Next]_<<program, Phase, sent>>
<1> TypeOK /\ Threads
  BY DEF IInv
<1> USE DEF threadVars, screenVars, serverVars, netVars
<1>1. program \in {"osi", "tcp_pthread"} /\ (program = "osi" \/ program = "tcp_pthread")
  BY ClientAssumption DEF TypeOK
<1>2. ASSUME UNCHANGED <<alive, fd, main, program, sent>>
      PROVE  UNCHANGED <<program, Phase, sent>>
  BY <1>2 DEF Phase, Quitting
<1>3. ASSUME Phase' = "gone", UNCHANGED <<program, sent>>
      PROVE  [User!Next]_<<program, Phase, sent>>
  BY <1>3 DEF User!Next, User!Leave, User!Quietly
<1>4. ASSUME ~alive' PROVE Phase' = "gone"
  BY <1>4 DEF Phase
<1>5. ASSUME NEW kind, Send(kind) PROVE sent' = IF alive' THEN Append(sent, kind) ELSE sent
  BY <1>5 DEF Send
<1>6. main \in {"start", "reply", "name", "answer", "enter"} => fd = "open" /\ ~Quitting
  BY DEF Threads, TypeOK
<1>7. CASE UNCHANGED vars
  BY <1>2, <1>7 DEF vars
<1>8. CASE Receive \/ Welcome \/ Close \/ Talk \/ ServerDies
  BY <1>2, <1>8 DEF Receive, Welcome, Close, Talk, ServerDies
<1>9. CASE ConnectFails
  BY <1>3, <1>4, <1>9 DEF ConnectFails
<1>10. CASE Next /\ EnterName
  <2>1. alive /\ main = "name" /\ main' = "answer" /\ UNCHANGED program /\ fd = "open"
        /\ UNCHANGED fd
    BY <1>6, <1>10 DEF EnterName, At, Next, Send
  <2>2. CASE alive'
    <3>1. Phase = (IF program = "osi" THEN "hello" ELSE "name") /\ Phase' = "auth"
      BY <2>1, <2>2 DEF Phase
    <3>2. sent' = Append(sent, IF program = "osi" THEN "AUTH" ELSE "HELLO")
      BY <1>5, <1>10, <2>2 DEF EnterName
    <3> QED
      BY <1>1, <2>1, <3>1, <3>2 DEF User!Next, User!EnterName, User!Go, User!With
  <2>3. CASE ~alive'
    BY <1>3, <1>4, <1>5, <1>10, <2>1, <2>3 DEF EnterName
  <2> QED
    BY <2>2, <2>3
<1>11. CASE \E kind \in Kinds : Enter(kind)
  BY <1>11 DEF Enter, At, Phase, Quitting
<1>12. CASE StopTyping
  BY <1>12 DEF StopTyping, At, Phase, Quitting
<1>13. CASE Connect
  BY <1>13 DEF Connect, At, Phase, Quitting
<1>14. CASE Next /\ Hello
  <2>1. alive /\ main = "start" /\ main' = "reply" /\ program = "osi" /\ UNCHANGED program
        /\ fd = "open" /\ UNCHANGED fd
    BY <1>6, <1>14 DEF Hello, At, Next, Send
  <2>2. CASE alive'
    <3>1. Phase = "off" /\ Phase' = "hello"
      BY <2>1, <2>2 DEF Phase
    <3>2. sent' = Append(sent, "HELLO")
      BY <1>5, <1>14, <2>2 DEF Hello
    <3> QED
      BY <2>1, <3>1, <3>2 DEF User!Next, User!Greet, User!Go, User!With
  <2>3. CASE ~alive'
    BY <1>3, <1>4, <1>5, <1>14, <2>1, <2>3 DEF Hello
  <2> QED
    BY <2>2, <2>3
<1>15. CASE RecvHelloReply
  <2>1. /\ main = "reply" /\ main' \in {"name", "done"} /\ program = "osi"
        /\ UNCHANGED <<alive, program, sent, fd>>
    BY <1>15 DEF RecvHelloReply, Recv, Threads
  <2>2. CASE main' = "done"
    BY <1>3, <2>1, <2>2 DEF Phase
  <2>3. CASE main' = "name"
    BY <2>1, <2>3 DEF Phase, Quitting
  <2> QED
    BY <2>1, <2>2, <2>3
<1>16. CASE Next /\ RecvReply
  <2>1. PICK m \in Messages : RecvReply!(m)
    BY <1>16 DEF RecvReply
  <2>2. /\ alive /\ main = "answer" /\ main' = AfterReply(m.kind) /\ fd = "open"
        /\ UNCHANGED <<alive, program, sent, fd>>
    BY <1>6, <1>16, <2>1 DEF Recv, Next
  <2>3. CASE main' = "done"
    BY <1>3, <2>2, <2>3 DEF Phase
  <2>4. CASE main' = "enter"
    BY <2>2, <2>4 DEF Phase
  <2>5. CASE main' = "name"
    <3>1. program = "tcp_pthread"
      BY <1>1, <2>2, <2>5 DEF AfterReply
    <3>2. Phase = "auth" /\ Phase' = "name"
      BY <2>2, <2>5, <3>1 DEF Phase
    <3> QED
      BY <2>2, <3>1, <3>2 DEF User!Next, User!AskAgain, User!Go, User!Quietly
  <2> QED
    BY <2>2, <2>3, <2>4, <2>5 DEF AfterReply
<1>17. CASE Next /\ Start
  <2>1. /\ alive /\ main = "enter" /\ main' = "type" /\ fd = "open" /\ ~Quitting
        /\ UNCHANGED <<alive, program, sent, fd>>
    BY <1>6, <1>17 DEF Start, At, Next
  <2>2. Phase = "auth" /\ Phase' = "chat"
    BY <2>1 DEF Phase, Quitting
  <2> QED
    BY <2>1, <2>2 DEF User!Next, User!EnterRoom, User!Go, User!Quietly
<1>18. CASE Next /\ SendLine
  <2>1. /\ alive /\ main = "send" /\ main' \in {"type", "join"} /\ ~Quitting
        /\ UNCHANGED <<program, fd>>
    BY <1>18 DEF SendLine, At, AfterLine, Next, Send, Threads
  <2>2. CASE fd = "open" /\ alive'
    <3>1. sent' = Append(sent, line)
      BY <1>5, <1>18, <2>2 DEF SendLine
    <3>2. sent \in Seq(RequestKinds)
      BY DEF TypeOK, RequestKinds
    <3>3. Quitting' <=> line = "BYE"
      BY <3>1, <3>2 DEF Quitting
    <3>4. Phase = "chat" /\ Phase' = IF line = "BYE" THEN "quit" ELSE "chat"
      BY <2>1, <2>2, <3>3 DEF Phase
    <3>5. CASE line = "BYE"
      BY <2>1, <3>1, <3>4, <3>5 DEF User!Next, User!Quit, User!Go, User!With
    <3>6. CASE line # "BYE"
      <4>1. line \in ChatKinds
        BY <3>6 DEF TypeOK
      <4>2. User!Say
        BY <2>1, <3>1, <3>4, <3>6, <4>1 DEF User!Say, User!Go, User!With
      <4> QED
        BY <4>2 DEF User!Next
    <3> QED
      BY <3>5, <3>6
  <2>3. CASE fd = "open" /\ ~alive'
    BY <1>3, <1>4, <1>5, <1>18, <2>1, <2>3 DEF SendLine
  <2>4. CASE fd # "open"
    <3>1. fd' = "closed" /\ UNCHANGED sent
      BY <1>18, <2>1, <2>4 DEF SendLine, TypeOK
    <3> QED
      BY <1>3, <2>1, <3>1 DEF Phase
  <2> QED
    BY <2>2, <2>3, <2>4
<1>19. CASE Join
  BY <1>3, <1>19 DEF Join, At, Phase
<1>20. CASE ListenRecv
  BY <1>2, <1>20 DEF ListenRecv, ListenTo, Recv
<1>21. CASE ListenThrows
  BY <1>3, <1>4, <1>21 DEF ListenThrows, ListenTo, Recv
<1>22. CASE Stop
  BY <1>2, <1>22 DEF Stop
<1>23. CASE CloseSocket
  BY <1>3, <1>23 DEF CloseSocket, Phase
<1> QED
  BY NextActions, <1>7, <1>8, <1>9, <1>10, <1>11, <1>12, <1>13, <1>14, <1>15, <1>16, <1>17,
     <1>18, <1>19, <1>20, <1>21, <1>22, <1>23 DEF Actions

\* Each client keeps to the order of greeting, name, lines and goodbye that the
\* two servers' models take for granted.
THEOREM ImplementsChatUser == Spec => IsChatUser
<1>1. Init => User!Init
  BY ClientAssumption DEF Init, User!Init, Phase, Quitting
<1>2. IInv /\ [Next]_vars => [User!Next]_<<program, Phase, sent>>
  BY StepRefines
<1> QED
  BY Invariance, <1>1, <1>2, PTL DEF Spec, IsChatUser, User!UserSpec
=============================================================================
