-------------------------- MODULE ChatServerProofs --------------------------
(***************************************************************************)
(* The safety of ChatServer for any number of clients, names and messages. *)
(* SessionState, NoStaleEntry, SeatKept and JobAudience are inductive      *)
(* together; they tie the table to the sessions, bound it by the pool's    *)
(* width (CapacitySlack) and say who hears what (Audience).                *)
(***************************************************************************)
EXTENDS ChatServer, FiniteSetTheorems, TLAPS

ActiveBounded ==
    /\ IsFiniteSet(active)
    /\ Cardinality(active) <= MaxConnections + 1

IInv ==
    /\ TypeOK
    /\ SessionState
    /\ NoStaleEntry
    /\ SeatKept
    /\ ActiveBounded
    /\ JobAudience
    /\ Audience

-----------------------------------------------------------------------------
(* Types of the helpers. *)

LEMMA IncomingType ==
    ASSUME TypeOK, NEW c \in Conns
    PROVE  Incoming(c) \subseteq Requests
<1>1. CASE inbox[c] # <<>>
  <2>1. Head(inbox[c]) \in Requests
    BY <1>1 DEF TypeOK
  <2> QED
    BY <1>1, <2>1 DEF Incoming
<1>2. CASE inbox[c] = <<>>
  <2>1. Noise \subseteq Requests
    BY ChatAssumption DEF Noise, Requests
  <2>2. Request("BYE", EmptyNick, 0) \in Requests
    BY ChatAssumption DEF Request, Requests, RequestKinds, ChatKinds, Names
  <2>3. peer[c] \in {"open", "fin", "abort", "rst"}
    BY DEF TypeOK
  <2> QED
    BY <1>2, <2>1, <2>2, <2>3 DEF Incoming
<1> QED
  BY <1>1, <1>2

LEMMA ReceiveType ==
    ASSUME TypeOK, NEW c \in Conns, NEW m, Receive(c, m)
    PROVE  /\ m \in Requests
           /\ inbox' \in [Conns -> Seq(Requests)]
           /\ peer' \in [Conns -> {"open", "fin", "abort", "rst"}]
           /\ UNCHANGED <<outbox, up>>
<1>1. m \in Requests
  BY IncomingType DEF Receive
<1>2. inbox' \in [Conns -> Seq(Requests)]
  <2>1. inbox[c] # <<>> => Tail(inbox[c]) \in Seq(Requests)
    BY DEF TypeOK
  <2> QED
    BY <2>1 DEF Receive, TypeOK
<1>3. peer' \in [Conns -> {"open", "fin", "abort", "rst"}]
  BY DEF Receive, TypeOK
<1> QED
  BY <1>1, <1>2, <1>3 DEF Receive

JobType == [Conns -> [msg : Replies, to : SUBSET Conns, then : SessionPCs]]

LEMMA GotoType ==
    ASSUME TypeOK, NEW c \in Conns, NEW next \in SessionPCs, Goto(c, next)
    PROVE  pc' \in [Conns -> SessionPCs]
BY DEF TypeOK, Goto

LEMMA SendingType ==
    ASSUME TypeOK, NEW c \in Conns, NEW m \in Replies, NEW to \in SUBSET Conns,
           NEW next \in SessionPCs, StartSending(c, m, to, next)
    PROVE  pc' \in [Conns -> SessionPCs] /\ job' \in JobType
<1>1. "send" \in SessionPCs
  BY DEF SessionPCs
<1>2. pc' \in [Conns -> SessionPCs]
  BY <1>1 DEF TypeOK, Goto, StartSending
<1>3. [msg |-> m, to |-> to, then |-> next] \in [msg : Replies, to : SUBSET Conns, then : SessionPCs]
  OBVIOUS
<1> QED
  BY <1>2, <1>3 DEF TypeOK, StartSending, JobType

LEMMA PlainType ==
    ASSUME NEW kind \in ReplyKinds, NEW c \in Conns
    PROVE  Plain(kind, c) \in Replies
BY ChatAssumption DEF Plain, Reply, Replies, Names

LEMMA ReplyType ==
    ASSUME NEW kind \in ReplyKinds, NEW c \in Conns, NEW n \in Names, NEW k \in 0..MaxSays
    PROVE  Reply(kind, c, n, k) \in Replies
BY DEF Reply, Replies

LEMMA OthersType ==
    ASSUME TypeOK, NEW c \in Conns
    PROVE  Others(c) \subseteq Conns
BY DEF TypeOK, Others, Registered

LEMMA DeliverType ==
    ASSUME TypeOK, NEW r \in Conns, NEW m \in Replies, Deliver(r, m)
    PROVE  /\ outbox' \in [Conns -> Seq(Replies)]
           /\ peer' \in [Conns -> {"open", "fin", "abort", "rst"}]
           /\ up' \in BOOLEAN
<1>1. Append(outbox[r], m) \in Seq(Replies)
  BY DEF TypeOK
<1>2. CASE peer[r] = "open"
  BY <1>1, <1>2 DEF Deliver, TypeOK
<1>3. CASE peer[r] # "open"
  BY <1>3 DEF Deliver, TypeOK
<1> QED
  BY <1>2, <1>3

-----------------------------------------------------------------------------
LEMMA InitIInv == Init => IInv
<1> SUFFICES ASSUME Init PROVE IInv
  OBVIOUS
<1>1. TypeOK
  <2>2. job \in JobType
    BY PlainType DEF Init, JobType, SessionPCs, ReplyKinds
  <2>3. pc \in [Conns -> SessionPCs]
    BY DEF Init, SessionPCs
  <2>4. conns \in [Nicks -> Conns \cup {NoConn}] /\ up \in BOOLEAN
    BY DEF Init
  <2>5. queue \in Seq(Conns) /\ active = {} /\ finished = {}
    BY DEF Init, Pool!PoolInit
  <2>6. /\ user \in [Conns -> Nicks \cup {EmptyNick}]
        /\ nickname \in [Conns -> Names]
    BY DEF Init, Names
  <2>7. /\ inbox \in [Conns -> Seq(Requests)]
        /\ outbox \in [Conns -> Seq(Replies)]
    BY DEF Init
  <2>8. /\ peer \in [Conns -> {"open", "fin", "abort", "rst"}]
        /\ phase \in [Conns -> {"off", "hello", "auth", "chat", "quit", "gone"}]
    BY DEF Init
  <2>9. said \in [Conns -> 0..MaxSays]
    BY ChatAssumption DEF Init
  <2> QED
    BY <2>2, <2>3, <2>4, <2>5, <2>6, <2>7, <2>8, <2>9 DEF TypeOK, JobType
<1>2. SessionState
  BY DEF Init, SessionState, Pool!PoolInit, Pool!Queued
<1>3. NoStaleEntry
  BY DEF Init, NoStaleEntry, Registered
<1>4. ActiveBounded
  BY FS_EmptySet, ChatAssumption DEF Init, Pool!PoolInit, ActiveBounded
<1>5. JobAudience
  BY DEF Init, JobAudience
<1>6. Audience
  BY DEF Init, Audience
<1>7. SeatKept
  BY DEF Init, SeatKept, Pool!PoolInit
<1> QED
  BY <1>1, <1>2, <1>3, <1>4, <1>5, <1>6, <1>7 DEF IInv

-----------------------------------------------------------------------------
LEMMA ChatType ==
    ASSUME TypeOK, NEW c \in Conns, NEW m, Chat(c, m),
           pc' \in [Conns -> SessionPCs], job' \in JobType
    PROVE  TypeOK'
BY ReceiveType DEF Chat, TypeOK, JobType, tableVars, poolVars, clientVars

LEMMA TypeStep ==
    ASSUME TypeOK, SessionState, [Next]_vars
    PROVE  TypeOK'
<1>1. CASE UNCHANGED vars
  BY <1>1 DEF vars, tableVars, poolVars, netVars, clientVars, TypeOK
<1>2. ASSUME NEW c \in Conns, Connect(c) PROVE TypeOK'
  <2>1. queue' \in Seq(Conns) /\ UNCHANGED <<active, finished>>
    BY <1>2 DEF Connect, Pool!Submit, TypeOK
  <2>2. pc' \in [Conns -> SessionPCs]
    BY <1>2, GotoType DEF Connect, SessionPCs
  <2>3. Request("HELLO", EmptyNick, 0) \in Requests
    BY ChatAssumption DEF Request, Requests, RequestKinds, Names
  <2>4. inbox' \in [Conns -> Seq(Requests)]
    BY <1>2, <2>3 DEF Connect, SendRequest, TypeOK
  <2> QED
    BY <1>2, <2>1, <2>2, <2>4 DEF Connect, TypeOK, tableVars, poolVars, netVars, clientVars
<1>3. ASSUME NEW c \in Conns, NEW n \in Names, EnterNick(c, n) PROVE TypeOK'
  <2>1. Request("AUTH", n, 0) \in Requests
    BY ChatAssumption DEF Request, Requests, RequestKinds
  <2>2. inbox' \in [Conns -> Seq(Requests)]
    BY <1>3, <2>1 DEF EnterNick, SendRequest, TypeOK
  <2> QED
    BY <1>3, <2>2 DEF EnterNick, TypeOK, tableVars, poolVars, netVars, clientVars
<1>4. ASSUME NEW c \in Conns, EnterRoom(c) PROVE TypeOK'
  BY <1>4 DEF EnterRoom, TypeOK, tableVars, poolVars, netVars, clientVars
<1>5. ASSUME NEW c \in Conns, NEW kind \in Kinds[c], NEW n \in Names, Say(c, kind, n) PROVE TypeOK'
  <2>1. said[c] + 1 \in 0..MaxSays
    BY <1>5, ChatAssumption DEF Say, TypeOK
  <2>2. kind \in RequestKinds
    BY ChatAssumption DEF RequestKinds
  <2>3. Request(kind, n, said[c] + 1) \in Requests
    BY <2>1, <2>2 DEF Request, Requests
  <2>4. inbox' \in [Conns -> Seq(Requests)]
    BY <1>5, <2>3 DEF Say, SendRequest, TypeOK
  <2> QED
    BY <1>5, <2>1, <2>4 DEF Say, TypeOK, tableVars, poolVars, netVars, clientVars
<1>6. ASSUME NEW c \in Conns, CloseSocket(c) PROVE TypeOK'
  BY <1>6 DEF CloseSocket, TypeOK, tableVars, poolVars, netVars, clientVars
<1>7. ASSUME NEW c \in Conns, NEW fault \in Faults, Vanish(c, fault) PROVE TypeOK'
  <2>1. fault \in {"fin", "abort"}
    BY ChatAssumption
  <2> QED
    BY <1>7, <2>1 DEF Vanish, TypeOK, tableVars, poolVars, netVars, clientVars
<1>8. ASSUME NEW c \in Conns, RecvHello(c) PROVE TypeOK'
  <2>1. PICK m \in Incoming(c) :
          /\ Receive(c, m)
          /\ \/ StartSending(c, Plain("WELCOME", c), {c}, "auth")
             \/ StartSending(c, Plain("ERROR", c), {c}, "cleanup")
    BY <1>8 DEF RecvHello
  <2>2. /\ {Plain("WELCOME", c), Plain("ERROR", c)} \subseteq Replies
        /\ {"auth", "cleanup"} \subseteq SessionPCs
    BY PlainType DEF ReplyKinds, SessionPCs
  <2>3. pc' \in [Conns -> SessionPCs] /\ job' \in JobType
    BY <2>1, <2>2, SendingType
  <2> QED
    BY <1>8, <2>1, <2>3, ReceiveType DEF RecvHello, TypeOK, JobType, tableVars, poolVars, netVars, clientVars
<1>9. ASSUME NEW c \in Conns, RecvAuth(c) PROVE TypeOK'
  <2>1. PICK m \in Incoming(c) :
          /\ Receive(c, m)
          /\ nickname' = [nickname EXCEPT ![c] = m.nick]
          /\ \/ StartSending(c, Plain("ERROR", c), {c}, "cleanup")
             \/ Goto(c, "register") /\ UNCHANGED job
    BY <1>9 DEF RecvAuth
  <2>2. Plain("ERROR", c) \in Replies /\ {"register", "cleanup"} \subseteq SessionPCs
    BY PlainType DEF ReplyKinds, SessionPCs
  <2>3. pc' \in [Conns -> SessionPCs] /\ job' \in JobType
    BY <2>1, <2>2, SendingType, GotoType DEF TypeOK, JobType
  <2>4. nickname' \in [Conns -> Names]
    BY <2>1, IncomingType DEF TypeOK, Requests
  <2> QED
    BY <1>9, <2>1, <2>3, <2>4, ReceiveType DEF RecvAuth, TypeOK, JobType, tableVars, poolVars, netVars, clientVars
<1>10. ASSUME NEW c \in Conns, Register(c) PROVE TypeOK'
  <2>1. nickname[c] \in Nicks
    BY <1>10 DEF Register, SessionState
  <2>2. pc' \in [Conns -> SessionPCs]
    BY <1>10, GotoType DEF Register, SessionPCs
  <2> QED
    BY <1>10, <2>1, <2>2 DEF Register, TypeOK, tableVars, poolVars, netVars, clientVars
<1>11. ASSUME NEW c \in Conns, Announce(c) PROVE TypeOK'
  <2>1. Plain("HI", c) \in Replies /\ "greet" \in SessionPCs /\ Others(c) \subseteq Conns
    BY PlainType, OthersType DEF ReplyKinds, SessionPCs
  <2>2. pc' \in [Conns -> SessionPCs] /\ job' \in JobType
    BY <1>11, <2>1, SendingType DEF Announce
  <2> QED
    BY <1>11, <2>2 DEF Announce, TypeOK, JobType, tableVars, poolVars, netVars, clientVars
<1>12. ASSUME NEW c \in Conns, Greet(c) PROVE TypeOK'
  <2>1. Plain("WELCOME", c) \in Replies /\ "chat" \in SessionPCs /\ {c} \subseteq Conns
    BY PlainType, OthersType DEF ReplyKinds, SessionPCs
  <2>2. pc' \in [Conns -> SessionPCs] /\ job' \in JobType
    BY <1>12, <2>1, SendingType DEF Greet
  <2> QED
    BY <1>12, <2>2 DEF Greet, TypeOK, JobType, tableVars, poolVars, netVars, clientVars
<1>13. ASSUME NEW c \in Conns, RecvText(c) PROVE TypeOK'
  <2>1. PICK m \in Incoming(c) : m.kind = "TEXT" /\ Chat(c, m) /\ StartSending(c, Reply("TEXT", c, EmptyNick, m.n), Others(c), "chat")
    BY <1>13 DEF RecvText
  <2>2. m.n \in 0..MaxSays /\ EmptyNick \in Names
    BY IncomingType DEF Requests, Names
  <2>3. Reply("TEXT", c, EmptyNick, m.n) \in Replies
    BY <2>2, ReplyType DEF ReplyKinds
  <2>4. Others(c) \subseteq Conns /\ "chat" \in SessionPCs
    BY OthersType DEF SessionPCs
  <2>5. pc' \in [Conns -> SessionPCs] /\ job' \in JobType
    BY <2>1, <2>3, <2>4, SendingType
  <2> QED
    BY <2>1, <2>5, ChatType
<1>14. ASSUME NEW c \in Conns, RecvPing(c) PROVE TypeOK'
  <2>1. PICK m \in Incoming(c) : m.kind = "PING" /\ Chat(c, m) /\ StartSending(c, Reply("PONG", c, EmptyNick, m.n), {c}, "chat")
    BY <1>14 DEF RecvPing
  <2>2. m.n \in 0..MaxSays /\ EmptyNick \in Names
    BY IncomingType DEF Requests, Names
  <2>3. Reply("PONG", c, EmptyNick, m.n) \in Replies
    BY <2>2, ReplyType DEF ReplyKinds
  <2>4. {c} \subseteq Conns /\ "chat" \in SessionPCs
    BY DEF SessionPCs
  <2>5. pc' \in [Conns -> SessionPCs] /\ job' \in JobType
    BY <2>1, <2>3, <2>4, SendingType
  <2> QED
    BY <2>1, <2>5, ChatType
<1>15. ASSUME NEW c \in Conns, RecvBye(c) PROVE TypeOK'
  <2>1. PICK m \in Incoming(c) : m.kind = "BYE" /\ Chat(c, m) /\ StartSending(c, Plain("BYE", c), {c}, "left")
    BY <1>15 DEF RecvBye
  <2>2. m.n \in 0..MaxSays /\ EmptyNick \in Names
    BY IncomingType DEF Requests, Names
  <2>3. Plain("BYE", c) \in Replies
    BY <2>2, PlainType DEF ReplyKinds
  <2>4. {c} \subseteq Conns /\ "left" \in SessionPCs
    BY DEF SessionPCs
  <2>5. pc' \in [Conns -> SessionPCs] /\ job' \in JobType
    BY <2>1, <2>3, <2>4, SendingType
  <2> QED
    BY <2>1, <2>5, ChatType
<1>16. ASSUME NEW c \in Conns, Left(c) PROVE TypeOK'
  <2>1. Plain("LEFT", c) \in Replies /\ "cleanup" \in SessionPCs /\ Others(c) \subseteq Conns
    BY PlainType, OthersType DEF ReplyKinds, SessionPCs
  <2>2. pc' \in [Conns -> SessionPCs] /\ job' \in JobType
    BY <1>16, <2>1, SendingType DEF Left
  <2> QED
    BY <1>16, <2>2 DEF Left, TypeOK, JobType, tableVars, poolVars, netVars, clientVars
<1>17. ASSUME NEW c \in Conns, RecvPrivate(c) PROVE TypeOK'
  <2>1. PICK m \in Incoming(c) :
          /\ Chat(c, m)
          /\ IF m.nick \in Registered
             THEN /\ job' = [job EXCEPT ![c].msg = Reply("PRIVATE", c, m.nick, m.n)]
                  /\ Goto(c, "lookup")
             ELSE StartSending(c, Plain("ERROR", c), {c}, "chat")
    BY <1>17 DEF RecvPrivate
  <2>2. CASE m.nick \in Registered
    <3>1. m.n \in 0..MaxSays /\ m.nick \in Names
      BY IncomingType DEF Requests
    <3>2. Reply("PRIVATE", c, m.nick, m.n) \in Replies
      BY <3>1, ReplyType DEF ReplyKinds
    <3>3. pc' \in [Conns -> SessionPCs]
      BY <2>1, <2>2, GotoType DEF SessionPCs
    <3>4. job' \in JobType
      <4> DEFINE R == Reply("PRIVATE", c, m.nick, m.n)
                 J == [msg : Replies, to : SUBSET Conns, then : SessionPCs]
      <4>1. job[c] \in J
        BY DEF TypeOK
      <4>2. [job[c] EXCEPT !.msg = R] \in J
        BY <3>2, <4>1
      <4>3. job' = [job EXCEPT ![c] = [job[c] EXCEPT !.msg = R]]
        BY <2>1, <2>2
      <4> HIDE DEF J
      <4>4. job \in [Conns -> J]
        BY DEF TypeOK, J
      <4>5. job' \in [Conns -> J]
        BY <4>2, <4>3, <4>4
      <4> QED
        BY <4>5 DEF JobType, J
    <3> QED
      BY <2>1, <3>3, <3>4, ChatType
  <2>3. CASE m.nick \notin Registered
    <3>1. Plain("ERROR", c) \in Replies /\ "chat" \in SessionPCs
      BY PlainType DEF ReplyKinds, SessionPCs
    <3>2. pc' \in [Conns -> SessionPCs] /\ job' \in JobType
      BY <2>1, <2>3, <3>1, SendingType
    <3> QED
      BY <2>1, <3>2, ChatType
  <2> QED
    BY <2>2, <2>3
<1>18. ASSUME NEW c \in Conns, Lookup(c) PROVE TypeOK'
  <2>1. pc' \in [Conns -> SessionPCs] /\ job' \in JobType
    <3> DEFINE to == job[c].msg.nick
    <3>1. CASE to \in Registered
      <4>1. conns[to] \in Conns /\ job[c].msg \in Replies
        BY <3>1 DEF TypeOK, Registered
      <4>2. StartSending(c, job[c].msg, {conns[to]}, "chat")
        BY <1>18, <3>1 DEF Lookup
      <4> QED
        BY <4>1, <4>2, SendingType DEF SessionPCs
    <3>2. CASE to \notin Registered
      BY <1>18, <3>2, GotoType DEF Lookup, SessionPCs, TypeOK, JobType
    <3> QED
      BY <3>1, <3>2
  <2> QED
    BY <1>18, <2>1 DEF Lookup, TypeOK, JobType, tableVars, poolVars, netVars, clientVars
<1>19. ASSUME NEW c \in Conns, RecvGarbled(c) PROVE TypeOK'
  <2>1. PICK m \in Incoming(c) : Chat(c, m) /\ Goto(c, "cleanup") /\ UNCHANGED job
    BY <1>19 DEF RecvGarbled
  <2>2. pc' \in [Conns -> SessionPCs] /\ job' \in JobType
    BY <2>1, GotoType DEF SessionPCs, TypeOK, JobType
  <2> QED
    BY <2>1, <2>2, ChatType
<1>20. ASSUME NEW c \in Conns, RecvOther(c) PROVE TypeOK'
  <2>1. PICK m \in Incoming(c) : Chat(c, m) /\ UNCHANGED <<pc, job>>
    BY <1>20 DEF RecvOther
  <2>2. pc' \in [Conns -> SessionPCs] /\ job' \in JobType
    BY <2>1, GotoType DEF SessionPCs, TypeOK, JobType
  <2> QED
    BY <2>1, <2>2, ChatType
<1>21. ASSUME NEW c \in Conns, Send(c) PROVE TypeOK'
  <2>1. PICK r \in job[c].to :
          /\ Deliver(r, job[c].msg)
          /\ StartSending(c, job[c].msg, Remaining(c, r), job[c].then)
    BY <1>21 DEF Send
  <2>2. /\ r \in Conns
        /\ job[c].msg \in Replies
        /\ Remaining(c, r) \subseteq Conns
        /\ job[c].then \in SessionPCs
    BY DEF TypeOK, Remaining
  <2>3. pc' \in [Conns -> SessionPCs] /\ job' \in JobType
    BY <2>1, <2>2, SendingType
  <2> QED
    BY <1>21, <2>1, <2>2, <2>3, DeliverType DEF Send, TypeOK, JobType, tableVars, poolVars, netVars, clientVars
<1>22. ASSUME NEW c \in Conns, Cleanup(c) PROVE TypeOK'
  <2>1. conns' \in [Nicks -> Conns \cup {NoConn}]
    BY <1>22 DEF Cleanup, Erased, TypeOK
  <2>2. pc' \in [Conns -> SessionPCs]
    BY <1>22, GotoType DEF Cleanup, SessionPCs
  <2>3. queue' = queue /\ active' \subseteq Conns /\ finished' \subseteq Conns
    BY <1>22 DEF Cleanup, Pool!Finish, TypeOK
  <2> QED
    BY <1>22, <2>1, <2>2, <2>3 DEF Cleanup, TypeOK, tableVars, poolVars, netVars, clientVars
<1>23. ASSUME NEW c \in Conns, Dispatch(c) PROVE TypeOK'
  <2>1. queue' \in Seq(Conns) /\ active' \subseteq Conns /\ finished' = finished
    BY <1>23 DEF Dispatch, Pool!Start, TypeOK
  <2>2. pc' \in [Conns -> SessionPCs]
    BY <1>23, GotoType DEF Dispatch, SessionPCs
  <2> QED
    BY <1>23, <2>1, <2>2 DEF Dispatch, TypeOK, tableVars, poolVars, netVars, clientVars
<1> QED
  <2>1. \A n \in Nicks : n \in Names
    BY DEF Names
  <2>2. EmptyNick \in Names
    BY DEF Names
  <2> QED
    BY <2>1, <2>2, <1>1, <1>2, <1>3, <1>4, <1>5, <1>6, <1>7, <1>8, <1>9, <1>10, <1>11, <1>12, <1>13, <1>14, <1>15, <1>16, <1>17, <1>18, <1>19, <1>20, <1>21, <1>22, <1>23
       DEF Next, Client, Session, Serve

-----------------------------------------------------------------------------
(* The sessions, the pool and the table. *)

LEMMA SameCardinality == ASSUME NEW S PROVE Pool!Cardinality(S) = Cardinality(S)
BY DEF Pool!Cardinality, Cardinality

LEMMA QueueAppend ==
    ASSUME TypeOK, SessionState, NEW c \in Conns, c \notin Pool!Queued,
           queue' = Append(queue, c)
    PROVE  /\ Pool!Queued' = Pool!Queued \cup {c}
           /\ \A i, j \in 1..Len(queue') : queue'[i] = queue'[j] => i = j
<1>1. Len(queue') = Len(queue) + 1 /\ Len(queue) \in Nat
  BY DEF TypeOK
<1>2. \A i \in 1..Len(queue) : queue'[i] = queue[i] /\ queue[i] \in Pool!Queued
  BY DEF TypeOK, Pool!Queued
<1>3. queue'[Len(queue) + 1] = c
  BY DEF TypeOK
<1>4. Pool!Queued' = Pool!Queued \cup {c}
  BY <1>1, <1>2, <1>3 DEF Pool!Queued
<1>5. \A i, j \in 1..Len(queue') : queue'[i] = queue'[j] => i = j
  BY <1>1, <1>2, <1>3 DEF SessionState
<1> QED
  BY <1>4, <1>5

LEMMA QueueTail ==
    ASSUME TypeOK, SessionState, NEW c \in Conns, c = Head(queue), queue # <<>>,
           queue' = Tail(queue)
    PROVE  /\ Pool!Queued' = Pool!Queued \ {c}
           /\ c \in Pool!Queued
           /\ \A i, j \in 1..Len(queue') : queue'[i] = queue'[j] => i = j
<1>1. Len(queue') = Len(queue) - 1 /\ Len(queue) \in Nat \ {0}
  BY DEF TypeOK
<1>2. \A i \in 1..Len(queue') : queue'[i] = queue[i + 1] /\ i + 1 \in 1..Len(queue)
  BY <1>1 DEF TypeOK
<1>3. queue[1] = c /\ 1 \in 1..Len(queue)
  BY <1>1 DEF TypeOK
<1>4. \A i \in 2..Len(queue) : i - 1 \in 1..Len(queue') /\ queue'[i - 1] = queue[i]
  BY <1>1, <1>2
<1>5. \A i, j \in 1..Len(queue') : queue'[i] = queue'[j] => i = j
  BY <1>1, <1>2 DEF SessionState
<1>6. \A i \in 1..Len(queue') : queue'[i] # c /\ queue'[i] \in Pool!Queued
  BY <1>1, <1>2, <1>3 DEF SessionState, Pool!Queued
<1>7. \A i \in 1..Len(queue) : queue[i] = c \/ queue[i] \in Pool!Queued'
  <2>1. ASSUME NEW i \in 1..Len(queue), queue[i] # c PROVE queue[i] \in Pool!Queued'
    <3>1. i \in 2..Len(queue)
      BY <1>1, <1>3, <2>1
    <3> QED
      BY <3>1, <1>4 DEF Pool!Queued
  <2> QED
    BY <2>1
<1>8. Pool!Queued' = Pool!Queued \ {c}
  BY <1>6, <1>7 DEF Pool!Queued
<1> QED
  BY <1>3, <1>5, <1>8 DEF Pool!Queued

LEMMA SessionStep ==
    ASSUME TypeOK, SessionState, [Next]_vars
    PROVE  SessionState'
<1>1. CASE UNCHANGED vars
  BY <1>1 DEF vars, tableVars, poolVars, netVars, clientVars, SessionState, Pool!Queued
<1>2. ASSUME NEW c \in Conns, Connect(c) PROVE SessionState'
  <2>1. c \notin Pool!Queued /\ c \notin active /\ c \notin finished
    BY <1>2 DEF Connect, Pool!Submit
  <2>2. queue' = Append(queue, c) /\ UNCHANGED <<active, finished>>
    BY <1>2 DEF Connect, Pool!Submit
  <2>3. pc[c] = "idle"
    BY <2>1 DEF SessionState, TypeOK
  <2>4. Pool!Queued' = Pool!Queued \cup {c}
    BY <2>1, <2>2, QueueAppend
  <2>5. \A i, j \in 1..Len(queue') : queue'[i] = queue'[j] => i = j
    BY <2>1, <2>2, QueueAppend
  <2> QED
    BY <1>2, <2>2, <2>3, <2>4, <2>5 DEF Connect, SessionState, Goto, TypeOK, tableVars
<1>3. ASSUME NEW c \in Conns, NEW n \in Names, EnterNick(c, n) PROVE SessionState'
  BY <1>3 DEF EnterNick, SessionState, tableVars, poolVars, Pool!Queued
<1>4. ASSUME NEW c \in Conns, EnterRoom(c) PROVE SessionState'
  BY <1>4 DEF EnterRoom, SessionState, tableVars, poolVars, Pool!Queued
<1>5. ASSUME NEW c \in Conns, NEW kind \in Kinds[c], NEW n \in Names, Say(c, kind, n) PROVE SessionState'
  BY <1>5 DEF Say, SessionState, tableVars, poolVars, Pool!Queued
<1>6. ASSUME NEW c \in Conns, CloseSocket(c) PROVE SessionState'
  BY <1>6 DEF CloseSocket, SessionState, tableVars, poolVars, Pool!Queued
<1>7. ASSUME NEW c \in Conns, NEW fault \in Faults, Vanish(c, fault) PROVE SessionState'
  BY <1>7 DEF Vanish, SessionState, tableVars, poolVars, Pool!Queued
<1>8. ASSUME NEW c \in Conns, RecvHello(c) PROVE SessionState'
  <2>1. Pool!Queued' = Pool!Queued /\ UNCHANGED <<queue, active, finished>>
    BY <1>8 DEF RecvHello, poolVars, Pool!Queued
  <2> QED
    BY <1>8, <2>1 DEF RecvHello, SessionState, StartSending, Goto, TypeOK, tableVars
<1>9. ASSUME NEW c \in Conns, RecvAuth(c) PROVE SessionState'
  <2>1. Pool!Queued' = Pool!Queued /\ UNCHANGED <<queue, active, finished, user>>
    BY <1>9 DEF RecvAuth, poolVars, Pool!Queued
  <2>2. PICK m \in Incoming(c) :
          /\ nickname' = [nickname EXCEPT ![c] = m.nick]
          /\ IF m.kind # "AUTH" \/ Refused(m.nick)
             THEN StartSending(c, Plain("ERROR", c), {c}, "cleanup")
             ELSE Goto(c, "register") /\ UNCHANGED job
    BY <1>9 DEF RecvAuth
  <2>3. CASE m.kind # "AUTH" \/ Refused(m.nick)
    <3>1. StartSending(c, Plain("ERROR", c), {c}, "cleanup")
      BY <2>2, <2>3
    <3>2. \A d \in Conns \ {c} : nickname'[d] = nickname[d]
      BY <2>2 DEF TypeOK
    <3> QED
      BY <1>9, <2>1, <3>1, <3>2 DEF RecvAuth, SessionState, StartSending, Goto, TypeOK
  <2>4. CASE ~(m.kind # "AUTH" \/ Refused(m.nick))
    <3>1. Goto(c, "register") /\ UNCHANGED job /\ m.nick \in Nicks
      BY <2>2, <2>4 DEF Refused
    <3>2. nickname'[c] = m.nick /\ \A d \in Conns \ {c} : nickname'[d] = nickname[d]
      BY <2>2 DEF TypeOK
    <3> QED
      BY <1>9, <2>1, <3>1, <3>2 DEF RecvAuth, SessionState, Goto, TypeOK
  <2> QED
    BY <2>3, <2>4
<1>10. ASSUME NEW c \in Conns, Register(c) PROVE SessionState'
  <2>1. Pool!Queued' = Pool!Queued /\ UNCHANGED <<queue, active, finished>>
    BY <1>10 DEF Register, poolVars, Pool!Queued
  <2> QED
    BY <1>10, <2>1 DEF Register, SessionState, StartSending, Goto, TypeOK, tableVars
<1>11. ASSUME NEW c \in Conns, Announce(c) PROVE SessionState'
  <2>1. Pool!Queued' = Pool!Queued /\ UNCHANGED <<queue, active, finished>>
    BY <1>11 DEF Announce, poolVars, Pool!Queued
  <2> QED
    BY <1>11, <2>1 DEF Announce, SessionState, StartSending, Goto, TypeOK, tableVars
<1>12. ASSUME NEW c \in Conns, Greet(c) PROVE SessionState'
  <2>1. Pool!Queued' = Pool!Queued /\ UNCHANGED <<queue, active, finished>>
    BY <1>12 DEF Greet, poolVars, Pool!Queued
  <2> QED
    BY <1>12, <2>1 DEF Greet, SessionState, StartSending, Goto, TypeOK, tableVars
<1>13. ASSUME NEW c \in Conns, RecvText(c) PROVE SessionState'
  <2>1. Pool!Queued' = Pool!Queued /\ UNCHANGED <<queue, active, finished>>
    BY <1>13 DEF RecvText, Chat, poolVars, Pool!Queued
  <2> QED
    BY <1>13, <2>1 DEF RecvText, Chat, SessionState, StartSending, Goto, TypeOK, tableVars
<1>14. ASSUME NEW c \in Conns, RecvPing(c) PROVE SessionState'
  <2>1. Pool!Queued' = Pool!Queued /\ UNCHANGED <<queue, active, finished>>
    BY <1>14 DEF RecvPing, Chat, poolVars, Pool!Queued
  <2> QED
    BY <1>14, <2>1 DEF RecvPing, Chat, SessionState, StartSending, Goto, TypeOK, tableVars
<1>15. ASSUME NEW c \in Conns, RecvBye(c) PROVE SessionState'
  <2>1. Pool!Queued' = Pool!Queued /\ UNCHANGED <<queue, active, finished>>
    BY <1>15 DEF RecvBye, Chat, poolVars, Pool!Queued
  <2> QED
    BY <1>15, <2>1 DEF RecvBye, Chat, SessionState, StartSending, Goto, TypeOK, tableVars
<1>16. ASSUME NEW c \in Conns, Left(c) PROVE SessionState'
  <2>1. Pool!Queued' = Pool!Queued /\ UNCHANGED <<queue, active, finished>>
    BY <1>16 DEF Left, poolVars, Pool!Queued
  <2> QED
    BY <1>16, <2>1 DEF Left, SessionState, StartSending, Goto, TypeOK, tableVars
<1>17. ASSUME NEW c \in Conns, RecvPrivate(c) PROVE SessionState'
  <2>1. Pool!Queued' = Pool!Queued /\ UNCHANGED <<queue, active, finished, user, nickname>>
    BY <1>17 DEF RecvPrivate, Chat, poolVars, tableVars, Pool!Queued
  <2>2. PICK m \in Incoming(c) :
          /\ pc[c] = "chat"
          /\ \/ /\ job' = [job EXCEPT ![c].msg = Reply("PRIVATE", c, m.nick, m.n)]
                /\ Goto(c, "lookup")
             \/ StartSending(c, Plain("ERROR", c), {c}, "chat")
    BY <1>17 DEF RecvPrivate, Chat
  <2>3. CASE job' = [job EXCEPT ![c].msg = Reply("PRIVATE", c, m.nick, m.n)] /\ Goto(c, "lookup")
    <3>1. \A d \in Conns \ {c} : job'[d] = job[d]
      BY <2>3 DEF TypeOK
    <3> QED
      BY <2>1, <2>2, <2>3, <3>1 DEF SessionState, Goto, TypeOK
  <2>4. CASE StartSending(c, Plain("ERROR", c), {c}, "chat")
    BY <2>1, <2>2, <2>4 DEF SessionState, StartSending, Goto, TypeOK
  <2> QED
    BY <2>2, <2>3, <2>4
<1>18. ASSUME NEW c \in Conns, Lookup(c) PROVE SessionState'
  <2>1. Pool!Queued' = Pool!Queued /\ UNCHANGED <<queue, active, finished, user, nickname>>
    BY <1>18 DEF Lookup, poolVars, tableVars, Pool!Queued
  <2>2. CASE StartSending(c, job[c].msg, {conns[job[c].msg.nick]}, "chat")
    BY <1>18, <2>1, <2>2 DEF Lookup, SessionState, StartSending, Goto, TypeOK
  <2>3. CASE Goto(c, "cleanup") /\ UNCHANGED job
    BY <1>18, <2>1, <2>3 DEF Lookup, SessionState, Goto, TypeOK
  <2> QED
    BY <1>18, <2>2, <2>3 DEF Lookup
<1>19. ASSUME NEW c \in Conns, RecvGarbled(c) PROVE SessionState'
  <2>1. Pool!Queued' = Pool!Queued /\ UNCHANGED <<queue, active, finished>>
    BY <1>19 DEF RecvGarbled, Chat, poolVars, Pool!Queued
  <2> QED
    BY <1>19, <2>1 DEF RecvGarbled, Chat, SessionState, StartSending, Goto, TypeOK, tableVars
<1>20. ASSUME NEW c \in Conns, RecvOther(c) PROVE SessionState'
  <2>1. Pool!Queued' = Pool!Queued /\ UNCHANGED <<queue, active, finished>>
    BY <1>20 DEF RecvOther, Chat, poolVars, Pool!Queued
  <2> QED
    BY <1>20, <2>1 DEF RecvOther, Chat, SessionState, StartSending, Goto, TypeOK, tableVars
<1>21. ASSUME NEW c \in Conns, Send(c) PROVE SessionState'
  <2>1. Pool!Queued' = Pool!Queued /\ UNCHANGED <<queue, active, finished>>
    BY <1>21 DEF Send, poolVars, Pool!Queued
  <2> QED
    BY <1>21, <2>1 DEF Send, SessionState, StartSending, Goto, TypeOK, tableVars
<1>22. ASSUME NEW c \in Conns, Cleanup(c) PROVE SessionState'
  <2>1. queue' = queue /\ active' = active \ {c} /\ finished' = finished \cup {c}
    BY <1>22 DEF Cleanup, Pool!Finish
  <2>2. Pool!Queued' = Pool!Queued
    BY <2>1 DEF Pool!Queued
  <2> QED
    BY <1>22, <2>1, <2>2 DEF Cleanup, SessionState, Goto, TypeOK
<1>23. ASSUME NEW c \in Conns, Dispatch(c) PROVE SessionState'
  <2>1. c = Head(queue) /\ queue # <<>> /\ queue' = Tail(queue)
    BY <1>23 DEF Dispatch, Pool!Start
  <2>2. active' = active \cup {c} /\ finished' = finished
    BY <1>23 DEF Dispatch, Pool!Start
  <2>3. /\ Pool!Queued' = Pool!Queued \ {c}
        /\ c \in Pool!Queued
        /\ \A i, j \in 1..Len(queue') : queue'[i] = queue'[j] => i = j
    BY <2>1, QueueTail
  <2> QED
    BY <1>23, <2>2, <2>3 DEF Dispatch, SessionState, Goto, TypeOK, tableVars
<1> QED
  <2>1. \A n \in Nicks : n \in Names
    BY DEF Names
  <2>2. EmptyNick \in Names
    BY DEF Names
  <2> QED
    BY <2>1, <2>2, <1>1, <1>2, <1>3, <1>4, <1>5, <1>6, <1>7, <1>8, <1>9, <1>10, <1>11, <1>12, <1>13, <1>14, <1>15, <1>16, <1>17, <1>18, <1>19, <1>20, <1>21, <1>22, <1>23
       DEF Next, Client, Session, Serve

LEMMA EntryStep ==
    ASSUME TypeOK, SessionState, NoStaleEntry, [Next]_vars
    PROVE  NoStaleEntry'
<1>1. CASE UNCHANGED vars
  BY <1>1 DEF vars, tableVars, poolVars, netVars, clientVars, NoStaleEntry, Registered
<1>2. ASSUME NEW c \in Conns, Connect(c) PROVE NoStaleEntry'
  <2>1. active' = active
    BY <1>2 DEF Connect, Pool!Submit
  <2> QED
    BY <1>2, <2>1 DEF Connect, NoStaleEntry, Registered, tableVars
<1>3. ASSUME NEW c \in Conns, NEW n \in Names, EnterNick(c, n) PROVE NoStaleEntry'
  BY <1>3 DEF EnterNick, NoStaleEntry, Registered, tableVars, poolVars
<1>4. ASSUME NEW c \in Conns, EnterRoom(c) PROVE NoStaleEntry'
  BY <1>4 DEF EnterRoom, NoStaleEntry, Registered, tableVars, poolVars
<1>5. ASSUME NEW c \in Conns, NEW kind \in Kinds[c], NEW n \in Names, Say(c, kind, n) PROVE NoStaleEntry'
  BY <1>5 DEF Say, NoStaleEntry, Registered, tableVars, poolVars
<1>6. ASSUME NEW c \in Conns, CloseSocket(c) PROVE NoStaleEntry'
  BY <1>6 DEF CloseSocket, NoStaleEntry, Registered, tableVars, poolVars
<1>7. ASSUME NEW c \in Conns, NEW fault \in Faults, Vanish(c, fault) PROVE NoStaleEntry'
  BY <1>7 DEF Vanish, NoStaleEntry, Registered, tableVars, poolVars
<1>8. ASSUME NEW c \in Conns, RecvHello(c) PROVE NoStaleEntry'
  BY <1>8 DEF RecvHello, NoStaleEntry, Registered, tableVars, poolVars
<1>9. ASSUME NEW c \in Conns, RecvAuth(c) PROVE NoStaleEntry'
  BY <1>9 DEF RecvAuth, NoStaleEntry, Registered, tableVars, poolVars
<1>10. ASSUME NEW c \in Conns, Register(c) PROVE NoStaleEntry'
  <2>1. user[c] = EmptyNick /\ nickname[c] \in Nicks /\ c \in active
    BY <1>10 DEF Register, SessionState
  <2>2. /\ conns' = [conns EXCEPT ![nickname[c]] = c]
        /\ user' = [user EXCEPT ![c] = nickname[c]]
        /\ active' = active
    BY <1>10 DEF Register, poolVars
  <2>3. \A n \in Nicks : conns[n] # NoConn => conns[n] # c
    BY <2>1, ChatAssumption DEF NoStaleEntry, Registered
  <2> QED
    BY <2>1, <2>2, <2>3 DEF NoStaleEntry, Registered, TypeOK
<1>11. ASSUME NEW c \in Conns, Announce(c) PROVE NoStaleEntry'
  BY <1>11 DEF Announce, NoStaleEntry, Registered, tableVars, poolVars
<1>12. ASSUME NEW c \in Conns, Greet(c) PROVE NoStaleEntry'
  BY <1>12 DEF Greet, NoStaleEntry, Registered, tableVars, poolVars
<1>13. ASSUME NEW c \in Conns, RecvText(c) PROVE NoStaleEntry'
  BY <1>13 DEF RecvText, Chat, NoStaleEntry, Registered, tableVars, poolVars
<1>14. ASSUME NEW c \in Conns, RecvPing(c) PROVE NoStaleEntry'
  BY <1>14 DEF RecvPing, Chat, NoStaleEntry, Registered, tableVars, poolVars
<1>15. ASSUME NEW c \in Conns, RecvBye(c) PROVE NoStaleEntry'
  BY <1>15 DEF RecvBye, Chat, NoStaleEntry, Registered, tableVars, poolVars
<1>16. ASSUME NEW c \in Conns, Left(c) PROVE NoStaleEntry'
  BY <1>16 DEF Left, NoStaleEntry, Registered, tableVars, poolVars
<1>17. ASSUME NEW c \in Conns, RecvPrivate(c) PROVE NoStaleEntry'
  BY <1>17 DEF RecvPrivate, Chat, NoStaleEntry, Registered, tableVars, poolVars
<1>18. ASSUME NEW c \in Conns, Lookup(c) PROVE NoStaleEntry'
  BY <1>18 DEF Lookup, NoStaleEntry, Registered, tableVars, poolVars
<1>19. ASSUME NEW c \in Conns, RecvGarbled(c) PROVE NoStaleEntry'
  BY <1>19 DEF RecvGarbled, Chat, NoStaleEntry, Registered, tableVars, poolVars
<1>20. ASSUME NEW c \in Conns, RecvOther(c) PROVE NoStaleEntry'
  BY <1>20 DEF RecvOther, Chat, NoStaleEntry, Registered, tableVars, poolVars
<1>21. ASSUME NEW c \in Conns, Send(c) PROVE NoStaleEntry'
  BY <1>21 DEF Send, NoStaleEntry, Registered, tableVars, poolVars
<1>22. ASSUME NEW c \in Conns, Cleanup(c) PROVE NoStaleEntry'
  <2>1. conns' = Erased(c) /\ user' = user /\ active' = active \ {c}
    BY <1>22 DEF Cleanup, Pool!Finish
  <2> QED
    BY <2>1 DEF Erased, NoStaleEntry, Registered, TypeOK
<1>23. ASSUME NEW c \in Conns, Dispatch(c) PROVE NoStaleEntry'
  <2>1. active \subseteq active' /\ UNCHANGED tableVars
    BY <1>23 DEF Dispatch, Pool!Start
  <2> QED
    BY <2>1 DEF NoStaleEntry, Registered, tableVars
<1> QED
  <2>1. \A n \in Nicks : n \in Names
    BY DEF Names
  <2>2. EmptyNick \in Names
    BY DEF Names
  <2> QED
    BY <2>1, <2>2, <1>1, <1>2, <1>3, <1>4, <1>5, <1>6, <1>7, <1>8, <1>9, <1>10, <1>11, <1>12, <1>13, <1>14, <1>15, <1>16, <1>17, <1>18, <1>19, <1>20, <1>21, <1>22, <1>23
       DEF Next, Client, Session, Serve

\* Entering a name and erasing one touch the seats of that name alone.
LEMMA SeatStep ==
    ASSUME TypeOK, SessionState, SeatKept, [Next]_vars
    PROVE  SeatKept'
<1>1. CASE UNCHANGED vars
  BY <1>1 DEF vars, tableVars, poolVars, netVars, clientVars, SeatKept
<1>2. ASSUME NEW c \in Conns, Connect(c) PROVE SeatKept'
  <2>1. active' = active
    BY <1>2 DEF Connect, Pool!Submit
  <2> QED
    BY <1>2, <2>1 DEF Connect, SeatKept, tableVars
<1>3. ASSUME NEW c \in Conns, NEW n \in Names, EnterNick(c, n) PROVE SeatKept'
  BY <1>3 DEF EnterNick, SeatKept, tableVars, poolVars
<1>4. ASSUME NEW c \in Conns, EnterRoom(c) PROVE SeatKept'
  BY <1>4 DEF EnterRoom, SeatKept, tableVars, poolVars
<1>5. ASSUME NEW c \in Conns, NEW kind \in Kinds[c], NEW n \in Names, Say(c, kind, n) PROVE SeatKept'
  BY <1>5 DEF Say, SeatKept, tableVars, poolVars
<1>6. ASSUME NEW c \in Conns, CloseSocket(c) PROVE SeatKept'
  BY <1>6 DEF CloseSocket, SeatKept, tableVars, poolVars
<1>7. ASSUME NEW c \in Conns, NEW fault \in Faults, Vanish(c, fault) PROVE SeatKept'
  BY <1>7 DEF Vanish, SeatKept, tableVars, poolVars
<1>8. ASSUME NEW c \in Conns, RecvHello(c) PROVE SeatKept'
  BY <1>8 DEF RecvHello, SeatKept, tableVars, poolVars
<1>9. ASSUME NEW c \in Conns, RecvAuth(c) PROVE SeatKept'
  BY <1>9 DEF RecvAuth, SeatKept, tableVars, poolVars
<1>10. ASSUME NEW c \in Conns, Register(c) PROVE SeatKept'
  <2>1. user[c] = EmptyNick /\ nickname[c] \in Nicks
    BY <1>10 DEF Register, SessionState
  <2>2. /\ conns' = [conns EXCEPT ![nickname[c]] = c]
        /\ user' = [user EXCEPT ![c] = nickname[c]]
        /\ active' = active
    BY <1>10 DEF Register, poolVars
  <2>3. conns'[user'[c]] = c /\ user'[c] = nickname[c]
    BY <2>1, <2>2 DEF TypeOK
  <2>4. ASSUME NEW e \in active, e # c, user[e] # EmptyNick
        PROVE  conns'[user[e]] = e \/ \E d \in Conns \ {e} : user'[d] = user[e]
    <3>1. CASE user[e] = nickname[c]
      BY <3>1, <2>3, <2>4
    <3>2. CASE user[e] # nickname[c]
      <4>1. conns'[user[e]] = conns[user[e]]
        BY <3>2, <2>2, <2>4 DEF TypeOK
      <4>2. ASSUME NEW d \in Conns \ {e}, user[d] = user[e] PROVE user'[d] = user[e]
        BY <4>2, <2>1, <2>2, <2>4 DEF TypeOK
      <4> QED
        BY <4>1, <4>2, <2>4 DEF SeatKept
    <3> QED
      BY <3>1, <3>2
  <2>5. \A e \in active : e # c => user'[e] = user[e]
    BY <2>2 DEF TypeOK
  <2> QED
    BY <2>2, <2>3, <2>4, <2>5 DEF SeatKept
<1>11. ASSUME NEW c \in Conns, Announce(c) PROVE SeatKept'
  BY <1>11 DEF Announce, SeatKept, tableVars, poolVars
<1>12. ASSUME NEW c \in Conns, Greet(c) PROVE SeatKept'
  BY <1>12 DEF Greet, SeatKept, tableVars, poolVars
<1>13. ASSUME NEW c \in Conns, RecvText(c) PROVE SeatKept'
  BY <1>13 DEF RecvText, Chat, SeatKept, tableVars, poolVars
<1>14. ASSUME NEW c \in Conns, RecvPing(c) PROVE SeatKept'
  BY <1>14 DEF RecvPing, Chat, SeatKept, tableVars, poolVars
<1>15. ASSUME NEW c \in Conns, RecvBye(c) PROVE SeatKept'
  BY <1>15 DEF RecvBye, Chat, SeatKept, tableVars, poolVars
<1>16. ASSUME NEW c \in Conns, Left(c) PROVE SeatKept'
  BY <1>16 DEF Left, SeatKept, tableVars, poolVars
<1>17. ASSUME NEW c \in Conns, RecvPrivate(c) PROVE SeatKept'
  BY <1>17 DEF RecvPrivate, Chat, SeatKept, tableVars, poolVars
<1>18. ASSUME NEW c \in Conns, Lookup(c) PROVE SeatKept'
  BY <1>18 DEF Lookup, SeatKept, tableVars, poolVars
<1>19. ASSUME NEW c \in Conns, RecvGarbled(c) PROVE SeatKept'
  BY <1>19 DEF RecvGarbled, Chat, SeatKept, tableVars, poolVars
<1>20. ASSUME NEW c \in Conns, RecvOther(c) PROVE SeatKept'
  BY <1>20 DEF RecvOther, Chat, SeatKept, tableVars, poolVars
<1>21. ASSUME NEW c \in Conns, Send(c) PROVE SeatKept'
  BY <1>21 DEF Send, SeatKept, tableVars, poolVars
<1>22. ASSUME NEW c \in Conns, Cleanup(c) PROVE SeatKept'
  <2>1. conns' = Erased(c) /\ user' = user /\ active' = active \ {c}
    BY <1>22 DEF Cleanup, Pool!Finish
  <2>2. ASSUME NEW e \in active, e # c, user[e] # EmptyNick
        PROVE  conns'[user[e]] = e \/ \E d \in Conns \ {e} : user[d] = user[e]
    <3>1. CASE user[c] = user[e]
      BY <3>1, <2>2
    <3>2. CASE user[c] # user[e]
      BY <3>2, <2>1, <2>2 DEF Erased, SeatKept, TypeOK
    <3> QED
      BY <3>1, <3>2
  <2> QED
    BY <2>1, <2>2 DEF SeatKept
<1>23. ASSUME NEW c \in Conns, Dispatch(c) PROVE SeatKept'
  <2>1. active' = active \cup {c} /\ UNCHANGED tableVars
    BY <1>23 DEF Dispatch, Pool!Start
  <2>2. user[c] = EmptyNick
    BY <1>23 DEF Dispatch, Pool!Start, Pool!Queued, SessionState, TypeOK
  <2> QED
    BY <2>1, <2>2 DEF SeatKept, tableVars
<1> QED
  <2>1. \A n \in Nicks : n \in Names
    BY DEF Names
  <2>2. EmptyNick \in Names
    BY DEF Names
  <2> QED
    BY <2>1, <2>2, <1>1, <1>2, <1>3, <1>4, <1>5, <1>6, <1>7, <1>8, <1>9, <1>10, <1>11, <1>12, <1>13, <1>14, <1>15, <1>16, <1>17, <1>18, <1>19, <1>20, <1>21, <1>22, <1>23
       DEF Next, Client, Session, Serve

LEMMA BoundStep ==
    ASSUME TypeOK, ActiveBounded, [Next]_vars
    PROVE  ActiveBounded'
<1>1. CASE UNCHANGED vars
  BY <1>1 DEF vars, tableVars, poolVars, netVars, clientVars, ActiveBounded
<1>2. ASSUME NEW c \in Conns, Connect(c) PROVE ActiveBounded'
  BY <1>2 DEF Connect, Pool!Submit, ActiveBounded
<1>3. ASSUME NEW c \in Conns, NEW n \in Names, EnterNick(c, n) PROVE ActiveBounded'
  BY <1>3 DEF EnterNick, ActiveBounded, poolVars
<1>4. ASSUME NEW c \in Conns, EnterRoom(c) PROVE ActiveBounded'
  BY <1>4 DEF EnterRoom, ActiveBounded, poolVars
<1>5. ASSUME NEW c \in Conns, NEW kind \in Kinds[c], NEW n \in Names, Say(c, kind, n) PROVE ActiveBounded'
  BY <1>5 DEF Say, ActiveBounded, poolVars
<1>6. ASSUME NEW c \in Conns, CloseSocket(c) PROVE ActiveBounded'
  BY <1>6 DEF CloseSocket, ActiveBounded, poolVars
<1>7. ASSUME NEW c \in Conns, NEW fault \in Faults, Vanish(c, fault) PROVE ActiveBounded'
  BY <1>7 DEF Vanish, ActiveBounded, poolVars
<1>8. ASSUME NEW c \in Conns, RecvHello(c) PROVE ActiveBounded'
  BY <1>8 DEF RecvHello, ActiveBounded, poolVars
<1>9. ASSUME NEW c \in Conns, RecvAuth(c) PROVE ActiveBounded'
  BY <1>9 DEF RecvAuth, ActiveBounded, poolVars
<1>10. ASSUME NEW c \in Conns, Register(c) PROVE ActiveBounded'
  BY <1>10 DEF Register, ActiveBounded, poolVars
<1>11. ASSUME NEW c \in Conns, Announce(c) PROVE ActiveBounded'
  BY <1>11 DEF Announce, ActiveBounded, poolVars
<1>12. ASSUME NEW c \in Conns, Greet(c) PROVE ActiveBounded'
  BY <1>12 DEF Greet, ActiveBounded, poolVars
<1>13. ASSUME NEW c \in Conns, RecvText(c) PROVE ActiveBounded'
  BY <1>13 DEF RecvText, Chat, ActiveBounded, poolVars
<1>14. ASSUME NEW c \in Conns, RecvPing(c) PROVE ActiveBounded'
  BY <1>14 DEF RecvPing, Chat, ActiveBounded, poolVars
<1>15. ASSUME NEW c \in Conns, RecvBye(c) PROVE ActiveBounded'
  BY <1>15 DEF RecvBye, Chat, ActiveBounded, poolVars
<1>16. ASSUME NEW c \in Conns, Left(c) PROVE ActiveBounded'
  BY <1>16 DEF Left, ActiveBounded, poolVars
<1>17. ASSUME NEW c \in Conns, RecvPrivate(c) PROVE ActiveBounded'
  BY <1>17 DEF RecvPrivate, Chat, ActiveBounded, poolVars
<1>18. ASSUME NEW c \in Conns, Lookup(c) PROVE ActiveBounded'
  BY <1>18 DEF Lookup, ActiveBounded, poolVars
<1>19. ASSUME NEW c \in Conns, RecvGarbled(c) PROVE ActiveBounded'
  BY <1>19 DEF RecvGarbled, Chat, ActiveBounded, poolVars
<1>20. ASSUME NEW c \in Conns, RecvOther(c) PROVE ActiveBounded'
  BY <1>20 DEF RecvOther, Chat, ActiveBounded, poolVars
<1>21. ASSUME NEW c \in Conns, Send(c) PROVE ActiveBounded'
  BY <1>21 DEF Send, ActiveBounded, poolVars
<1>22. ASSUME NEW c \in Conns, Cleanup(c) PROVE ActiveBounded'
  <2>1. active' = active \ {c}
    BY <1>22 DEF Cleanup, Pool!Finish
  <2>2. IsFiniteSet(active') /\ Cardinality(active') <= Cardinality(active)
    BY <2>1, FS_Subset DEF ActiveBounded
  <2>3. Cardinality(active) \in Nat /\ Cardinality(active') \in Nat
    BY <2>2, FS_CardinalityType DEF ActiveBounded
  <2> QED
    BY <2>2, <2>3, ChatAssumption DEF ActiveBounded
<1>23. ASSUME NEW c \in Conns, Dispatch(c) PROVE ActiveBounded'
  <2>1. active' = active \cup {c} /\ Cardinality(active) < MaxConnections + 1
    BY <1>23, SameCardinality DEF Dispatch, Pool!Start
  <2>2. /\ IsFiniteSet(active')
        /\ Cardinality(active') \in {Cardinality(active), Cardinality(active) + 1}
    BY <2>1, FS_AddElement DEF ActiveBounded
  <2>3. Cardinality(active) \in Nat
    BY FS_CardinalityType DEF ActiveBounded
  <2> QED
    BY <2>1, <2>2, <2>3, ChatAssumption DEF ActiveBounded
<1> QED
  <2>1. \A n \in Nicks : n \in Names
    BY DEF Names
  <2>2. EmptyNick \in Names
    BY DEF Names
  <2> QED
    BY <2>1, <2>2, <1>1, <1>2, <1>3, <1>4, <1>5, <1>6, <1>7, <1>8, <1>9, <1>10, <1>11, <1>12, <1>13, <1>14, <1>15, <1>16, <1>17, <1>18, <1>19, <1>20, <1>21, <1>22, <1>23
       DEF Next, Client, Session, Serve

-----------------------------------------------------------------------------
(* Who hears what. *)

\* A session takes its user name once.
UserKept == \A r \in Conns : user[r] # EmptyNick => user'[r] = user[r]

LEMMA UserStep ==
    ASSUME TypeOK, SessionState, [Next]_vars
    PROVE  UserKept
<1>1. CASE UNCHANGED vars
  BY <1>1 DEF vars, tableVars, poolVars, netVars, clientVars, UserKept
<1>2. ASSUME NEW c \in Conns, Connect(c) PROVE UserKept
  BY <1>2 DEF Connect, UserKept, tableVars
<1>3. ASSUME NEW c \in Conns, NEW n \in Names, EnterNick(c, n) PROVE UserKept
  BY <1>3 DEF EnterNick, UserKept, tableVars
<1>4. ASSUME NEW c \in Conns, EnterRoom(c) PROVE UserKept
  BY <1>4 DEF EnterRoom, UserKept, tableVars
<1>5. ASSUME NEW c \in Conns, NEW kind \in Kinds[c], NEW n \in Names, Say(c, kind, n) PROVE UserKept
  BY <1>5 DEF Say, UserKept, tableVars
<1>6. ASSUME NEW c \in Conns, CloseSocket(c) PROVE UserKept
  BY <1>6 DEF CloseSocket, UserKept, tableVars
<1>7. ASSUME NEW c \in Conns, NEW fault \in Faults, Vanish(c, fault) PROVE UserKept
  BY <1>7 DEF Vanish, UserKept, tableVars
<1>8. ASSUME NEW c \in Conns, RecvHello(c) PROVE UserKept
  BY <1>8 DEF RecvHello, UserKept, tableVars
<1>9. ASSUME NEW c \in Conns, RecvAuth(c) PROVE UserKept
  BY <1>9 DEF RecvAuth, UserKept, tableVars
<1>10. ASSUME NEW c \in Conns, Register(c) PROVE UserKept
  BY <1>10 DEF Register, SessionState, UserKept, TypeOK
<1>11. ASSUME NEW c \in Conns, Announce(c) PROVE UserKept
  BY <1>11 DEF Announce, UserKept, tableVars
<1>12. ASSUME NEW c \in Conns, Greet(c) PROVE UserKept
  BY <1>12 DEF Greet, UserKept, tableVars
<1>13. ASSUME NEW c \in Conns, RecvText(c) PROVE UserKept
  BY <1>13 DEF RecvText, Chat, UserKept, tableVars
<1>14. ASSUME NEW c \in Conns, RecvPing(c) PROVE UserKept
  BY <1>14 DEF RecvPing, Chat, UserKept, tableVars
<1>15. ASSUME NEW c \in Conns, RecvBye(c) PROVE UserKept
  BY <1>15 DEF RecvBye, Chat, UserKept, tableVars
<1>16. ASSUME NEW c \in Conns, Left(c) PROVE UserKept
  BY <1>16 DEF Left, UserKept, tableVars
<1>17. ASSUME NEW c \in Conns, RecvPrivate(c) PROVE UserKept
  BY <1>17 DEF RecvPrivate, Chat, UserKept, tableVars
<1>18. ASSUME NEW c \in Conns, Lookup(c) PROVE UserKept
  BY <1>18 DEF Lookup, UserKept, tableVars
<1>19. ASSUME NEW c \in Conns, RecvGarbled(c) PROVE UserKept
  BY <1>19 DEF RecvGarbled, Chat, UserKept, tableVars
<1>20. ASSUME NEW c \in Conns, RecvOther(c) PROVE UserKept
  BY <1>20 DEF RecvOther, Chat, UserKept, tableVars
<1>21. ASSUME NEW c \in Conns, Send(c) PROVE UserKept
  BY <1>21 DEF Send, UserKept, tableVars
<1>22. ASSUME NEW c \in Conns, Cleanup(c) PROVE UserKept
  BY <1>22 DEF Cleanup, UserKept, tableVars
<1>23. ASSUME NEW c \in Conns, Dispatch(c) PROVE UserKept
  BY <1>23 DEF Dispatch, UserKept, tableVars
<1> QED
  <2>1. \A n \in Nicks : n \in Names
    BY DEF Names
  <2>2. EmptyNick \in Names
    BY DEF Names
  <2> QED
    BY <2>1, <2>2, <1>1, <1>2, <1>3, <1>4, <1>5, <1>6, <1>7, <1>8, <1>9, <1>10, <1>11, <1>12, <1>13, <1>14, <1>15, <1>16, <1>17, <1>18, <1>19, <1>20, <1>21, <1>22, <1>23
       DEF Next, Client, Session, Serve

\* Of a broadcast, the users in the table but the sender.
LEMMA OthersMayHear ==
    ASSUME TypeOK, NoStaleEntry, NEW c \in Conns, NEW kind \in {"TEXT", "HI", "LEFT"}, NEW n
    PROVE  \A r \in Others(c) : MayHear(r, Reply(kind, c, EmptyNick, n))
<1>1. ASSUME NEW r \in Others(c) PROVE r # c /\ user[r] # EmptyNick
  BY <1>1, ChatAssumption DEF Others, NoStaleEntry, Registered
<1> QED
  BY <1>1 DEF MayHear, Reply

LEMMA SelfMayHear ==
    ASSUME NEW c \in Conns, NEW kind \in {"WELCOME", "ERROR", "PONG", "BYE"}, NEW n
    PROVE  MayHear(c, Reply(kind, c, EmptyNick, n))
BY DEF MayHear, Reply

LEMMA MayHearKept ==
    ASSUME UserKept, NEW r \in Conns, NEW m, MayHear(r, m)
    PROVE  MayHear(r, m)'
BY ChatAssumption DEF UserKept, MayHear

\* A step that gives no session anything new to send.
LEMMA KeepJobs ==
    ASSUME TypeOK, JobAudience, UserKept,
           \A d \in Conns : pc'[d] \in {"send", "lookup"} => pc'[d] = pc[d] /\ job'[d] = job[d]
    PROVE  JobAudience'
<1>1. ASSUME NEW d \in Conns, pc'[d] = "send", NEW r \in job'[d].to
      PROVE  MayHear(r, job[d].msg)'
  <2>1. pc[d] = "send" /\ job'[d] = job[d] /\ r \in Conns
    BY <1>1 DEF TypeOK
  <2>2. MayHear(r, job[d].msg)
    BY <1>1, <2>1 DEF JobAudience
  <2> QED
    BY <2>1, <2>2, ChatAssumption DEF MayHear, UserKept
<1> QED
  BY <1>1 DEF JobAudience

\* A step in which a session begins to send what its recipients may hear.
LEMMA NewJob ==
    ASSUME TypeOK, JobAudience, UserKept,
           NEW c \in Conns, NEW m, NEW to, NEW next,
           StartSending(c, m, to, next),
           next \notin {"send", "lookup"},
           \A r \in to : r \in Conns /\ MayHear(r, m)
    PROVE  JobAudience'
<1>1. /\ job'[c] = [msg |-> m, to |-> to, then |-> next]
      /\ pc'[c] # "lookup"
      /\ \A d \in Conns \ {c} : pc'[d] = pc[d] /\ job'[d] = job[d]
  BY DEF StartSending, Goto, TypeOK
<1>2. job'[c].msg = m /\ job'[c].to = to
  BY <1>1
<1>3. ASSUME NEW d \in Conns, pc'[d] = "send", NEW r \in job'[d].to
      PROVE  MayHear(r, job[d].msg)'
  <2>1. r \in Conns /\ MayHear(r, job'[d].msg)
    <3>1. CASE d = c
      BY <1>2, <1>3, <3>1
    <3>2. CASE d # c
      BY <1>1, <1>3, <3>2 DEF JobAudience, TypeOK
    <3> QED
      BY <3>1, <3>2
  <2> QED
    BY <2>1, ChatAssumption DEF MayHear, UserKept
<1> QED
  BY <1>1, <1>3 DEF JobAudience

LEMMA KeepOutbox ==
    ASSUME TypeOK, Audience, UserKept, outbox' = outbox
    PROVE  Audience'
BY ChatAssumption DEF Audience, MayHear, UserKept

LEMMA JobStep ==
    ASSUME TypeOK, SessionState, NoStaleEntry, JobAudience, UserKept, [Next]_vars
    PROVE  JobAudience'
<1>1. CASE UNCHANGED vars
  BY <1>1 DEF vars, tableVars, poolVars, netVars, clientVars, JobAudience, MayHear
<1>2. ASSUME NEW c \in Conns, Connect(c) PROVE JobAudience'
  <2>1. \A d \in Conns : pc'[d] \in {"send", "lookup"} => pc'[d] = pc[d] /\ job'[d] = job[d]
    BY <1>2 DEF Connect, Goto, TypeOK
  <2> QED
    BY <2>1, KeepJobs
<1>3. ASSUME NEW c \in Conns, NEW n \in Names, EnterNick(c, n) PROVE JobAudience'
  <2>1. \A d \in Conns : pc'[d] \in {"send", "lookup"} => pc'[d] = pc[d] /\ job'[d] = job[d]
    BY <1>3 DEF EnterNick, Goto, TypeOK
  <2> QED
    BY <2>1, KeepJobs
<1>4. ASSUME NEW c \in Conns, EnterRoom(c) PROVE JobAudience'
  <2>1. \A d \in Conns : pc'[d] \in {"send", "lookup"} => pc'[d] = pc[d] /\ job'[d] = job[d]
    BY <1>4 DEF EnterRoom, Goto, TypeOK
  <2> QED
    BY <2>1, KeepJobs
<1>5. ASSUME NEW c \in Conns, NEW kind \in Kinds[c], NEW n \in Names, Say(c, kind, n) PROVE JobAudience'
  <2>1. \A d \in Conns : pc'[d] \in {"send", "lookup"} => pc'[d] = pc[d] /\ job'[d] = job[d]
    BY <1>5 DEF Say, Goto, TypeOK
  <2> QED
    BY <2>1, KeepJobs
<1>6. ASSUME NEW c \in Conns, CloseSocket(c) PROVE JobAudience'
  <2>1. \A d \in Conns : pc'[d] \in {"send", "lookup"} => pc'[d] = pc[d] /\ job'[d] = job[d]
    BY <1>6 DEF CloseSocket, Goto, TypeOK
  <2> QED
    BY <2>1, KeepJobs
<1>7. ASSUME NEW c \in Conns, NEW fault \in Faults, Vanish(c, fault) PROVE JobAudience'
  <2>1. \A d \in Conns : pc'[d] \in {"send", "lookup"} => pc'[d] = pc[d] /\ job'[d] = job[d]
    BY <1>7 DEF Vanish, Goto, TypeOK
  <2> QED
    BY <2>1, KeepJobs
<1>8. ASSUME NEW c \in Conns, RecvHello(c) PROVE JobAudience'
  <2>1. \/ StartSending(c, Plain("WELCOME", c), {c}, "auth")
        \/ StartSending(c, Plain("ERROR", c), {c}, "cleanup")
    BY <1>8 DEF RecvHello
  <2>2. MayHear(c, Plain("WELCOME", c)) /\ MayHear(c, Plain("ERROR", c))
    BY SelfMayHear DEF Plain
  <2>3. CASE StartSending(c, Plain("WELCOME", c), {c}, "auth")
    BY <2>2, <2>3, NewJob
  <2>4. CASE StartSending(c, Plain("ERROR", c), {c}, "cleanup")
    BY <2>2, <2>4, NewJob
  <2> QED
    BY <2>1, <2>3, <2>4
<1>9. ASSUME NEW c \in Conns, RecvAuth(c) PROVE JobAudience'
  <2>1. \/ StartSending(c, Plain("ERROR", c), {c}, "cleanup")
        \/ Goto(c, "register") /\ UNCHANGED job
    BY <1>9 DEF RecvAuth
  <2>2. CASE StartSending(c, Plain("ERROR", c), {c}, "cleanup")
    <3>1. MayHear(c, Plain("ERROR", c))
      BY SelfMayHear DEF Plain
    <3> QED
      BY <2>2, <3>1, NewJob
  <2>3. CASE Goto(c, "register") /\ UNCHANGED job
    <3>1. \A d \in Conns : pc'[d] \in {"send", "lookup"} => pc'[d] = pc[d] /\ job'[d] = job[d]
      BY <2>3 DEF Goto, TypeOK
    <3> QED
      BY <3>1, KeepJobs
  <2> QED
    BY <2>1, <2>2, <2>3
<1>10. ASSUME NEW c \in Conns, Register(c) PROVE JobAudience'
  <2>1. \A d \in Conns : pc'[d] \in {"send", "lookup"} => pc'[d] = pc[d] /\ job'[d] = job[d]
    BY <1>10 DEF Register, Goto, TypeOK
  <2> QED
    BY <2>1, KeepJobs
<1>11. ASSUME NEW c \in Conns, Announce(c) PROVE JobAudience'
  <2>1. StartSending(c, Plain("HI", c), Others(c), "greet")
    BY <1>11 DEF Announce
  <2>2. \A r \in Others(c) : r \in Conns /\ MayHear(r, Plain("HI", c))
    BY OthersMayHear, OthersType DEF Plain
  <2> QED
    BY <2>1, <2>2, NewJob
<1>12. ASSUME NEW c \in Conns, Greet(c) PROVE JobAudience'
  <2>1. StartSending(c, Plain("WELCOME", c), {c}, "chat")
    BY <1>12 DEF Greet
  <2>2. \A r \in {c} : r \in Conns /\ MayHear(r, Plain("WELCOME", c))
    BY SelfMayHear DEF Plain
  <2> QED
    BY <2>1, <2>2, NewJob
<1>13. ASSUME NEW c \in Conns, RecvText(c) PROVE JobAudience'
  <2>1. PICK m \in Incoming(c) : StartSending(c, Reply("TEXT", c, EmptyNick, m.n), Others(c), "chat")
    BY <1>13 DEF RecvText
  <2>2. \A r \in Others(c) : r \in Conns /\ MayHear(r, Reply("TEXT", c, EmptyNick, m.n))
    BY OthersMayHear, OthersType DEF Plain
  <2> QED
    BY <2>1, <2>2, NewJob
<1>14. ASSUME NEW c \in Conns, RecvPing(c) PROVE JobAudience'
  <2>1. PICK m \in Incoming(c) : StartSending(c, Reply("PONG", c, EmptyNick, m.n), {c}, "chat")
    BY <1>14 DEF RecvPing
  <2>2. \A r \in {c} : r \in Conns /\ MayHear(r, Reply("PONG", c, EmptyNick, m.n))
    BY SelfMayHear DEF Plain
  <2> QED
    BY <2>1, <2>2, NewJob
<1>15. ASSUME NEW c \in Conns, RecvBye(c) PROVE JobAudience'
  <2>1. PICK m \in Incoming(c) : StartSending(c, Plain("BYE", c), {c}, "left")
    BY <1>15 DEF RecvBye
  <2>2. \A r \in {c} : r \in Conns /\ MayHear(r, Plain("BYE", c))
    BY SelfMayHear DEF Plain
  <2> QED
    BY <2>1, <2>2, NewJob
<1>16. ASSUME NEW c \in Conns, Left(c) PROVE JobAudience'
  <2>1. StartSending(c, Plain("LEFT", c), Others(c), "cleanup")
    BY <1>16 DEF Left
  <2>2. \A r \in Others(c) : r \in Conns /\ MayHear(r, Plain("LEFT", c))
    BY OthersMayHear, OthersType DEF Plain
  <2> QED
    BY <2>1, <2>2, NewJob
<1>17. ASSUME NEW c \in Conns, RecvPrivate(c) PROVE JobAudience'
  <2>1. PICK m \in Incoming(c) :
          \/ /\ job' = [job EXCEPT ![c].msg = Reply("PRIVATE", c, m.nick, m.n)]
             /\ Goto(c, "lookup")
          \/ StartSending(c, Plain("ERROR", c), {c}, "chat")
    BY <1>17 DEF RecvPrivate
  <2>2. CASE /\ job' = [job EXCEPT ![c].msg = Reply("PRIVATE", c, m.nick, m.n)]
             /\ Goto(c, "lookup")
    <3>1. pc'[c] = "lookup" /\ \A d \in Conns \ {c} : pc'[d] = pc[d] /\ job'[d] = job[d]
      BY <2>2 DEF Goto, TypeOK
    <3>2. job'[c].msg.kind = "PRIVATE"
      BY <2>2 DEF Reply, TypeOK
    <3>3. ASSUME NEW d \in Conns, pc'[d] = "send", NEW r \in job'[d].to
          PROVE  MayHear(r, job[d].msg)'
      <4>1. d # c /\ pc[d] = "send" /\ job'[d] = job[d] /\ r \in Conns
        BY <3>1, <3>3 DEF TypeOK
      <4>2. MayHear(r, job[d].msg)
        BY <3>3, <4>1 DEF JobAudience
      <4> QED
        BY <4>1, <4>2, ChatAssumption DEF MayHear, UserKept
    <3> QED
      BY <3>1, <3>2, <3>3 DEF JobAudience
  <2>3. CASE StartSending(c, Plain("ERROR", c), {c}, "chat")
    <3>1. MayHear(c, Plain("ERROR", c))
      BY SelfMayHear DEF Plain
    <3> QED
      BY <2>3, <3>1, NewJob
  <2> QED
    BY <2>1, <2>2, <2>3
<1>18. ASSUME NEW c \in Conns, Lookup(c) PROVE JobAudience'
  <2> DEFINE to == job[c].msg.nick
  <2>1. job[c].msg.kind = "PRIVATE"
    BY <1>18 DEF Lookup, JobAudience
  <2>2. CASE to \in Registered
    <3>1. conns[to] \in Conns /\ user[conns[to]] = to /\ to \in Nicks
      BY <2>2 DEF NoStaleEntry, Registered, TypeOK
    <3>2. MayHear(conns[to], job[c].msg)
      BY <2>1, <3>1 DEF MayHear
    <3>3. StartSending(c, job[c].msg, {conns[to]}, "chat")
      BY <1>18, <2>2 DEF Lookup
    <3> QED
      BY <3>1, <3>2, <3>3, NewJob
  <2>3. CASE to \notin Registered
    <3>1. Goto(c, "cleanup") /\ UNCHANGED job
      BY <1>18, <2>3 DEF Lookup
    <3>2. \A d \in Conns : pc'[d] \in {"send", "lookup"} => pc'[d] = pc[d] /\ job'[d] = job[d]
      BY <3>1 DEF Goto, TypeOK
    <3> QED
      BY <3>2, KeepJobs
  <2> QED
    BY <2>2, <2>3
<1>19. ASSUME NEW c \in Conns, RecvGarbled(c) PROVE JobAudience'
  <2>1. \A d \in Conns : pc'[d] \in {"send", "lookup"} => pc'[d] = pc[d] /\ job'[d] = job[d]
    BY <1>19 DEF RecvGarbled, Chat, Goto, TypeOK
  <2> QED
    BY <2>1, KeepJobs
<1>20. ASSUME NEW c \in Conns, RecvOther(c) PROVE JobAudience'
  <2>1. \A d \in Conns : pc'[d] \in {"send", "lookup"} => pc'[d] = pc[d] /\ job'[d] = job[d]
    BY <1>20 DEF RecvOther, Chat, Goto, TypeOK
  <2> QED
    BY <2>1, KeepJobs
<1>21. ASSUME NEW c \in Conns, Send(c) PROVE JobAudience'
  <2>1. PICK s \in job[c].to : StartSending(c, job[c].msg, Remaining(c, s), job[c].then)
    BY <1>21 DEF Send
  <2>2. \A r \in Remaining(c, s) : r \in Conns /\ MayHear(r, job[c].msg)
    BY <1>21 DEF Send, JobAudience, Remaining, TypeOK
  <2>3. job[c].then \notin {"send", "lookup"}
    BY <1>21 DEF Send, SessionState
  <2> QED
    BY <2>1, <2>2, <2>3, NewJob
<1>22. ASSUME NEW c \in Conns, Cleanup(c) PROVE JobAudience'
  <2>1. \A d \in Conns : pc'[d] \in {"send", "lookup"} => pc'[d] = pc[d] /\ job'[d] = job[d]
    BY <1>22 DEF Cleanup, Goto, TypeOK
  <2> QED
    BY <2>1, KeepJobs
<1>23. ASSUME NEW c \in Conns, Dispatch(c) PROVE JobAudience'
  <2>1. \A d \in Conns : pc'[d] \in {"send", "lookup"} => pc'[d] = pc[d] /\ job'[d] = job[d]
    BY <1>23 DEF Dispatch, Goto, TypeOK
  <2> QED
    BY <2>1, KeepJobs
<1> QED
  <2>1. \A n \in Nicks : n \in Names
    BY DEF Names
  <2>2. EmptyNick \in Names
    BY DEF Names
  <2> QED
    BY <2>1, <2>2, <1>1, <1>2, <1>3, <1>4, <1>5, <1>6, <1>7, <1>8, <1>9, <1>10, <1>11, <1>12, <1>13, <1>14, <1>15, <1>16, <1>17, <1>18, <1>19, <1>20, <1>21, <1>22, <1>23
       DEF Next, Client, Session, Serve

LEMMA AudienceStep ==
    ASSUME TypeOK, JobAudience, Audience, UserKept, [Next]_vars
    PROVE  Audience'
<1>1. CASE UNCHANGED vars
  BY <1>1 DEF vars, tableVars, poolVars, netVars, clientVars, Audience, MayHear
<1>2. ASSUME NEW c \in Conns, Connect(c) PROVE Audience'
  <2>1. outbox' = outbox
    BY <1>2 DEF Connect, netVars
  <2> QED
    BY <2>1, KeepOutbox
<1>3. ASSUME NEW c \in Conns, NEW n \in Names, EnterNick(c, n) PROVE Audience'
  <2>1. outbox' = outbox
    BY <1>3 DEF EnterNick, netVars
  <2> QED
    BY <2>1, KeepOutbox
<1>4. ASSUME NEW c \in Conns, EnterRoom(c) PROVE Audience'
  <2>1. outbox' = outbox
    BY <1>4 DEF EnterRoom, netVars
  <2> QED
    BY <2>1, KeepOutbox
<1>5. ASSUME NEW c \in Conns, NEW kind \in Kinds[c], NEW n \in Names, Say(c, kind, n) PROVE Audience'
  <2>1. outbox' = outbox
    BY <1>5 DEF Say, netVars
  <2> QED
    BY <2>1, KeepOutbox
<1>6. ASSUME NEW c \in Conns, CloseSocket(c) PROVE Audience'
  <2>1. outbox' = outbox
    BY <1>6 DEF CloseSocket, netVars
  <2> QED
    BY <2>1, KeepOutbox
<1>7. ASSUME NEW c \in Conns, NEW fault \in Faults, Vanish(c, fault) PROVE Audience'
  <2>1. outbox' = outbox
    BY <1>7 DEF Vanish, netVars
  <2> QED
    BY <2>1, KeepOutbox
<1>8. ASSUME NEW c \in Conns, RecvHello(c) PROVE Audience'
  <2>1. outbox' = outbox
    BY <1>8 DEF RecvHello, Receive, netVars
  <2> QED
    BY <2>1, KeepOutbox
<1>9. ASSUME NEW c \in Conns, RecvAuth(c) PROVE Audience'
  <2>1. outbox' = outbox
    BY <1>9 DEF RecvAuth, Receive, netVars
  <2> QED
    BY <2>1, KeepOutbox
<1>10. ASSUME NEW c \in Conns, Register(c) PROVE Audience'
  <2>1. outbox' = outbox
    BY <1>10 DEF Register, netVars
  <2> QED
    BY <2>1, KeepOutbox
<1>11. ASSUME NEW c \in Conns, Announce(c) PROVE Audience'
  <2>1. outbox' = outbox
    BY <1>11 DEF Announce, netVars
  <2> QED
    BY <2>1, KeepOutbox
<1>12. ASSUME NEW c \in Conns, Greet(c) PROVE Audience'
  <2>1. outbox' = outbox
    BY <1>12 DEF Greet, netVars
  <2> QED
    BY <2>1, KeepOutbox
<1>13. ASSUME NEW c \in Conns, RecvText(c) PROVE Audience'
  <2>1. outbox' = outbox
    BY <1>13 DEF RecvText, Chat, Receive, netVars
  <2> QED
    BY <2>1, KeepOutbox
<1>14. ASSUME NEW c \in Conns, RecvPing(c) PROVE Audience'
  <2>1. outbox' = outbox
    BY <1>14 DEF RecvPing, Chat, Receive, netVars
  <2> QED
    BY <2>1, KeepOutbox
<1>15. ASSUME NEW c \in Conns, RecvBye(c) PROVE Audience'
  <2>1. outbox' = outbox
    BY <1>15 DEF RecvBye, Chat, Receive, netVars
  <2> QED
    BY <2>1, KeepOutbox
<1>16. ASSUME NEW c \in Conns, Left(c) PROVE Audience'
  <2>1. outbox' = outbox
    BY <1>16 DEF Left, netVars
  <2> QED
    BY <2>1, KeepOutbox
<1>17. ASSUME NEW c \in Conns, RecvPrivate(c) PROVE Audience'
  <2>1. outbox' = outbox
    BY <1>17 DEF RecvPrivate, Chat, Receive, netVars
  <2> QED
    BY <2>1, KeepOutbox
<1>18. ASSUME NEW c \in Conns, Lookup(c) PROVE Audience'
  <2>1. outbox' = outbox
    BY <1>18 DEF Lookup, netVars
  <2> QED
    BY <2>1, KeepOutbox
<1>19. ASSUME NEW c \in Conns, RecvGarbled(c) PROVE Audience'
  <2>1. outbox' = outbox
    BY <1>19 DEF RecvGarbled, Chat, Receive, netVars
  <2> QED
    BY <2>1, KeepOutbox
<1>20. ASSUME NEW c \in Conns, RecvOther(c) PROVE Audience'
  <2>1. outbox' = outbox
    BY <1>20 DEF RecvOther, Chat, Receive, netVars
  <2> QED
    BY <2>1, KeepOutbox
<1>21. ASSUME NEW c \in Conns, Send(c) PROVE Audience'
  <2>1. PICK s \in job[c].to : Deliver(s, job[c].msg)
    BY <1>21 DEF Send
  <2>2. s \in Conns /\ MayHear(s, job[c].msg)
    BY <1>21 DEF Send, JobAudience, TypeOK
  <2>3. CASE outbox' = outbox
    BY <2>3, KeepOutbox
  <2>4. CASE outbox' = [outbox EXCEPT ![s] = Append(outbox[s], job[c].msg)]
    <3>1. /\ outbox'[s] = Append(outbox[s], job[c].msg)
          /\ \A r \in Conns \ {s} : outbox'[r] = outbox[r]
          /\ outbox[s] \in Seq(Replies)
      BY <2>2, <2>4 DEF TypeOK
    <3>2. /\ Len(outbox'[s]) = Len(outbox[s]) + 1
          /\ Len(outbox[s]) \in Nat
          /\ \A i \in 1..Len(outbox[s]) : outbox'[s][i] = outbox[s][i]
          /\ outbox'[s][Len(outbox[s]) + 1] = job[c].msg
      BY <3>1
    <3>3. ASSUME NEW r \in Conns, NEW i \in 1..Len(outbox'[r])
          PROVE  MayHear(r, outbox[r][i])'
      <4>0. SUFFICES MayHear(r, outbox'[r][i])
        BY ChatAssumption DEF MayHear, UserKept
      <4>1. CASE r # s
        BY <3>1, <3>3, <4>1 DEF Audience
      <4>2. CASE r = s /\ i \in 1..Len(outbox[s])
        BY <2>2, <3>2, <4>2 DEF Audience
      <4>3. CASE r = s /\ i = Len(outbox[s]) + 1
        BY <2>2, <3>2, <4>3
      <4> QED
        BY <3>2, <3>3, <4>1, <4>2, <4>3
    <3> QED
      BY <3>3 DEF Audience
  <2> QED
    BY <2>1, <2>3, <2>4 DEF Deliver
<1>22. ASSUME NEW c \in Conns, Cleanup(c) PROVE Audience'
  <2>1. outbox' = outbox
    BY <1>22 DEF Cleanup, netVars
  <2> QED
    BY <2>1, KeepOutbox
<1>23. ASSUME NEW c \in Conns, Dispatch(c) PROVE Audience'
  <2>1. outbox' = outbox
    BY <1>23 DEF Dispatch, netVars
  <2> QED
    BY <2>1, KeepOutbox
<1> QED
  <2>1. \A n \in Nicks : n \in Names
    BY DEF Names
  <2>2. EmptyNick \in Names
    BY DEF Names
  <2> QED
    BY <2>1, <2>2, <1>1, <1>2, <1>3, <1>4, <1>5, <1>6, <1>7, <1>8, <1>9, <1>10, <1>11, <1>12, <1>13, <1>14, <1>15, <1>16, <1>17, <1>18, <1>19, <1>20, <1>21, <1>22, <1>23
       DEF Next, Client, Session, Serve

-----------------------------------------------------------------------------
LEMMA Invariance == Spec => []IInv
<1>1. ASSUME IInv, [Next]_vars PROVE IInv'
  <2>1. UserKept
    BY <1>1, UserStep DEF IInv
  <2> QED
    BY <1>1, <2>1, TypeStep, SessionStep, EntryStep, SeatStep, BoundStep, JobStep,
       AudienceStep DEF IInv
<1> QED
  BY InitIInv, <1>1, PTL DEF Spec

\* Every variable keeps its type.
THEOREM TypeCorrect == Spec => []TypeOK
BY Invariance, PTL DEF IInv

\* A session's place, its name and the pool agree.
THEOREM SessionsAndPoolAgree == Spec => []SessionState
BY Invariance, PTL DEF IInv

\* The table names only sessions that are served, under their own name.
THEOREM TableIsLive == Spec => []NoStaleEntry
BY Invariance, PTL DEF IInv

\* A user of the room is in the table unless another one bore its name.
THEOREM SeatsAreKept == Spec => []SeatKept
BY Invariance, PTL DEF IInv

\* A session only sends what its recipients may hear.
THEOREM JobsAreProper == Spec => []JobAudience
BY Invariance, PTL DEF IInv

\* Clients only receive what they may hear.
THEOREM AudienceIsProper == Spec => []Audience
BY Invariance, PTL DEF IInv

\* Whatever the races of greeting and registration, the table holds at most
\* one user more than the room admits: its entries are of different sessions,
\* and each of those holds a thread of the pool.
THEOREM OverfullByOne == Spec => []CapacitySlack
<1>1. ASSUME IInv PROVE CapacitySlack
  <2> DEFINE f == [n \in Registered |-> conns[n]]
  <2>1. f \in [Registered -> active]
    BY <1>1 DEF IInv, NoStaleEntry
  <2>2. \A m, n \in Registered : f[m] = f[n] => m = n
    BY <1>1 DEF IInv, NoStaleEntry
  <2>3. f \in Injection(Registered, active)
    BY <2>1, <2>2 DEF Injection, IsInjective
  <2>4. IsFiniteSet(active) /\ Cardinality(active) <= MaxConnections + 1
    BY <1>1 DEF IInv, ActiveBounded
  <2>5. IsFiniteSet(Registered) /\ Cardinality(Registered) <= Cardinality(active)
    BY <2>3, <2>4, FS_Injection
  <2>6. Cardinality(Registered) \in Nat /\ Cardinality(active) \in Nat
    BY <2>4, <2>5, FS_CardinalityType
  <2> QED
    BY <2>4, <2>5, <2>6, ChatAssumption DEF CapacitySlack
<1> QED
  BY Invariance, <1>1, PTL
=============================================================================
