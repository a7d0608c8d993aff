-------------------------- MODULE PthreadRoomProofs --------------------------
(***************************************************************************)
(* The invariants of PthreadRoom's list and names, for any number of       *)
(* connections, threads, names and messages. A history with a race is      *)
(* excluded where the list itself is spoken of, and nowhere else.          *)
(***************************************************************************)
EXTENDS PthreadRoom, FiniteSetTheorems, SequenceTheorems, TLAPS

\* Where a session has not let its client in yet.
Greeting == {"hello", "refuse", "count", "used", "insert", "announce"}

\* Where it has, and is not in the list.
Inside == {"greet", "chat", "pong", "goodbye"}

\* A loop over the list is at a cell, unless that was freed.
Places ==
    \A w \in Workers :
        /\ pos[w] <= 1 \/ pos[w] <= Len(cells)
        /\ pc[w] \notin InList => pos[w] = 1
        /\ pc[w] = "erase" => pos[w] <= 1
        /\ dst[w] # 0 => pc[w] \in {"remove", "erase", "forget"}
        /\ pc[w] = "remove" /\ dst[w] # 0 /\ pos[w] # 0 => dst[w] < pos[w] /\ pos[w] <= Len(cells)
        /\ pc[w] = "erase" /\ dst[w] # 0 /\ pos[w] # 0 => dst[w] <= Len(cells)
        /\ pc[w] # "idle" => conn[w] # NULL

\* What is said to the others, and where the session goes on.
Jobs ==
    \A w \in Workers :
        <<job[w].kind, job[w].then>> \in {<<"HI", "greet">>, <<"TEXT", "chat">>, <<"LEFT", "remove">>}

\* Nothing is known of a connection before it is in the list.
Fresh(c) ==
    /\ c \notin auth \cup shut \cup Listed \cup Queued
    /\ \A w \in Workers : conn[w] # c
    /\ outbox[c] = <<>>

Newcomers ==
    /\ \A c \in Conns : phase[c] = "off" => Fresh(c) /\ c # client
    /\ main = "push" <=> client # NULL
    /\ client # NULL => Fresh(client)

\* Those whose session has found room.
Admitted == auth \cup {conn[w] : w \in {v \in Workers : pc[v] \in {"count", "insert", "announce"}}}

Bounded == Cardinality(Admitted \cap Listed) <= max_connections

\* The sessions whose connections are to be in the list.
Busy == {w \in Workers : pc[w] \notin {"idle", "forget"}}

\* Those that change the list: they have found their connection in it.
Changers == {w \in Workers : pc[w] \in {"remove", "erase"} /\ dst[w] # 0}

\* Each of them has one gap in the list.
Gaps == {dst[w] : w \in Changers}

Present == {cells[i] : i \in (1..Len(cells)) \ Gaps}

\* The pushed connection, until it is enqueued.
Pushed == IF main = "enqueue" THEN {Last} ELSE {}

\* Outside gaps, each cell holds another connection.
Cells ==
    /\ \A i \in (1..Len(cells)) \ Gaps : cells[i] # NULL
    /\ \A i, j \in (1..Len(cells)) \ Gaps : cells[i] = cells[j] => i = j

\* Each connection is in one place.
OnePlace ==
    /\ \A i \in 1..Len(queue) : queue[i] # NULL
    /\ \A i, j \in 1..Len(queue) : queue[i] = queue[j] => i = j
    /\ \A v, w \in Busy : conn[v] = conn[w] => v = w
    /\ \A w \in Busy : conn[w] \notin Queued
    /\ main = "enqueue" =>
        /\ cells # <<>> /\ Last # NULL
        /\ Last \notin Queued
        /\ \A w \in Busy : conn[w] # Last

\* The list holds those that wait or are served.
Members ==
    Present \cup {conn[w] : w \in Changers} = Queued \cup {conn[w] : w \in Busy} \cup Pushed

\* One session at most changes the list, and it stands right behind its gap.
\* It looks for its connection where it can be, and always finds it.
Removals ==
    /\ \A v, w \in Changers : v = w
    /\ \A w \in Changers : conn[w] \notin Present
    /\ \A w \in Workers :
        /\ pc[w] \in InList => pos[w] # 0
        /\ pc[w] = "remove" /\ dst[w] # 0 => pos[w] = dst[w] + 1
        /\ pc[w] = "remove" /\ dst[w] = 0 => \A i \in 1..Len(cells) : i < pos[w] => cells[i] # conn[w]
        /\ pc[w] = "erase" => dst[w] # 0 /\ dst[w] = Len(cells)

Orderly == Cells /\ OnePlace /\ Members /\ Removals

LInv == ~raced => Orderly

IInv ==
    /\ TypeOK
    /\ Places
    /\ Jobs
    /\ Newcomers
    /\ NamesAreLive
    /\ Bounded
    /\ LInv

-----------------------------------------------------------------------------
(* Types. *)

LEMMA IncomingType ==
    ASSUME TypeOK, NEW c \in Conns
    PROVE  Incoming(c) \subseteq Requests
<1>1. Noise \subseteq Requests
  BY RoomAssumption DEF Noise, Requests
<1>2. Request("BYE", EmptyNick, 0) \in Requests
  BY RoomAssumption DEF Request, Requests, RequestKinds, ChatKinds
<1>3. inbox[c] # <<>> => Head(inbox[c]) \in Requests
  BY DEF TypeOK
<1> QED
  BY <1>1, <1>2, <1>3 DEF Incoming, TypeOK

LEMMA ReceiveType ==
    ASSUME TypeOK, NEW c \in Conns, NEW m, Receive(c, m)
    PROVE  /\ m \in Requests /\ m.nick \in Names /\ m.n \in 0..MaxSays
           /\ inbox' \in [Conns -> Seq(Requests)]
           /\ peer' \in [Conns -> {"open", "fin", "abort", "rst"}]
<1>1. m \in Requests
  BY IncomingType DEF Receive
<1>2. (IF inbox[c] = <<>> THEN inbox[c] ELSE Tail(inbox[c])) \in Seq(Requests)
  BY DEF TypeOK
<1>3. inbox' = [inbox EXCEPT ![c] = IF inbox[c] = <<>> THEN inbox[c] ELSE Tail(inbox[c])]
  BY DEF Receive
<1>4. inbox' \in [Conns -> Seq(Requests)]
  BY <1>2, <1>3 DEF TypeOK
<1>5. peer' \in [Conns -> {"open", "fin", "abort", "rst"}]
  BY DEF Receive, TypeOK
<1> QED
  BY <1>1, <1>4, <1>5 DEF Requests

LEMMA DeliverType ==
    ASSUME TypeOK, NEW r \in Conns, NEW m \in Replies, Deliver(r, m)
    PROVE  /\ outbox' \in [Conns -> Seq(Replies)]
           /\ peer' \in [Conns -> {"open", "fin", "abort", "rst"}]
           /\ up' \in BOOLEAN
<1>1. (IF r \in shut THEN outbox[r] ELSE Append(outbox[r], m)) \in Seq(Replies)
  BY DEF TypeOK
<1>2. outbox' = outbox \/ outbox' = [outbox EXCEPT ![r] = IF r \in shut THEN outbox[r] ELSE Append(outbox[r], m)]
  BY DEF Deliver
<1> QED
  BY <1>1, <1>2 DEF Deliver, TypeOK

LEMMA AppendFacts ==
    ASSUME NEW S, NEW s \in Seq(S), NEW x \in S
    PROVE  /\ Append(s, x) \in Seq(S)
           /\ Len(Append(s, x)) = Len(s) + 1 /\ Len(s) \in Nat
           /\ Append(s, x)[Len(s) + 1] = x
           /\ \A i \in 1..Len(s) : Append(s, x)[i] = s[i]
           /\ \A i \in 1..Len(Append(s, x)) : i \in 1..Len(s) \/ i = Len(s) + 1
OBVIOUS

\* Two cells are written, the second one last.
LEMMA ExceptFacts ==
    ASSUME NEW S, NEW s \in Seq(S), NEW i \in 1..Len(s), NEW x \in S, NEW j \in 1..Len(s), NEW y \in S
    PROVE  LET t == [s EXCEPT ![i] = x, ![j] = y] IN
           /\ t \in Seq(S)
           /\ Len(t) = Len(s)
           /\ \A k \in 1..Len(s) : t[k] = IF k = j THEN y ELSE IF k = i THEN x ELSE s[k]
<1> DEFINE u == [s EXCEPT ![i] = x]
           t == [u EXCEPT ![j] = y]
<1>1. u \in Seq(S) /\ Len(u) = Len(s) /\ \A k \in 1..Len(s) : u[k] = IF k = i THEN x ELSE s[k]
  BY ExceptSeq
<1>2. t \in Seq(S) /\ Len(t) = Len(u) /\ \A k \in 1..Len(u) : t[k] = IF k = j THEN y ELSE u[k]
  <2> HIDE DEF u
  <2> QED
    BY <1>1, ExceptSeq
<1> QED
  BY <1>1, <1>2

LEMMA PlainReply ==
    ASSUME NEW c \in Conns, NEW kind \in ReplyKinds
    PROVE  Reply(kind, c, 0) \in Replies
BY RoomAssumption DEF Reply, Replies

LEMMA AdvanceTypes ==
    ASSUME TypeOK, NEW w \in Workers, NEW next \in SessionPCs, Advance(w, next)
    PROVE  /\ pos' \in [Workers -> Nat]
           /\ pc' \in [Workers -> SessionPCs]
<1>1. pos \in [Workers -> Nat] /\ pos[w] + 1 \in Nat /\ pc \in [Workers -> SessionPCs]
  BY DEF TypeOK
<1>2. \/ pos' = [pos EXCEPT ![w] = pos[w] + 1] /\ pc' = pc
      \/ pos' = [pos EXCEPT ![w] = 1] /\ pc' = [pc EXCEPT ![w] = next]
  BY DEF Advance, Restart, Goto
<1> QED
  BY <1>1, <1>2

LEMMA AppendListed ==
    ASSUME TypeOK
    PROVE  /\ Append(cells, client) \in Seq(Conns \cup {NULL})
           /\ \A c \in Conns \cup {NULL} :
                /\ Append(queue, c) \in Seq(Conns \cup {NULL})
                /\ Append(enqueued, c) \in Seq(Conns \cup {NULL})
<1> DEFINE S == Conns \cup {NULL}
<1>1. cells \in Seq(S) /\ queue \in Seq(S) /\ enqueued \in Seq(S) /\ client \in S
  BY DEF TypeOK
<1> HIDE DEF S
<1>2. /\ Append(cells, client) \in Seq(S)
      /\ \A c \in S : Append(queue, c) \in Seq(S) /\ Append(enqueued, c) \in Seq(S)
  BY <1>1, AppendFacts
<1> QED
  BY <1>2 DEF S

LEMMA AcceptingType ==
    ASSUME TypeOK, Accepting
    PROVE  TypeOK'
<1>1. ASSUME NEW c \in Conns, Accept(c) PROVE TypeOK'
  BY <1>1 DEF Accept, TypeOK, MainPCs, localVars, frameVars, walkVars, listVars, nameVars, netVars
<1>2. CASE Push
  <2>1. cells' \in Seq(Conns \cup {NULL})
    <3>1. cells' = Append(cells, client) \/ cells' = cells
      BY <1>2 DEF Push
    <3> QED
      BY <3>1, AppendListed
  <2> QED
    BY <1>2, <2>1 DEF Push, ReadsList, TypeOK, MainPCs, localVars, frameVars, walkVars, nameVars, netVars, clientVars
<1>3. CASE Enqueue
  <2>1. queue' \in Seq(Conns \cup {NULL}) /\ enqueued' \in Seq(Conns \cup {NULL})
    <3>1. cells # <<>> => Last \in Conns \cup {NULL}
      BY DEF Last, TypeOK
    <3>2. \/ queue' = queue /\ enqueued' = enqueued
          \/ /\ cells # <<>> /\ queue' = Append(queue, Last)
             /\ enqueued' = Append(enqueued, Last)
      BY <1>3 DEF Enqueue
    <3> QED
      BY <3>1, <3>2, AppendListed DEF TypeOK
  <2> QED
    BY <1>3, <2>1 DEF Enqueue, ReadsList, TypeOK, MainPCs, localVars, frameVars, walkVars, nameVars, clientVars
<1>4. CASE AcceptFails
  BY <1>4 DEF AcceptFails, TypeOK, MainPCs, localVars, frameVars, walkVars, listVars, nameVars, netVars, clientVars
<1>5. CASE Exit
  BY <1>5 DEF Exit, TypeOK, serverVars, sharedVars, mainVars, localVars, frameVars, walkVars, listVars, nameVars, clientVars
<1> QED
  BY <1>1, <1>2, <1>3, <1>4, <1>5 DEF Accepting

LEMMA ClientType ==
    ASSUME TypeOK, NEW c \in Conns, Client(c)
    PROVE  TypeOK' /\ UNCHANGED serverVars
<1> USE DEF serverVars, sharedVars, mainVars, localVars, frameVars, walkVars, listVars, nameVars
<1>1. ASSUME NEW n \in Choices[c], EnterName(c, n) PROVE TypeOK' /\ UNCHANGED serverVars
  <2>1. Request("HELLO", n, 0) \in Requests
    BY RoomAssumption DEF Request, Requests, RequestKinds
  <2>2. inbox' \in [Conns -> Seq(Requests)] /\ said' \in [Conns -> 0..MaxSays]
    BY <1>1, <2>1, RoomAssumption DEF EnterName, SendRequest, TypeOK
  <2> QED
    BY <1>1, <2>2 DEF EnterName, TypeOK, netVars
<1>2. CASE ReadReply(c)
  <2>1. read' \in [Conns -> Nat]
    <3>1. read' = read \/ read' = [read EXCEPT ![c] = read[c] + 1]
      BY <1>2 DEF ReadReply
    <3>2. read \in [Conns -> Nat] /\ read[c] + 1 \in Nat
      BY DEF TypeOK
    <3> QED
      BY <3>1, <3>2
  <2>2. /\ phase' \in [Conns -> {"off", "name", "wait", "chat", "quit", "gone"}]
        /\ peer' \in [Conns -> {"open", "fin", "abort", "rst"}]
    BY <1>2 DEF ReadReply, Leave, TypeOK
  <2>3. UNCHANGED <<serverVars, inbox, outbox, up, said>>
    BY <1>2 DEF ReadReply
  <2> QED
    BY <2>1, <2>2, <2>3 DEF TypeOK
<1>3. ASSUME NEW kind \in Kinds[c], Say(c, kind) PROVE TypeOK' /\ UNCHANGED serverVars
  <2>1. said[c] + 1 \in 0..MaxSays
    BY <1>3, RoomAssumption DEF Say, SendRequest, TypeOK
  <2>2. Request(kind, EmptyNick, said[c] + 1) \in Requests
    BY <2>1, RoomAssumption DEF Request, Requests, RequestKinds
  <2>3. inbox' \in [Conns -> Seq(Requests)] /\ said' \in [Conns -> 0..MaxSays]
    BY <1>3, <2>1, <2>2 DEF Say, SendRequest, TypeOK
  <2> QED
    BY <1>3, <2>3 DEF Say, TypeOK, netVars
<1>4. CASE CloseSocket(c)
  BY <1>4 DEF CloseSocket, Leave, TypeOK
<1>5. ASSUME NEW fault \in Faults[c], Vanish(c, fault) PROVE TypeOK' /\ UNCHANGED serverVars
  BY <1>5, RoomAssumption DEF Vanish, Leave, TypeOK
<1> QED
  BY <1>1, <1>2, <1>3, <1>4, <1>5 DEF Client

LEMMA DispatchType ==
    ASSUME TypeOK, NEW w \in Workers, Dispatch(w)
    PROVE  TypeOK'
<1>1. queue' \in Seq(Conns \cup {NULL}) /\ conn' \in [Workers -> Conns \cup {NULL}]
  BY DEF Dispatch, TypeOK
<1> QED
  BY <1>1 DEF Dispatch, Goto, TypeOK, SessionPCs, listVars, nameVars, walkVars, clientVars

\* Sessions that are not in the list.
LEMMA GreetingType ==
    ASSUME TypeOK, Places, NEW w \in Workers,
           \/ RecvHello(w) \/ Refuse(w) \/ Count(w) \/ Used(w) \/ Insert(w) \/ Announce(w)
    PROVE  TypeOK'
<1> USE DEF sharedVars, mainVars, localVars, frameVars, walkVars, listVars, nameVars, clientVars, netVars
<1>1. CASE RecvHello(w)
  <2>1. conn[w] \in Conns
    BY <1>1 DEF RecvHello, Places, TypeOK
  <2>2. PICK m \in Incoming(conn[w]) : Receive(conn[w], m) /\ nickname' = [nickname EXCEPT ![w] = m.nick]
    BY <1>1 DEF RecvHello
  <2>3. /\ m.nick \in Names
        /\ inbox' \in [Conns -> Seq(Requests)]
        /\ peer' \in [Conns -> {"open", "fin", "abort", "rst"}]
    BY <2>1, <2>2, ReceiveType
  <2>4. pc' \in [Workers -> SessionPCs]
    BY <1>1 DEF RecvHello, Goto, SessionPCs, InList, TypeOK
  <2> QED
    BY <1>1, <2>2, <2>3, <2>4 DEF RecvHello, TypeOK
<1>2. CASE Refuse(w)
  <2>1. conn[w] \in Conns
    BY <1>2 DEF Refuse, Places, TypeOK
  <2>2. Reply("BYE", conn[w], 0) \in Replies
    BY <2>1, PlainReply DEF ReplyKinds
  <2> QED
    BY <1>2, <2>1, <2>2, DeliverType DEF Refuse, Answer, Goto, SessionPCs, InList, TypeOK
<1>3. CASE Count(w)
  BY <1>3 DEF Count, UsesNames, Goto, SessionPCs, TypeOK
<1>4. CASE Used(w)
  <2>1. conn[w] \in Conns
    BY <1>4 DEF Used, Places, TypeOK
  <2>2. Reply("USED", conn[w], 0) \in Replies
    BY <2>1, PlainReply DEF ReplyKinds
  <2> QED
    BY <1>4, <2>1, <2>2, DeliverType DEF Used, Answer, Goto, SessionPCs, TypeOK
<1>5. CASE Insert(w)
  BY <1>5 DEF Insert, UsesNames, Goto, SessionPCs, TypeOK
<1>6. CASE Announce(w)
  <2>1. conn[w] \in Conns
    BY <1>6 DEF Announce, Places, TypeOK
  <2>2. [kind |-> "HI", n |-> 0, then |-> "greet"] \in [kind : ReplyKinds, n : 0..MaxSays, then : SessionPCs]
    BY RoomAssumption DEF ReplyKinds, SessionPCs
  <2> QED
    BY <1>6, <2>1, <2>2 DEF Announce, Broadcast, Goto, SessionPCs, InList, TypeOK
<1> QED
  BY <1>1, <1>2, <1>3, <1>4, <1>5, <1>6

LEMMA InsideType ==
    ASSUME TypeOK, Places, NEW w \in Workers,
           Greet(w) \/ RecvChat(w) \/ Pong(w) \/ Goodbye(w) \/ Forget(w)
    PROVE  TypeOK'
<1> USE DEF sharedVars, mainVars, localVars, frameVars, walkVars, listVars, nameVars, clientVars, netVars
<1> DEFINE JobType == [kind : ReplyKinds, n : 0..MaxSays, then : SessionPCs]
<1>1. CASE Greet(w) \/ Pong(w)
  <2>1. conn[w] \in Conns
    BY <1>1 DEF Greet, Pong, Places, TypeOK
  <2>2. Reply("WELCOME", conn[w], 0) \in Replies /\ Reply("PONG", conn[w], 0) \in Replies
    BY <2>1, PlainReply DEF ReplyKinds
  <2> QED
    BY <1>1, <2>1, <2>2, DeliverType DEF Greet, Pong, Answer, Goto, SessionPCs, TypeOK
<1>2. CASE RecvChat(w)
  <2>1. conn[w] \in Conns
    BY <1>2 DEF RecvChat, Places, TypeOK
  <2>2. PICK m \in Incoming(conn[w]) :
          /\ Receive(conn[w], m)
          /\ CASE m.kind = "TEXT" -> Broadcast(w, "TEXT", m.n, "chat")
               [] m.kind \in {"PING", "BYE"} ->
                      /\ Goto(w, IF m.kind = "PING" THEN "pong" ELSE "goodbye")
                      /\ UNCHANGED job
               [] OTHER -> UNCHANGED <<pc, job>>
    BY <1>2 DEF RecvChat
  <2>3. /\ m.n \in 0..MaxSays
        /\ inbox' \in [Conns -> Seq(Requests)]
        /\ peer' \in [Conns -> {"open", "fin", "abort", "rst"}]
    BY <2>1, <2>2, ReceiveType
  <2>4. [kind |-> "TEXT", n |-> m.n, then |-> "chat"] \in JobType
    BY <2>3 DEF ReplyKinds, SessionPCs
  <2>5. pc' \in [Workers -> SessionPCs] /\ job' \in [Workers -> JobType]
    <3>1. \/ pc' = pc /\ job' = job
          \/ pc' = [pc EXCEPT ![w] = "pong"] /\ job' = job
          \/ pc' = [pc EXCEPT ![w] = "goodbye"] /\ job' = job
          \/ pc' = [pc EXCEPT ![w] = "send"] /\ job' = [job EXCEPT ![w] = [kind |-> "TEXT", n |-> m.n, then |-> "chat"]]
      BY <2>2 DEF Broadcast, Goto
    <3>2. {"pong", "goodbye", "send"} \subseteq SessionPCs
      BY DEF SessionPCs, InList
    <3>3. job \in [Workers -> JobType] /\ pc \in [Workers -> SessionPCs]
      BY DEF TypeOK
    <3> HIDE DEF JobType
    <3> QED
      BY <2>4, <3>1, <3>2, <3>3
  <2> QED
    BY <1>2, <2>2, <2>3, <2>5 DEF RecvChat, TypeOK
<1>3. CASE Goodbye(w)
  <2>1. conn[w] \in Conns
    BY <1>3 DEF Goodbye, Places, TypeOK
  <2>2. Reply("BYE", conn[w], 0) \in Replies
    BY <2>1, PlainReply DEF ReplyKinds
  <2>3. [kind |-> "LEFT", n |-> 0, then |-> "remove"] \in JobType
    BY RoomAssumption DEF ReplyKinds, SessionPCs, InList
  <2>4. pc' \in [Workers -> SessionPCs] /\ job' \in [Workers -> JobType]
    BY <1>3, <2>3 DEF Goodbye, Broadcast, Goto, SessionPCs, InList, TypeOK
  <2> QED
    BY <1>3, <2>1, <2>2, <2>4, DeliverType DEF Goodbye, TypeOK
<1>4. CASE Forget(w)
  <2>1. NoJob \in JobType
    BY RoomAssumption DEF NoJob, ReplyKinds, SessionPCs
  <2> QED
    BY <1>4, <2>1, RoomAssumption DEF Forget, Without, UsesNames, Goto, SessionPCs, TypeOK
<1> QED
  BY <1>1, <1>2, <1>3, <1>4

\* The loops over the list.
LEMMA SendType ==
    ASSUME TypeOK, Places, NEW w \in Workers, Send(w)
    PROVE  TypeOK'
<1> USE DEF sharedVars, mainVars, localVars, frameVars, walkVars, listVars, nameVars, clientVars, netVars
<1>1. /\ UNCHANGED <<nameVars, mainVars, frameVars, clientVars, cells, shut, dst, inbox>>
      /\ raced' \in BOOLEAN
  BY DEF Send, ReadsList, TypeOK
<1>2. job[w].then \in SessionPCs
  BY DEF TypeOK
<1>3. /\ pos' \in [Workers -> Nat]
      /\ pc' \in [Workers -> SessionPCs]
      /\ outbox' \in [Conns -> Seq(Replies)]
      /\ peer' \in [Conns -> {"open", "fin", "abort", "rst"}]
      /\ up' \in BOOLEAN
  <2>1. CASE Die
    BY <2>1 DEF Die, TypeOK
  <2>2. CASE Restart(w, job[w].then) /\ UNCHANGED netVars
    BY <1>2, <2>2 DEF Restart, Goto, TypeOK
  <2>3. CASE Advance(w, job[w].then) /\ UNCHANGED netVars
    BY <1>2, <2>3, AdvanceTypes DEF TypeOK
  <2>4. CASE /\ pos[w] # 0 /\ cells # <<>> /\ cells[pos[w]] # NULL
             /\ Advance(w, job[w].then)
             /\ Deliver(cells[pos[w]], Reply(job[w].kind, conn[w], job[w].n))
    <3>1. pos[w] \in 1..Len(cells)
      <4>1. pos[w] \in Nat /\ Len(cells) \in Nat /\ Len(cells) # 0
        BY <2>4 DEF TypeOK
      <4>2. pos[w] <= 1 \/ pos[w] <= Len(cells)
        BY DEF Places
      <4>3. \A p, l \in Nat : p # 0 /\ l # 0 /\ (p <= 1 \/ p <= l) => p \in 1..l
        OBVIOUS
      <4> QED
        BY <2>4, <4>1, <4>2, <4>3
    <3>2. cells[pos[w]] \in Conns
      BY <2>4, <3>1 DEF TypeOK
    <3>3. conn[w] \in Conns
      BY DEF Send, Places, TypeOK
    <3>4. Reply(job[w].kind, conn[w], job[w].n) \in Replies
      BY <3>3 DEF Reply, Replies, TypeOK
    <3> QED
      BY <1>2, <2>4, <3>2, <3>4, AdvanceTypes, DeliverType
  <2> QED
    BY <2>1, <2>2, <2>3, <2>4 DEF Send
<1> QED
  BY <1>1, <1>3 DEF TypeOK

LEMMA RemoveType ==
    ASSUME TypeOK, Places, NEW w \in Workers, Remove(w)
    PROVE  TypeOK'
<1> USE DEF mainVars, frameVars, nameVars, clientVars
<1>1. UNCHANGED <<nameVars, mainVars, frameVars, clientVars, shut, inbox, outbox, peer>>
  BY DEF Remove
<1>2. /\ pos' \in [Workers -> Nat]
      /\ pc' \in [Workers -> SessionPCs]
      /\ up' \in BOOLEAN
  <2>1. "erase" \in SessionPCs
    BY DEF SessionPCs, InList
  <2>2. CASE Advance(w, "erase") /\ UNCHANGED up
    BY <2>1, <2>2, AdvanceTypes DEF TypeOK
  <2>3. CASE Goto(w, "erase") /\ pos' = pos /\ up' \in BOOLEAN
    BY <2>1, <2>3 DEF Goto, TypeOK
  <2> QED
    BY <2>2, <2>3 DEF Remove, TypeOK
<1>3. raced' \in BOOLEAN
  BY DEF Remove, ReadsList, WritesList, TypeOK
<1>4. CASE pos[w] = 0 \/ cells = <<>>
  BY <1>1, <1>2, <1>3, <1>4 DEF Remove, TypeOK
<1>5. CASE ~(pos[w] = 0 \/ cells = <<>>)
  <2>1. pos[w] \in 1..Len(cells)
    <3>1. pos[w] \in Nat /\ Len(cells) \in Nat /\ Len(cells) # 0 /\ pos[w] # 0
      BY <1>5 DEF TypeOK
    <3>2. pos[w] <= 1 \/ pos[w] <= Len(cells)
      BY DEF Places
    <3>3. \A p, l \in Nat : p # 0 /\ l # 0 /\ (p <= 1 \/ p <= l) => p \in 1..l
      OBVIOUS
    <3> QED
      BY <3>1, <3>2, <3>3
  <2>2. cells[pos[w]] \in Conns \cup {NULL} /\ dst[w] + 1 \in Nat
    BY <2>1 DEF TypeOK
  <2>3. cells' \in Seq(Conns \cup {NULL})
    <3>1. \/ cells' = cells
          \/ dst[w] # 0 /\ cells' = [cells EXCEPT ![dst[w]] = cells[pos[w]], ![pos[w]] = NULL]
      BY <1>5 DEF Remove
    <3>4. dst[w] # 0 => dst[w] \in 1..Len(cells)
      <4>1. dst[w] # 0 => dst[w] < pos[w]
        BY <1>5 DEF Remove, Places
      <4>2. dst[w] \in Nat /\ Len(cells) \in Nat /\ pos[w] \in Nat /\ pos[w] <= Len(cells)
        BY <2>1 DEF TypeOK
      <4>3. \A d, p, l \in Nat : d # 0 /\ d < p /\ p <= l => d \in 1..l
        OBVIOUS
      <4> QED
        BY <4>1, <4>2, <4>3
    <3> DEFINE S == Conns \cup {NULL}
    <3>2. cells \in Seq(S) /\ cells[pos[w]] \in S /\ NULL \in S
      BY <2>2 DEF TypeOK
    <3> HIDE DEF S
    <3>3. cells' \in Seq(S)
      BY <2>1, <3>1, <3>2, <3>4, ExceptFacts
    <3> QED
      BY <3>3 DEF S
  <2>4. dst' \in [Workers -> Nat]
    <3>1. \/ dst' = dst
          \/ dst' = [dst EXCEPT ![w] = IF cells[pos[w]] = conn[w] THEN pos[w] ELSE 0]
          \/ dst' = [dst EXCEPT ![w] = dst[w] + 1]
      BY <1>5 DEF Remove
    <3>2. dst \in [Workers -> Nat] /\ (IF cells[pos[w]] = conn[w] THEN pos[w] ELSE 0) \in Nat
      BY DEF TypeOK
    <3> QED
      BY <2>2, <3>1, <3>2
  <2> QED
    BY <1>1, <1>2, <1>3, <2>3, <2>4 DEF TypeOK
<1> QED
  BY <1>4, <1>5

\* What cutting the list leaves.
LEMMA CutFacts ==
    ASSUME TypeOK, Places, NEW w \in Workers, pc[w] = "erase", dst[w] # 0, pos[w] # 0, Cut(w)
    PROVE  /\ dst[w] \in 1..Len(cells)
           /\ cells' \in Seq(Conns \cup {NULL})
           /\ Len(cells') = dst[w] - 1
           /\ \A i \in 1..Len(cells') : cells'[i] = cells[i] /\ i \in 1..Len(cells)
           /\ pos' \in [Workers -> Nat]
           /\ pc' = [pc EXCEPT ![w] = "forget"]
           /\ pos'[w] = 1
           /\ \A v \in Workers \ {w} :
                /\ pos'[v] \in {0, pos[v]}
                /\ pc[v] \notin InList => pos'[v] = pos[v]
                /\ pc[v] \in InList /\ pos'[v] # 0 =>
                    (IF pc[v] = "erase" THEN dst[v] ELSE pos[v]) < dst[w]
<1> DEFINE at(v) == IF pc[v] = "erase" THEN dst[v] ELSE pos[v]
<1>1. /\ cells' = SubSeq(cells, 1, dst[w] - 1)
      /\ pos' = [v \in Workers |->
                   IF v = w THEN 1
                   ELSE IF v \in Walking(w) /\ at(v) >= dst[w] THEN 0 ELSE pos[v]]
      /\ pc' = [pc EXCEPT ![w] = "forget"]
  BY DEF Cut, Goto
<1>2. dst[w] \in Nat /\ dst[w] <= Len(cells) /\ Len(cells) \in Nat
  BY DEF Places, TypeOK
<1>3. dst[w] \in 1..Len(cells) /\ dst[w] - 1 \in 0..Len(cells)
  <2>1. \A d, l \in Nat : d # 0 /\ d <= l => d \in 1..l /\ d - 1 \in 0..l
    OBVIOUS
  <2> QED
    BY <1>2, <2>1
<1>4. /\ cells' \in Seq(Conns \cup {NULL})
      /\ Len(cells') = dst[w] - 1
      /\ \A i \in 1..Len(cells') : cells'[i] = cells[i] /\ i \in 1..Len(cells)
  <2>1. \A n \in 0..Len(cells) :
          LET t == SubSeq(cells, 1, n) IN
          /\ t \in Seq(Conns \cup {NULL})
          /\ Len(t) = n
          /\ \A i \in 1..n : t[i] = cells[i] /\ i \in 1..Len(cells)
    BY DEF TypeOK
  <2> QED
    BY <1>1, <1>3, <2>1
<1>5. pos' \in [Workers -> Nat]
  BY <1>1 DEF TypeOK
<1>6. ASSUME NEW v \in Workers \ {w}
      PROVE  /\ pos'[v] \in {0, pos[v]}
             /\ pc[v] \notin InList => pos'[v] = pos[v]
             /\ pc[v] \in InList /\ pos'[v] # 0 => at(v) < dst[w]
  <2>1. v \in Walking(w) <=> pc[v] \in InList
    BY DEF Walking
  <2>2. at(v) \in Nat /\ dst[w] \in Nat
    BY DEF TypeOK
  <2> HIDE DEF at
  <2>3. pos'[v] = IF v \in Walking(w) /\ at(v) >= dst[w] THEN 0 ELSE pos[v]
    BY <1>1
  <2>4. ~(at(v) >= dst[w]) => at(v) < dst[w]
    BY <2>2
  <2> QED
    BY <2>1, <2>3, <2>4
<1> QED
  BY <1>1, <1>3, <1>4, <1>5, <1>6 DEF TypeOK

LEMMA EraseCases ==
    ASSUME NEW w \in Workers, Erase(w)
    PROVE  /\ pc[w] = "erase"
           /\ UNCHANGED <<nameVars, mainVars, frameVars, clientVars, shut, dst, inbox, outbox, peer>>
           /\ \/ dst[w] # 0 /\ pos[w] # 0 /\ Cut(w) /\ WritesList(w)
              \/ /\ Restart(w, "forget") /\ UNCHANGED cells /\ up' \in {up, TRUE, FALSE}
                 /\ \/ dst[w] = 0 /\ raced' = raced
                    \/ dst[w] # 0 /\ WritesList(w) /\ (pos[w] = 0 \/ Cutting(w) # {} \/ main = "push")
BY DEF Erase, listVars

LEMMA EraseType ==
    ASSUME TypeOK, Places, NEW w \in Workers, Erase(w)
    PROVE  TypeOK'
<1> USE DEF mainVars, frameVars, nameVars, clientVars
<1>1. /\ pc[w] = "erase"
      /\ UNCHANGED <<nameVars, mainVars, frameVars, clientVars, shut, dst, inbox, outbox, peer>>
  BY EraseCases
<1>2. "forget" \in SessionPCs
  BY DEF SessionPCs
<1>3. CASE dst[w] # 0 /\ pos[w] # 0 /\ Cut(w) /\ WritesList(w)
  <2>1. raced' \in BOOLEAN /\ up' = up
    BY <1>3 DEF WritesList, Cut, TypeOK
  <2>2. cells' \in Seq(Conns \cup {NULL}) /\ pos' \in [Workers -> Nat] /\ pc' = [pc EXCEPT ![w] = "forget"]
    BY <1>1, <1>3, CutFacts
  <2> QED
    BY <1>1, <1>2, <2>1, <2>2 DEF TypeOK
<1>4. CASE /\ Restart(w, "forget") /\ UNCHANGED cells /\ up' \in {up, TRUE, FALSE}
           /\ raced' = raced \/ WritesList(w)
  <2>1. raced' \in BOOLEAN /\ up' \in BOOLEAN
    BY <1>4 DEF WritesList, TypeOK
  <2> QED
    BY <1>1, <1>2, <1>4, <2>1 DEF Restart, Goto, TypeOK
<1> QED
  BY <1>3, <1>4, EraseCases

LEMMA TypeStep ==
    ASSUME TypeOK, Places, [Next]_vars
    PROVE  TypeOK'
<1>1. CASE UNCHANGED vars
  BY <1>1 DEF TypeOK, vars, serverVars, sharedVars, localVars, mainVars, frameVars, walkVars, listVars,
     nameVars, clientVars, netVars
<1>2. ASSUME NEW w \in Workers, Session(w) PROVE TypeOK'
  BY <1>2, GreetingType, InsideType, SendType, RemoveType, EraseType DEF Session
<1> QED
  BY <1>1, <1>2, AcceptingType, ClientType, DispatchType DEF Next, Serve

-----------------------------------------------------------------------------
(* A step as the list sees it. *)

listView == <<cells, raced, pos, dst, conn, queue, client>>

\* Neither the list nor a session's place in the program changes.
Still ==
    /\ UNCHANGED <<listView, pc>>
    /\ main' = main \/ (main = "accept" /\ main' = "unwound")

\* A session goes on outside the list, or comes to a loop.
Moved(w, next) ==
    /\ UNCHANGED <<listView, main>>
    /\ pc[w] \in Greeting \cup Inside
    /\ next \in Greeting \cup Inside \cup {"send", "remove"}
    /\ next \in Greeting => pc[w] \in Greeting
    /\ pc' = [pc EXCEPT ![w] = next]

LEMMA MovedSteps ==
    ASSUME TypeOK, NEW w \in Workers,
           \/ RecvHello(w) \/ Refuse(w) \/ Count(w) \/ Used(w) \/ Insert(w) \/ Announce(w)
           \/ Greet(w) \/ RecvChat(w) \/ Pong(w) \/ Goodbye(w)
    PROVE  \E next \in SessionPCs : Moved(w, next)
<1> USE DEF sharedVars, mainVars, localVars, frameVars, walkVars, listVars, nameVars, listView
<1>1. UNCHANGED <<listView, main>>
  BY DEF RecvHello, Refuse, Count, Used, Insert, Announce, Greet, RecvChat, Pong, Goodbye
<1>2. pc[w] \in Greeting \cup Inside
  BY DEF RecvHello, Refuse, Count, Used, Insert, Announce, Greet, RecvChat, Pong, Goodbye, Greeting, Inside
<1>3. \E next \in Greeting \cup Inside \cup {"send", "remove"} :
        pc' = [pc EXCEPT ![w] = next] /\ (next \in Greeting => pc[w] \in Greeting)
  <2>1. CASE RecvHello(w) \/ Refuse(w) \/ Count(w) \/ Used(w) \/ Insert(w) \/ Announce(w)
    BY <2>1 DEF RecvHello, Refuse, Count, Used, Insert, Announce, Answer, Broadcast, Goto, Greeting, Inside
  <2>2. CASE Greet(w) \/ Pong(w) \/ Goodbye(w)
    BY <2>2 DEF Greet, Pong, Goodbye, Answer, Broadcast, Goto, Inside, Greeting
  <2>3. CASE RecvChat(w)
    <3>1. \/ pc' = pc /\ pc[w] = "chat"
          \/ pc' = [pc EXCEPT ![w] = "pong"]
          \/ pc' = [pc EXCEPT ![w] = "goodbye"]
          \/ pc' = [pc EXCEPT ![w] = "send"]
      BY <2>3 DEF RecvChat, Broadcast, Goto
    <3>2. pc' = pc => pc' = [pc EXCEPT ![w] = pc[w]]
      BY DEF TypeOK
    <3> QED
      BY <3>1, <3>2 DEF Inside, Greeting
  <2> QED
    BY <2>1, <2>2, <2>3
<1>4. Greeting \cup Inside \cup {"send", "remove"} \subseteq SessionPCs
  BY DEF Greeting, Inside, SessionPCs, InList
<1> QED
  BY <1>1, <1>2, <1>3, <1>4 DEF Moved

LEMMA ListSteps ==
    ASSUME TypeOK, [Next]_vars
    PROVE  \/ Still
           \/ (\E c \in Conns : Accept(c)) \/ Push \/ Enqueue
           \/ \E w \in Workers :
                \/ \E next \in SessionPCs : Moved(w, next)
                \/ Dispatch(w) \/ Send(w) \/ Remove(w) \/ Erase(w) \/ Forget(w)
<1> USE DEF Still, listView, serverVars, sharedVars, mainVars, localVars, frameVars, walkVars, listVars
<1>1. CASE UNCHANGED vars
  BY <1>1 DEF vars
<1>2. ASSUME NEW c \in Conns, Client(c) PROVE Still
  <2>1. UNCHANGED serverVars
    BY <1>2, ClientType
  <2> QED
    BY <2>1
<1>3. CASE AcceptFails \/ Exit
  BY <1>3 DEF AcceptFails, Exit
<1> QED
  BY <1>1, <1>2, <1>3, MovedSteps DEF Next, Accepting, Serve, Session

\* The loops of Send and Remove go on by a cell, or to what follows the loop.
LEMMA AdvanceFacts ==
    ASSUME TypeOK, NEW w \in Workers, NEW next \in SessionPCs, Advance(w, next)
    PROVE  /\ \A v \in Workers \ {w} : pos'[v] = pos[v] /\ pc'[v] = pc[v]
           /\ \/ pos[w] < Len(cells) /\ pos'[w] = pos[w] + 1 /\ pc'[w] = pc[w]
              \/ ~(pos[w] < Len(cells)) /\ pos'[w] = 1 /\ pc'[w] = next
BY DEF Advance, Restart, Goto, TypeOK

LEMMA PlacesStep ==
    ASSUME TypeOK, TypeOK', Places, [Next]_vars
    PROVE  Places'
<1> DEFINE P(p, s, d, l) ==
             /\ s <= 1 \/ s <= l
             /\ p \notin InList => s = 1
             /\ p = "erase" => s <= 1
             /\ d # 0 => p \in {"remove", "erase", "forget"}
             /\ p = "remove" /\ d # 0 /\ s # 0 => d < s /\ s <= l
             /\ p = "erase" /\ d # 0 /\ s # 0 => d <= l
<1> SUFFICES ASSUME NEW v \in Workers
             PROVE  P(pc'[v], pos'[v], dst'[v], Len(cells')) /\ (pc'[v] # "idle" => conn'[v] # NULL)
  BY DEF Places
<1>1. P(pc[v], pos[v], dst[v], Len(cells)) /\ (pc[v] # "idle" => conn[v] # NULL)
  BY DEF Places
<1>2. /\ pos[v] \in Nat /\ dst[v] \in Nat /\ Len(cells) \in Nat /\ pc[v] \in SessionPCs
      /\ pos'[v] \in Nat /\ dst'[v] \in Nat /\ Len(cells') \in Nat
  <2>1. /\ pos[v] \in Nat /\ dst[v] \in Nat /\ pc[v] \in SessionPCs
        /\ pos'[v] \in Nat /\ dst'[v] \in Nat
    BY DEF TypeOK
  <2>2. cells \in Seq(Conns \cup {NULL}) /\ cells' \in Seq(Conns \cup {NULL})
    BY DEF TypeOK
  <2> QED
    BY <2>1, <2>2, LenProperties
<1>3. CASE Still
  BY <1>1, <1>3 DEF Still, listView
<1>4. CASE \E c \in Conns : Accept(c)
  BY <1>1, <1>4 DEF Accept, localVars, frameVars, walkVars, listVars
<1>5. CASE Push
  <2>1. Len(cells') >= Len(cells)
    BY <1>5 DEF Push, TypeOK
  <2> QED
    BY <1>1, <1>2, <1>5, <2>1 DEF Push, localVars, frameVars, walkVars
<1>6. CASE Enqueue
  BY <1>1, <1>6 DEF Enqueue, localVars, frameVars, walkVars
<1>7. ASSUME NEW w \in Workers, NEW next \in SessionPCs, Moved(w, next)
      PROVE  P(pc'[v], pos'[v], dst'[v], Len(cells')) /\ (pc'[v] # "idle" => conn'[v] # NULL)
  <2>1. CASE v = w
    <3>1. pc'[v] \in Greeting \cup Inside \cup {"send", "remove"}
      BY <1>7, <2>1 DEF Moved, TypeOK
    <3>2. pos'[v] = 1 /\ dst'[v] = 0 /\ conn'[v] # NULL
      BY <1>1, <1>7, <2>1 DEF Moved, listView, Greeting, Inside, InList
    <3> QED
      BY <3>1, <3>2 DEF Greeting, Inside
  <2>2. CASE v # w
    BY <1>1, <1>7, <2>2 DEF Moved, listView, TypeOK
  <2> QED
    BY <2>1, <2>2
<1>8. ASSUME NEW w \in Workers, Dispatch(w)
      PROVE  P(pc'[v], pos'[v], dst'[v], Len(cells')) /\ (pc'[v] # "idle" => conn'[v] # NULL)
  <2>1. /\ pc[w] = "idle" /\ pos' = pos /\ dst' = dst /\ cells' = cells
        /\ conn' = [conn EXCEPT ![w] = Head(queue)]
        /\ \/ Head(queue) = NULL /\ pc' = pc
           \/ Head(queue) # NULL /\ pc' = [pc EXCEPT ![w] = "hello"]
    BY <1>8 DEF Dispatch, listVars, walkVars, Goto
  <2>2. CASE v = w
    BY <1>1, <2>1, <2>2 DEF TypeOK, InList
  <2>3. CASE v # w
    BY <1>1, <2>1, <2>3 DEF TypeOK
  <2> QED
    BY <2>2, <2>3
<1>9. ASSUME NEW w \in Workers, Send(w)
      PROVE  P(pc'[v], pos'[v], dst'[v], Len(cells')) /\ (pc'[v] # "idle" => conn'[v] # NULL)
  <2>1. cells' = cells /\ dst' = dst /\ conn' = conn /\ pc[w] = "send"
    BY <1>9 DEF Send, frameVars
  <2>2. \/ pc' = pc /\ pos' = pos
        \/ Restart(w, job[w].then)
        \/ Advance(w, job[w].then)
    BY <1>9 DEF Send, Die
  <2> QED
    <3>1. CASE v # w
      BY <1>1, <2>1, <2>2, <3>1, AdvanceFacts DEF Restart, Goto, TypeOK
    <3>2. CASE v = w
      <4>1. dst[v] = 0 /\ dst'[v] = 0 /\ Len(cells') = Len(cells) /\ conn'[v] # NULL
        BY <1>1, <2>1, <3>2
      <4>2. \/ pc'[v] = pc[v] /\ pos'[v] = pos[v]
            \/ pos'[v] = 1
            \/ pos[v] < Len(cells) /\ pos'[v] = pos[v] + 1 /\ pc'[v] = pc[v]
        BY <2>2, <3>2, AdvanceFacts DEF Restart, Goto, TypeOK
      <4>3. CASE pos'[v] = 1
        BY <4>1, <4>3
      <4>4. CASE pc'[v] = pc[v] /\ pos'[v] = pos[v]
        BY <1>1, <4>1, <4>4
      <4>5. CASE pos[v] < Len(cells) /\ pos'[v] = pos[v] + 1 /\ pc'[v] = pc[v]
        <5>1. pc'[v] = "send"
          BY <2>1, <3>2, <4>5
        <5>2. pos'[v] <= Len(cells')
          BY <1>2, <4>1, <4>5
        <5> QED
          BY <4>1, <5>1, <5>2 DEF InList
      <4> QED
        BY <4>2, <4>3, <4>4, <4>5
    <3> QED
      BY <3>1, <3>2
<1>10. ASSUME NEW w \in Workers, Remove(w)
       PROVE  P(pc'[v], pos'[v], dst'[v], Len(cells')) /\ (pc'[v] # "idle" => conn'[v] # NULL)
  <2>1. conn' = conn /\ pc[w] = "remove"
    BY <1>10 DEF Remove, frameVars
  <2>2. Len(cells') = Len(cells)
    BY <1>10 DEF Remove, TypeOK
  <2>3. CASE v # w
    <3>1. pos'[v] = pos[v] /\ pc'[v] = pc[v]
      <4>1. "erase" \in SessionPCs
        BY DEF SessionPCs, InList
      <4>2. Advance(w, "erase") \/ (Goto(w, "erase") /\ pos' = pos)
        BY <1>10 DEF Remove
      <4> QED
        BY <2>3, <4>1, <4>2, AdvanceFacts DEF Goto, TypeOK
    <3>2. dst'[v] = dst[v]
      BY <1>10, <2>3 DEF Remove, TypeOK
    <3> QED
      BY <1>1, <2>1, <2>2, <3>1, <3>2
  <2>4. CASE v = w /\ (pos[w] = 0 \/ cells = <<>>)
    <3>1. pos'[v] = pos[v] /\ dst'[v] = dst[v] /\ pc'[v] = "erase"
      BY <1>10, <2>4 DEF Remove, Goto, TypeOK
    <3>2. pos[v] <= 1
      BY <1>1, <1>2, <2>4
    <3>3. dst[v] # 0 => pos[v] = 0
      BY <1>1, <1>2, <2>1, <2>4
    <3> QED
      BY <1>1, <2>1, <2>4, <3>1, <3>2, <3>3 DEF InList
  <2>5. CASE v = w /\ ~(pos[w] = 0 \/ cells = <<>>)
    <3>1. Advance(w, "erase") /\ "erase" \in SessionPCs
      BY <1>10, <2>5 DEF Remove, SessionPCs, InList
    <3>2. \/ pos[v] < Len(cells) /\ pos'[v] = pos[v] + 1 /\ pc'[v] = "remove"
          \/ ~(pos[v] < Len(cells)) /\ pos'[v] = 1 /\ pc'[v] = "erase"
      BY <2>1, <2>5, <3>1, AdvanceFacts
    <3>3. \/ dst'[v] = dst[v]
          \/ dst[v] = 0 /\ dst'[v] \in {0, pos[v]}
          \/ dst[v] # 0 /\ dst'[v] = dst[v] + 1
      BY <1>10, <2>5 DEF Remove, TypeOK
    <3>4. pos[v] # 0 /\ pos[v] <= Len(cells)
      <4>1. Len(cells) # 0
        BY <2>5 DEF TypeOK
      <4>2. \A a, l \in Nat : l # 0 /\ (a <= 1 \/ a <= l) => a <= l
        OBVIOUS
      <4> QED
        BY <1>1, <1>2, <2>5, <4>1, <4>2
    <3>5. dst'[v] # 0 => dst'[v] <= pos[v]
      BY <1>1, <1>2, <2>1, <2>5, <3>3, <3>4
    <3>6. CASE pos[v] < Len(cells) /\ pos'[v] = pos[v] + 1 /\ pc'[v] = "remove"
      <4>1. pos'[v] <= Len(cells') /\ (dst'[v] # 0 => dst'[v] < pos'[v])
        BY <1>2, <2>2, <3>5, <3>6
      <4> QED
        BY <1>1, <2>1, <2>5, <3>6, <4>1 DEF InList
    <3>7. CASE pos'[v] = 1 /\ pc'[v] = "erase"
      <4>1. dst'[v] # 0 => dst'[v] <= Len(cells')
        BY <1>2, <2>2, <3>4, <3>5
      <4> QED
        BY <1>1, <2>1, <2>5, <3>7, <4>1 DEF InList
    <3> QED
      BY <3>2, <3>6, <3>7
  <2> QED
    BY <2>3, <2>4, <2>5
<1>11. ASSUME NEW w \in Workers, Erase(w)
       PROVE  P(pc'[v], pos'[v], dst'[v], Len(cells')) /\ (pc'[v] # "idle" => conn'[v] # NULL)
  <2>1. pc[w] = "erase" /\ conn' = conn /\ dst' = dst
    BY <1>11, EraseCases DEF frameVars
  <2>2. CASE Restart(w, "forget") /\ UNCHANGED cells
    <3>1. CASE v = w
      BY <1>1, <2>1, <2>2, <3>1 DEF Restart, Goto, TypeOK, InList
    <3>2. CASE v # w
      BY <1>1, <2>1, <2>2, <3>2 DEF Restart, Goto, TypeOK
    <3> QED
      BY <3>1, <3>2
  <2>3. CASE dst[w] # 0 /\ pos[w] # 0 /\ Cut(w)
    <3>1. /\ Len(cells') = dst[w] - 1 /\ dst[w] \in 1..Len(cells)
          /\ pc' = [pc EXCEPT ![w] = "forget"] /\ pos'[w] = 1
      BY <2>1, <2>3, CutFacts
    <3>2. CASE v = w
      BY <1>1, <2>1, <3>1, <3>2 DEF TypeOK, InList
    <3>3. CASE v # w
      <4>1. /\ pos'[v] \in {0, pos[v]}
            /\ pc[v] \notin InList => pos'[v] = pos[v]
            /\ pc[v] \in InList /\ pos'[v] # 0 => (IF pc[v] = "erase" THEN dst[v] ELSE pos[v]) < dst[w]
            /\ pc'[v] = pc[v] /\ dst'[v] = dst[v] /\ conn'[v] = conn[v]
        <5>1. pc'[v] = pc[v] /\ dst'[v] = dst[v] /\ conn'[v] = conn[v]
          BY <2>1, <3>1, <3>3 DEF TypeOK
        <5>2. v \in Workers \ {w}
          BY <3>3
        <5> QED
          BY <2>1, <2>3, <5>1, <5>2, CutFacts
      <4>2. \A a, b, c \in Nat : a < b /\ c = b - 1 => a <= c
        OBVIOUS
      <4>3. dst[w] \in Nat
        BY DEF TypeOK
      <4>4. CASE pos'[v] = 0
        BY <1>1, <4>1, <4>4
      <4>5. CASE pos'[v] # 0 /\ pc[v] \in InList
        <5>1. CASE pc[v] = "erase"
          <6>1. dst[v] <= Len(cells')
            BY <1>2, <3>1, <4>1, <4>2, <4>3, <4>5, <5>1
          <6> QED
            BY <1>1, <4>1, <4>5, <5>1, <6>1
        <5>2. CASE pc[v] # "erase"
          <6>1. pos[v] <= Len(cells')
            BY <1>2, <3>1, <4>1, <4>2, <4>3, <4>5, <5>2
          <6> QED
            BY <1>1, <4>1, <4>5, <5>2, <6>1
        <5> QED
          BY <5>1, <5>2
      <4>6. CASE pc[v] \notin InList
        BY <1>1, <4>1, <4>6 DEF InList
      <4> QED
        BY <4>4, <4>5, <4>6
    <3> QED
      BY <3>2, <3>3
  <2> QED
    BY <1>11, <2>2, <2>3, EraseCases
<1>12. ASSUME NEW w \in Workers, Forget(w)
       PROVE  P(pc'[v], pos'[v], dst'[v], Len(cells')) /\ (pc'[v] # "idle" => conn'[v] # NULL)
  <2>1. pc[w] = "forget" /\ pos' = pos /\ cells' = cells
    BY <1>12 DEF Forget, listVars
  <2>2. CASE v = w
    BY <1>1, <1>12, <2>1, <2>2 DEF Forget, Goto, TypeOK, InList
  <2>3. CASE v # w
    BY <1>1, <1>12, <2>1, <2>3 DEF Forget, Goto, TypeOK
  <2> QED
    BY <2>2, <2>3
<1> QED
  BY <1>3, <1>4, <1>5, <1>6, <1>7, <1>8, <1>9, <1>10, <1>11, <1>12, ListSteps

-----------------------------------------------------------------------------
(* Connections that are new, names and the size of the room. *)

\* Elements of the list after a step of a loop.
LEMMA AtCell ==
    ASSUME TypeOK, Places, NEW w \in Workers, pos[w] # 0, cells # <<>>
    PROVE  pos[w] \in 1..Len(cells) /\ cells[pos[w]] \in Conns \cup {NULL}
<1>1. pos[w] \in Nat /\ Len(cells) \in Nat /\ Len(cells) # 0
  BY DEF TypeOK
<1>2. pos[w] <= 1 \/ pos[w] <= Len(cells)
  BY DEF Places
<1>3. \A p, l \in Nat : p # 0 /\ l # 0 /\ (p <= 1 \/ p <= l) => p \in 1..l
  OBVIOUS
<1>4. pos[w] \in 1..Len(cells)
  BY <1>1, <1>2, <1>3
<1> QED
  BY <1>4 DEF TypeOK

\* The cells that std::remove writes.
LEMMA RemoveCells ==
    ASSUME TypeOK, Places, NEW w \in Workers, Remove(w)
    PROVE  \/ cells' = cells
           \/ /\ pos[w] # 0 /\ cells # <<>> /\ dst[w] # 0 /\ cells[pos[w]] # conn[w]
              /\ dst[w] \in 1..Len(cells) /\ dst[w] < pos[w]
              /\ Len(cells') = Len(cells)
              /\ \A k \in 1..Len(cells) :
                    cells'[k] = IF k = pos[w] THEN NULL ELSE IF k = dst[w] THEN cells[pos[w]] ELSE cells[k]
              /\ WritesList(w)
<1>1. CASE cells' = cells
  BY <1>1
<1>2. CASE /\ pos[w] # 0 /\ cells # <<>> /\ dst[w] # 0 /\ cells[pos[w]] # conn[w]
           /\ cells' = [cells EXCEPT ![dst[w]] = cells[pos[w]], ![pos[w]] = NULL]
           /\ WritesList(w)
  <2>1. pos[w] \in 1..Len(cells) /\ cells[pos[w]] \in Conns \cup {NULL}
    BY <1>2, AtCell
  <2>2. dst[w] < pos[w]
    BY <1>2 DEF Places, Remove
  <2>3. dst[w] \in 1..Len(cells)
    <3>1. dst[w] \in Nat /\ Len(cells) \in Nat
      BY DEF TypeOK
    <3>2. \A d, l \in Nat : \A p \in 1..l : d # 0 /\ d < p => d \in 1..l
      OBVIOUS
    <3> QED
      BY <1>2, <2>1, <2>2, <3>1, <3>2
  <2> DEFINE S == Conns \cup {NULL}
  <2>4. cells \in Seq(S) /\ cells[pos[w]] \in S /\ NULL \in S
    BY <2>1 DEF TypeOK
  <2> HIDE DEF S
  <2>5. /\ Len(cells') = Len(cells)
        /\ \A k \in 1..Len(cells) :
              cells'[k] = IF k = pos[w] THEN NULL ELSE IF k = dst[w] THEN cells[pos[w]] ELSE cells[k]
    BY <1>2, <2>1, <2>3, <2>4, ExceptFacts
  <2> QED
    BY <1>2, <2>2, <2>3, <2>5
<1>3. CASE pos[w] = 0 \/ cells = <<>>
  BY <1>1, <1>3 DEF Remove
<1>4. CASE ~(pos[w] = 0 \/ cells = <<>>)
  <2>1. \/ cells' = cells
        \/ /\ dst[w] # 0 /\ cells[pos[w]] # conn[w] /\ WritesList(w)
           /\ cells' = [cells EXCEPT ![dst[w]] = cells[pos[w]], ![pos[w]] = NULL]
    BY <1>4 DEF Remove
  <2> QED
    BY <1>1, <1>2, <1>4, <2>1
<1> QED
  BY <1>3, <1>4

\* Only Push adds to the list.
LEMMA ListedStep ==
    ASSUME TypeOK, Places, [Next]_vars
    PROVE  Listed' \subseteq Listed \/ (Push /\ Listed' \subseteq Listed \cup {client})
<1>1. ASSUME cells' = cells PROVE Listed' \subseteq Listed
  BY <1>1 DEF Listed
<1>2. CASE Push
  <2>1. cells' = cells \/ cells' = Append(cells, client)
    BY <1>2 DEF Push
  <2>2. Listed' \subseteq Listed \cup {client}
    <3> DEFINE S == Conns \cup {NULL}
    <3>1. cells \in Seq(S) /\ client \in S
      BY DEF TypeOK
    <3> HIDE DEF S
    <3>2. \A i \in 1..Len(cells') :
            (i \in 1..Len(cells) /\ cells'[i] = cells[i]) \/ cells'[i] = client
      BY <2>1, <3>1, AppendFacts
    <3> QED
      BY <3>2 DEF Listed
  <2> QED
    BY <1>2, <2>2
<1>3. ASSUME NEW w \in Workers, Remove(w) PROVE Listed' \subseteq Listed
  <2>1. CASE cells' # cells
    <3>1. /\ pos[w] \in 1..Len(cells) /\ Len(cells') = Len(cells)
          /\ \A k \in 1..Len(cells) :
                cells'[k] = IF k = pos[w] THEN NULL ELSE IF k = dst[w] THEN cells[pos[w]] ELSE cells[k]
      BY <1>3, <2>1, RemoveCells, AtCell
    <3> QED
      BY <3>1 DEF Listed
  <2> QED
    BY <1>1, <2>1
<1>4. ASSUME NEW w \in Workers, Erase(w) PROVE Listed' \subseteq Listed
  <2>1. CASE Cut(w) /\ dst[w] # 0 /\ pos[w] # 0
    <3>1. \A i \in 1..Len(cells') : cells'[i] = cells[i] /\ i \in 1..Len(cells)
      BY <1>4, <2>1, CutFacts, EraseCases
    <3> QED
      BY <3>1 DEF Listed
  <2> QED
    BY <1>1, <1>4, <2>1, EraseCases
<1>5. ASSUME NEW w \in Workers, Dispatch(w) \/ Send(w) \/ Forget(w) PROVE cells' = cells
  BY <1>5 DEF Dispatch, Send, Forget, listVars
<1>6. (\E c \in Conns : Accept(c)) \/ Enqueue => cells' = cells
  BY DEF Accept, Enqueue, listVars
<1> QED
  BY <1>1, <1>2, <1>3, <1>4, <1>5, <1>6, ListSteps DEF Still, Moved, listView

\* A send reaches one connection at most.
LEMMA DeliverOne ==
    ASSUME TypeOK, NEW r \in Conns, NEW m, Deliver(r, m), NEW c \in Conns, c # r
    PROVE  outbox'[c] = outbox[c]
BY DEF Deliver, TypeOK

\* A connection that is new stays unknown until it is in the list.
LEMMA FreshKept ==
    ASSUME TypeOK, Places, [Next]_vars, NEW c \in Conns, Fresh(c), c \notin Listed'
    PROVE  Fresh(c)'
<1> USE DEF serverVars, sharedVars, mainVars, localVars, frameVars, walkVars, listVars, nameVars, netVars, clientVars
<1>1. /\ c \notin auth /\ c \notin shut /\ c \notin Listed /\ c \notin Queued
      /\ \A w \in Workers : conn[w] # c
      /\ outbox[c] = <<>>
  BY DEF Fresh
<1>2. CASE UNCHANGED <<auth, shut, queue, conn>> /\ outbox'[c] = outbox[c]
  BY <1>1, <1>2 DEF Fresh, Queued
<1>3. CASE UNCHANGED vars
  BY <1>2, <1>3 DEF vars
<1>4. ASSUME NEW d \in Conns, Client(d) PROVE Fresh(c)'
  <2>1. UNCHANGED serverVars
    BY <1>4, ClientType
  <2>2. outbox' = outbox
    BY <1>4 DEF Client, EnterName, ReadReply, Say, CloseSocket, Vanish
  <2> QED
    BY <1>2, <2>1, <2>2
<1>5. CASE (\E d \in Conns : Accept(d)) \/ Push \/ AcceptFails \/ Exit
  BY <1>2, <1>5 DEF Accept, Push, AcceptFails, Exit
<1>6. CASE Enqueue
  <2>1. UNCHANGED <<auth, shut, conn, outbox>>
    BY <1>6 DEF Enqueue
  <2>2. queue' = queue \/ (cells # <<>> /\ queue' = Append(queue, Last))
    BY <1>6 DEF Enqueue
  <2>3. CASE queue' = queue
    BY <1>2, <2>1, <2>3
  <2>4. CASE cells # <<>> /\ queue' = Append(queue, Last)
    <3>1. Last # c
      <4>1. Len(cells) \in 1..Len(cells)
        BY <2>4 DEF TypeOK
      <4> QED
        BY <1>1, <4>1, RoomAssumption DEF Last, Listed
    <3>2. Queued' \subseteq Queued \cup {Last}
      BY <2>4 DEF Queued, TypeOK
    <3> QED
      BY <1>1, <2>1, <3>1, <3>2 DEF Fresh
  <2> QED
    BY <2>2, <2>3, <2>4
<1>7. ASSUME NEW w \in Workers, Dispatch(w) PROVE Fresh(c)'
  <2>1. /\ UNCHANGED <<auth, shut, outbox>> /\ queue # <<>> /\ queue' = Tail(queue)
        /\ conn' = [conn EXCEPT ![w] = Head(queue)]
    BY <1>7 DEF Dispatch
  <2>2. 1 \in 1..Len(queue) /\ Head(queue) = queue[1]
    BY <2>1 DEF TypeOK
  <2>3. Queued' \subseteq Queued
    BY <2>1 DEF Queued, TypeOK
  <2>4. Head(queue) # c
    BY <1>1, <2>2 DEF Queued
  <2>5. \A v \in Workers : conn'[v] # c
    BY <1>1, <2>1, <2>4 DEF TypeOK
  <2> QED
    BY <1>1, <2>1, <2>3, <2>5 DEF Fresh
<1>8. ASSUME NEW w \in Workers, NEW m, Deliver(conn[w], m), pc[w] # "idle" PROVE outbox'[c] = outbox[c]
  <2>1. conn[w] \in Conns /\ c # conn[w]
    BY <1>1, <1>8 DEF Places, TypeOK
  <2> QED
    BY <1>8, <2>1, DeliverOne
<1>9. ASSUME NEW w \in Workers, RecvHello(w) \/ Count(w) \/ Insert(w) \/ RecvChat(w) \/ Remove(w)
      PROVE  Fresh(c)'
  BY <1>2, <1>9 DEF RecvHello, Count, Insert, RecvChat, Remove
<1>10. ASSUME NEW w \in Workers, Used(w) \/ Greet(w) \/ Pong(w) \/ Goodbye(w) PROVE Fresh(c)'
  <2>1. outbox'[c] = outbox[c]
    BY <1>8, <1>10 DEF Used, Greet, Pong, Goodbye, Answer
  <2> QED
    BY <1>2, <1>10, <2>1 DEF Used, Greet, Pong, Goodbye
<1>11. ASSUME NEW w \in Workers, Refuse(w) PROVE Fresh(c)'
  <2>1. outbox'[c] = outbox[c]
    BY <1>8, <1>11 DEF Refuse, Answer
  <2> QED
    BY <1>1, <1>11, <2>1 DEF Refuse, Fresh, Queued
<1>12. ASSUME NEW w \in Workers, Announce(w) PROVE Fresh(c)'
  BY <1>1, <1>12 DEF Announce, Fresh, Queued
<1>13. ASSUME NEW w \in Workers, Send(w) PROVE Fresh(c)'
  <2>1. outbox'[c] = outbox[c]
    <3>1. CASE outbox' = outbox
      BY <3>1
    <3>2. CASE /\ pos[w] # 0 /\ cells # <<>> /\ cells[pos[w]] # NULL
               /\ Deliver(cells[pos[w]], Reply(job[w].kind, conn[w], job[w].n))
      <4>1. pos[w] \in 1..Len(cells) /\ cells[pos[w]] \in Conns
        BY <3>2, AtCell
      <4>2. cells[pos[w]] # c
        BY <1>1, <4>1, RoomAssumption DEF Listed
      <4> QED
        BY <3>2, <4>1, <4>2, DeliverOne
    <3> QED
      BY <1>13, <3>1, <3>2 DEF Send, Die
  <2> QED
    BY <1>2, <1>13, <2>1 DEF Send
<1>14. ASSUME NEW w \in Workers, Erase(w) PROVE Fresh(c)'
  BY <1>2, <1>14, EraseCases
<1>15. ASSUME NEW w \in Workers, Forget(w) PROVE Fresh(c)'
  <2>1. /\ UNCHANGED <<auth, shut, queue, outbox>>
        /\ conn' = [conn EXCEPT ![w] = NULL]
    BY <1>15 DEF Forget
  <2>2. \A v \in Workers : conn'[v] # c
    BY <1>1, <2>1, RoomAssumption DEF TypeOK
  <2> QED
    BY <1>1, <2>1, <2>2 DEF Fresh, Queued
<1> QED
  BY <1>3, <1>4, <1>5, <1>6, <1>7, <1>9, <1>10, <1>11, <1>12, <1>13, <1>14, <1>15
     DEF Next, Accepting, Serve, Session

LEMMA NewcomersStep ==
    ASSUME TypeOK, TypeOK', Places, Newcomers, [Next]_vars
    PROVE  Newcomers'
<1> USE DEF serverVars, sharedVars, mainVars, localVars, frameVars, walkVars, listVars, nameVars, netVars, clientVars
<1>1. ASSUME NEW c \in Conns, phase'[c] = "off" PROVE phase[c] = "off"
  <2>1. CASE UNCHANGED phase
    BY <1>1, <2>1
  <2>2. ASSUME NEW d \in Conns, Client(d) PROVE phase[c] = "off"
    BY <1>1, <2>2 DEF Client, EnterName, ReadReply, Say, CloseSocket, Vanish, Leave, TypeOK
  <2>3. ASSUME NEW d \in Conns, Accept(d) PROVE phase[c] = "off"
    BY <1>1, <2>3 DEF Accept, TypeOK
  <2>4. ASSUME NEW w \in Workers, Session(w) \/ Dispatch(w) PROVE UNCHANGED phase
    BY <2>4 DEF Session, Dispatch, RecvHello, Refuse, Count, Used, Insert, Announce, Greet, RecvChat,
       Pong, Goodbye, Send, Remove, Erase, Forget
  <2>5. ASSUME Push \/ Enqueue \/ AcceptFails \/ Exit PROVE UNCHANGED phase
    BY <2>5 DEF Push, Enqueue, AcceptFails, Exit
  <2> QED
    BY <2>1, <2>2, <2>3, <2>4, <2>5 DEF Next, Accepting, Serve, vars
<1>2. \/ client' = client /\ (main' = main \/ {main, main'} \cap {"push"} = {})
      \/ Push
      \/ \E c \in Conns : Accept(c)
  <2>1. ASSUME NEW w \in Workers, Dispatch(w) \/ Send(w) \/ Remove(w) \/ Erase(w) \/ Forget(w)
        PROVE  client' = client /\ main' = main
    BY <2>1 DEF Dispatch, Send, Remove, Erase, Forget
  <2>2. Enqueue => client' = client /\ main = "enqueue" /\ main' = "accept"
    BY DEF Enqueue
  <2> QED
    BY <2>1, <2>2, ListSteps DEF Still, Moved, listView
<1>3. ASSUME NEW c \in Conns, phase'[c] = "off" PROVE Fresh(c)' /\ c # client'
  <2>1. Fresh(c) /\ c # client
    BY <1>1, <1>3 DEF Newcomers
  <2>2. c \notin Listed'
    BY <2>1, ListedStep DEF Fresh
  <2>3. c # client'
    <3>1. ASSUME NEW d \in Conns, Accept(d) PROVE c # client'
      BY <1>3, <3>1 DEF Accept, TypeOK
    <3>2. Push => client' = NULL
      BY DEF Push
    <3> QED
      BY <1>2, <2>1, <3>1, <3>2, RoomAssumption
  <2> QED
    BY <2>1, <2>2, <2>3, FreshKept
<1>4. main' = "push" <=> client' # NULL
  <2>1. ASSUME NEW d \in Conns, Accept(d) PROVE main' = "push" <=> client' # NULL
    BY <2>1, RoomAssumption DEF Accept
  <2>2. Push => (main' = "push" <=> client' # NULL)
    BY DEF Push
  <2>3. main = "push" <=> client # NULL
    BY DEF Newcomers
  <2> QED
    BY <1>2, <2>1, <2>2, <2>3
<1>5. ASSUME NEW c \in Conns, client' = c PROVE Fresh(c)'
  <2>1. ~Push
    BY <1>5, RoomAssumption DEF Push
  <2>2. Fresh(c)
    <3>1. ASSUME NEW d \in Conns, Accept(d) PROVE c = d /\ phase[d] = "off"
      BY <1>5, <3>1 DEF Accept
    <3> QED
      BY <1>2, <1>5, <2>1, <3>1, RoomAssumption DEF Newcomers
  <2>3. c \notin Listed'
    BY <2>1, <2>2, ListedStep DEF Fresh
  <2> QED
    BY <2>2, <2>3, FreshKept
<1>6. client' # NULL => client' \in Conns
  BY DEF TypeOK
<1>7. client' # NULL => Fresh(client)'
  BY <1>5, <1>6 DEF Fresh, Listed, Queued
<1> QED
  BY <1>3, <1>4, <1>7 DEF Newcomers

\* Names are given back by the sessions that took them.
LEMMA NamesStep ==
    ASSUME TypeOK, TypeOK', Jobs, NamesAreLive, [Next]_vars
    PROVE  NamesAreLive'
<1> USE DEF serverVars, sharedVars, mainVars, localVars, frameVars, walkVars, listVars, nameVars, netVars, clientVars
<1> DEFINE Late == SessionPCs \ {"idle", "hello", "refuse", "count", "used", "insert"}
<1>1. \A n \in users : \E w \in Workers : pc[w] \in Late /\ user[w] = n
  BY DEF NamesAreLive, TypeOK
<1> SUFFICES ASSUME NEW n \in users'
             PROVE  \E w \in Workers : pc'[w] \in Late /\ user'[w] = n
  BY DEF NamesAreLive
<1> HIDE DEF Late
<1>2. ASSUME users' = users, user' = user, \A w \in Workers : pc[w] \in Late => pc'[w] \in Late
      PROVE  \E w \in Workers : pc'[w] \in Late /\ user'[w] = n
  BY <1>1, <1>2
<1>3. CASE UNCHANGED vars
  BY <1>2, <1>3 DEF vars
<1>4. ASSUME NEW c \in Conns, Client(c) PROVE \E w \in Workers : pc'[w] \in Late /\ user'[w] = n
  <2>1. UNCHANGED serverVars
    BY <1>4, ClientType
  <2> QED
    BY <1>2, <2>1
<1>5. CASE Accepting
  BY <1>2, <1>5 DEF Accepting, Accept, Push, Enqueue, AcceptFails, Exit
<1>6. ASSUME NEW w \in Workers, Insert(w) PROVE \E v \in Workers : pc'[v] \in Late /\ user'[v] = n
  <2>1. /\ users' = users \cup {nickname[w]} /\ user' = [user EXCEPT ![w] = nickname[w]]
        /\ pc[w] = "insert" /\ pc' = [pc EXCEPT ![w] = "announce"]
    BY <1>6 DEF Insert, Goto
  <2>2. "announce" \in Late /\ "insert" \notin Late
    BY DEF Late, SessionPCs
  <2>3. CASE n = nickname[w]
    BY <2>1, <2>2, <2>3 DEF TypeOK
  <2>4. CASE n \in users
    <3>1. PICK v \in Workers : pc[v] \in Late /\ user[v] = n
      BY <1>1, <2>4
    <3>2. v # w
      BY <2>1, <2>2, <3>1
    <3> QED
      BY <2>1, <3>1, <3>2 DEF TypeOK
  <2> QED
    BY <2>1, <2>3, <2>4
<1>7. ASSUME NEW w \in Workers, Forget(w) PROVE \E v \in Workers : pc'[v] \in Late /\ user'[v] = n
  <2>1. /\ users' = users \ {user[w]} /\ user' = [user EXCEPT ![w] = EmptyNick]
        /\ pc' = [pc EXCEPT ![w] = "idle"]
    BY <1>7 DEF Forget, Without, Goto
  <2>2. PICK v \in Workers : pc[v] \in Late /\ user[v] = n
    BY <1>1, <2>1
  <2>3. v # w
    BY <2>1, <2>2
  <2> QED
    BY <2>1, <2>2, <2>3 DEF TypeOK
<1>8. ASSUME NEW w \in Workers, NEW next, pc' = [pc EXCEPT ![w] = next], users' = users, user' = user,
             next \in Late \/ pc[w] \notin Late
      PROVE  \E v \in Workers : pc'[v] \in Late /\ user'[v] = n
  BY <1>2, <1>8 DEF TypeOK
<1>9. ASSUME NEW w \in Workers, RecvHello(w) \/ Refuse(w) \/ Count(w) \/ Used(w) \/ Announce(w)
      PROVE  \E v \in Workers : pc'[v] \in Late /\ user'[v] = n
  <2>1. pc[w] \notin Late \/ Announce(w)
    BY <1>9 DEF RecvHello, Refuse, Count, Used, Late
  <2>2. \E next \in {"refuse", "count", "remove", "used", "insert", "hello"} \cup {"send"} :
          pc' = [pc EXCEPT ![w] = next] /\ (Announce(w) => next = "send")
    BY <1>9 DEF RecvHello, Refuse, Count, Used, Announce, Answer, Broadcast, Goto
  <2>3. users' = users /\ user' = user
    BY <1>9 DEF RecvHello, Refuse, Count, Used, Announce
  <2>4. "send" \in Late
    BY DEF Late, SessionPCs, InList
  <2> QED
    BY <1>8, <2>1, <2>2, <2>3, <2>4
<1>10. ASSUME NEW w \in Workers, Greet(w) \/ RecvChat(w) \/ Pong(w) \/ Goodbye(w)
       PROVE  \E v \in Workers : pc'[v] \in Late /\ user'[v] = n
  <2>1. users' = users /\ user' = user
    BY <1>10 DEF Greet, RecvChat, Pong, Goodbye
  <2>2. PICK next : pc' = [pc EXCEPT ![w] = next] /\ next \in {"chat", "send", "pong", "goodbye"}
    <3>1. CASE RecvChat(w)
      <4>1. \/ pc' = pc /\ pc[w] = "chat"
            \/ pc' = [pc EXCEPT ![w] = "pong"]
            \/ pc' = [pc EXCEPT ![w] = "goodbye"]
            \/ pc' = [pc EXCEPT ![w] = "send"]
        BY <3>1 DEF RecvChat, Broadcast, Goto
      <4>2. pc' = pc => pc' = [pc EXCEPT ![w] = pc[w]]
        BY DEF TypeOK
      <4> QED
        BY <4>1, <4>2
    <3>2. CASE Greet(w) \/ Pong(w) \/ Goodbye(w)
      BY <3>2 DEF Greet, Pong, Goodbye, Answer, Broadcast, Goto
    <3> QED
      BY <1>10, <3>1, <3>2
  <2>3. next \in Late
    BY <2>2 DEF Late, SessionPCs, InList
  <2> QED
    BY <1>8, <2>1, <2>2, <2>3
<1>11. ASSUME NEW w \in Workers, Send(w) \/ Remove(w) \/ Erase(w)
       PROVE  \E v \in Workers : pc'[v] \in Late /\ user'[v] = n
  <2>1. users' = users /\ user' = user
    BY <1>11, EraseCases DEF Send, Remove
  <2>2. \E next \in {"greet", "chat", "remove", "erase", "forget"} :
          pc' = pc \/ pc' = [pc EXCEPT ![w] = next]
    <3>1. job[w].then \in {"greet", "chat", "remove"}
      BY DEF Jobs
    <3>2. CASE Send(w)
      BY <3>1, <3>2 DEF Send, Die, Advance, Restart, Goto
    <3>3. CASE Remove(w)
      BY <3>3 DEF Remove, Advance, Restart, Goto
    <3>4. CASE Erase(w)
      BY <3>4, EraseCases DEF Restart, Cut, Goto
    <3> QED
      BY <1>11, <3>2, <3>3, <3>4
  <2>3. {"greet", "chat", "remove", "erase", "forget"} \subseteq Late
    BY DEF Late, SessionPCs, InList
  <2> QED
    BY <1>2, <1>8, <2>1, <2>2, <2>3
<1>12. ASSUME NEW w \in Workers, Dispatch(w)
       PROVE  \E v \in Workers : pc'[v] \in Late /\ user'[v] = n
  <2>1. /\ users' = users /\ user' = user /\ pc[w] = "idle"
        /\ pc' = pc \/ pc' = [pc EXCEPT ![w] = "hello"]
    BY <1>12 DEF Dispatch, Goto
  <2>2. pc[w] \notin Late
    BY <2>1 DEF Late
  <2> QED
    BY <1>2, <1>8, <2>1, <2>2
<1>13. ASSUME NEW w \in Workers, Session(w) PROVE \E v \in Workers : pc'[v] \in Late /\ user'[v] = n
  BY <1>6, <1>7, <1>9, <1>10, <1>11, <1>13 DEF Session
<1> QED
  BY <1>3, <1>4, <1>5, <1>12, <1>13 DEF Next, Serve

LEMMA JobsStep ==
    ASSUME TypeOK, Jobs, [Next]_vars
    PROVE  Jobs'
<1> USE DEF serverVars, sharedVars, mainVars, localVars, frameVars, walkVars, listVars, nameVars, netVars, clientVars
<1>1. CASE job' = job
  BY <1>1 DEF Jobs
<1>2. ASSUME NEW w \in Workers, NEW k, NEW n, NEW next, job' = [job EXCEPT ![w] = [kind |-> k, n |-> n, then |-> next]],
             <<k, next>> \in {<<"HI", "greet">>, <<"TEXT", "chat">>, <<"LEFT", "remove">>}
      PROVE  Jobs'
  BY <1>2 DEF Jobs, TypeOK
<1>3. CASE UNCHANGED vars
  BY <1>1, <1>3 DEF vars
<1>4. ASSUME NEW c \in Conns, Client(c) PROVE Jobs'
  <2>1. UNCHANGED serverVars
    BY <1>4, ClientType
  <2> QED
    BY <1>1, <2>1
<1>5. CASE Accepting
  BY <1>1, <1>5 DEF Accepting, Accept, Push, Enqueue, AcceptFails, Exit
<1>6. ASSUME NEW w \in Workers, Announce(w) \/ Goodbye(w) \/ Forget(w) PROVE Jobs'
  BY <1>2, <1>6 DEF Announce, Goodbye, Forget, Broadcast, NoJob
<1>7. ASSUME NEW w \in Workers, RecvChat(w) PROVE Jobs'
  <2>1. job' = job \/ \E n : job' = [job EXCEPT ![w] = [kind |-> "TEXT", n |-> n, then |-> "chat"]]
    BY <1>7 DEF RecvChat, Broadcast
  <2> QED
    BY <1>1, <1>2, <2>1
<1>8. ASSUME NEW w \in Workers, \/ RecvHello(w) \/ Refuse(w) \/ Count(w) \/ Used(w) \/ Insert(w)
                                \/ Greet(w) \/ Pong(w) \/ Send(w) \/ Remove(w) \/ Erase(w) \/ Dispatch(w)
      PROVE  job' = job
  BY <1>8, EraseCases DEF RecvHello, Refuse, Count, Used, Insert, Greet, Pong, Send, Remove, Dispatch
<1>9. ASSUME NEW w \in Workers, Session(w) \/ Dispatch(w) PROVE Jobs'
  BY <1>1, <1>6, <1>7, <1>8, <1>9 DEF Session
<1> QED
  BY <1>3, <1>4, <1>5, <1>9 DEF Next, Serve

\* There are no more connections in the list than cells, and as many if they
\* differ.
LEMMA CellsSet ==
    ASSUME TypeOK
    PROVE  LET S == {cells[i] : i \in 1..Len(cells)} IN
           /\ IsFiniteSet(S)
           /\ Cardinality(S) <= Len(cells)
           /\ (\A i, j \in 1..Len(cells) : cells[i] = cells[j] => i = j) => Cardinality(S) = Len(cells)
<1> DEFINE S == {cells[i] : i \in 1..Len(cells)}
           f == [i \in 1..Len(cells) |-> cells[i]]
<1>1. Len(cells) \in Nat
  BY DEF TypeOK
<1>2. IsFiniteSet(1..Len(cells)) /\ Cardinality(1..Len(cells)) = Len(cells)
  <2>1. \A n \in Nat : IsFiniteSet(1..n) /\ Cardinality(1..n) = n
    <3> SUFFICES ASSUME NEW n \in Nat PROVE IsFiniteSet(1..n) /\ Cardinality(1..n) = n
      OBVIOUS
    <3>1. IsFiniteSet(1..n) /\ Cardinality(1..n) = IF 1 > n THEN 0 ELSE n - 1 + 1
      BY FS_Interval
    <3> QED
      BY <3>1
  <2> QED
    BY <1>1, <2>1
<1>3. f \in Surjection(1..Len(cells), S)
  BY DEF Surjection
<1>4. (\A i, j \in 1..Len(cells) : cells[i] = cells[j] => i = j) => f \in Injection(1..Len(cells), S)
  BY DEF Injection, IsInjective
<1> HIDE DEF S, f
<1>5. IsFiniteSet(S) /\ Cardinality(S) <= Cardinality(1..Len(cells))
      /\ (f \in Injection(1..Len(cells), S) => Cardinality(S) = Cardinality(1..Len(cells)))
  BY <1>2, <1>3, FS_Surjection
<1> QED
  BY <1>2, <1>4, <1>5 DEF S

LEMMA ListedSmall ==
    ASSUME TypeOK
    PROVE  /\ IsFiniteSet(Listed) /\ Cardinality(Listed) \in Nat
           /\ Cardinality(Listed) <= Len(cells) /\ Len(cells) \in Nat
<1> DEFINE S == {cells[i] : i \in 1..Len(cells)}
<1>1. IsFiniteSet(S) /\ Cardinality(S) <= Len(cells)
  BY CellsSet
<1>2. Listed \in SUBSET S
  BY DEF Listed
<1> HIDE DEF S
<1>3. IsFiniteSet(Listed) /\ Cardinality(Listed) <= Cardinality(S)
  BY <1>1, <1>2, FS_Subset
<1>4. Cardinality(Listed) \in Nat /\ Cardinality(S) \in Nat /\ Len(cells) \in Nat
  <2>1. Len(cells) \in Nat
    BY DEF TypeOK
  <2> QED
    BY <1>1, <1>3, <2>1, FS_CardinalityType
<1> QED
  BY <1>1, <1>3, <1>4

\* A session finds room only when there are few connections; from then on the
\* list can gain none that was admitted.
LEMMA AdmittedStep ==
    ASSUME TypeOK, TypeOK', Places, Jobs, Newcomers, [Next]_vars
    PROVE  /\ max_connections' = max_connections
           /\ \/ Admitted' \cap Listed' \subseteq Admitted \cap Listed
              \/ ~Full /\ cells' = cells
<1> USE DEF serverVars, sharedVars, mainVars, localVars, frameVars, walkVars, listVars, nameVars, netVars, clientVars
<1>1. CASE UNCHANGED <<max_connections, auth, conn, pc, cells>>
  BY <1>1 DEF Admitted, Listed
<1>2. CASE UNCHANGED vars
  BY <1>1, <1>2 DEF vars
<1>3. ASSUME NEW c \in Conns, Client(c) PROVE UNCHANGED <<max_connections, auth, conn, pc, cells>>
  <2>1. UNCHANGED serverVars
    BY <1>3, ClientType
  <2> QED
    BY <2>1
<1>4. CASE (\E c \in Conns : Accept(c)) \/ Enqueue \/ AcceptFails \/ Exit
  BY <1>1, <1>4 DEF Accept, Enqueue, AcceptFails, Exit
<1>5. CASE Push
  <2>1. UNCHANGED <<max_connections, auth, conn, pc>>
    BY <1>5 DEF Push
  <2>2. Admitted' = Admitted
    BY <2>1 DEF Admitted
  <2>3. Listed' \subseteq Listed \cup {client}
    BY ListedStep
  <2>4. client \notin Admitted
    BY <1>5, RoomAssumption DEF Push, Newcomers, Fresh, Admitted
  <2> QED
    BY <2>1, <2>2, <2>3, <2>4
<1> DEFINE Deciding == {"count", "insert", "announce"}
<1>6. ASSUME max_connections' = max_connections, ~Push,
             \A c \in auth' : c \in Admitted,
             \A w \in Workers : pc'[w] \in Deciding => pc[w] \in Deciding /\ conn'[w] = conn[w]
      PROVE  Admitted' \cap Listed' \subseteq Admitted \cap Listed
  <2>1. Admitted' \subseteq Admitted
    BY <1>6 DEF Admitted
  <2>2. Listed' \subseteq Listed
    BY <1>6, ListedStep
  <2> QED
    BY <2>1, <2>2
<1>7. ASSUME NEW w \in Workers, Session(w) \/ Dispatch(w) PROVE max_connections' = max_connections /\ ~Push
  <2>1. max_connections' = max_connections
    BY <1>7, EraseCases DEF Session, Dispatch, RecvHello, Refuse, Count, Used, Insert, Announce, Greet, RecvChat,
       Pong, Goodbye, Send, Remove, Forget
  <2>2. \/ main' = main
        \/ Refuse(w)
    BY <1>7, EraseCases DEF Session, Dispatch, RecvHello, Count, Used, Insert, Announce, Greet, RecvChat,
       Pong, Goodbye, Send, Remove, Forget
  <2>3. Refuse(w) => main' = main
    BY DEF Refuse
  <2>4. Push => main = "push" /\ main' = "enqueue"
    BY DEF Push
  <2> QED
    BY <2>1, <2>2, <2>3, <2>4
<1>8. \A c \in auth : c \in Admitted
  BY DEF Admitted
<1>9. ASSUME NEW w \in Workers, NEW next, pc' = [pc EXCEPT ![w] = next], conn' = conn,
             next \in Deciding => pc[w] \in Deciding
      PROVE  \A v \in Workers : pc'[v] \in Deciding => pc[v] \in Deciding /\ conn'[v] = conn[v]
  BY <1>9 DEF TypeOK
<1>10. ASSUME NEW w \in Workers, RecvHello(w), ~Full PROVE cells' = cells
  BY <1>10 DEF RecvHello
<1>11. ASSUME NEW w \in Workers, RecvHello(w), Full
       PROVE  Admitted' \cap Listed' \subseteq Admitted \cap Listed
  <2>1. pc' = [pc EXCEPT ![w] = "refuse"] /\ conn' = conn /\ auth' = auth
    BY <1>11 DEF RecvHello, Goto
  <2> QED
    BY <1>6, <1>7, <1>8, <1>9, <1>11, <2>1 DEF Session
<1>12. ASSUME NEW w \in Workers, Refuse(w) \/ Count(w) \/ Used(w) \/ Insert(w) \/ Greet(w) \/ Pong(w) \/ Goodbye(w)
       PROVE  Admitted' \cap Listed' \subseteq Admitted \cap Listed
  <2>1. conn' = conn /\ auth' = auth
    BY <1>12 DEF Refuse, Count, Used, Insert, Greet, Pong, Goodbye
  <2>2. \E next : pc' = [pc EXCEPT ![w] = next] /\ (next \in Deciding => pc[w] \in Deciding)
    BY <1>12 DEF Refuse, Count, Used, Insert, Greet, Pong, Goodbye, Answer, Broadcast, Goto
  <2>3. \A v \in Workers : pc'[v] \in Deciding => pc[v] \in Deciding /\ conn'[v] = conn[v]
    BY <1>9, <2>1, <2>2
  <2>4. \A c \in auth' : c \in Admitted
    BY <1>8, <2>1
  <2> QED
    BY <1>6, <1>7, <1>12, <2>3, <2>4 DEF Session
<1>13. ASSUME NEW w \in Workers, Announce(w)
       PROVE  Admitted' \cap Listed' \subseteq Admitted \cap Listed
  <2>1. pc[w] = "announce" /\ auth' = auth \cup {conn[w]} /\ conn' = conn /\ pc' = [pc EXCEPT ![w] = "send"]
    BY <1>13 DEF Announce, Broadcast, Goto
  <2>2. \A c \in auth' : c \in Admitted
    BY <2>1 DEF Admitted
  <2>3. \A v \in Workers : pc'[v] \in Deciding => pc[v] \in Deciding /\ conn'[v] = conn[v]
    BY <1>9, <2>1
  <2> QED
    BY <1>6, <1>7, <1>13, <2>2, <2>3 DEF Session
<1>14. ASSUME NEW w \in Workers, RecvChat(w) \/ Send(w) \/ Remove(w) \/ Erase(w)
       PROVE  Admitted' \cap Listed' \subseteq Admitted \cap Listed
  <2>1. conn' = conn /\ auth' = auth
    BY <1>14, EraseCases DEF RecvChat, Send, Remove
  <2>2. \E next \in {"pong", "goodbye", "send", "greet", "chat", "remove", "erase", "forget"} :
          pc' = pc \/ pc' = [pc EXCEPT ![w] = next]
    <3>1. job[w].then \in {"greet", "chat", "remove"}
      BY DEF Jobs
    <3>2. CASE Send(w)
      BY <3>1, <3>2 DEF Send, Die, Advance, Restart, Goto
    <3>3. CASE Remove(w)
      BY <3>3 DEF Remove, Advance, Restart, Goto
    <3>4. CASE Erase(w)
      BY <3>4, EraseCases DEF Restart, Cut, Goto
    <3>5. CASE RecvChat(w)
      BY <3>5 DEF RecvChat, Broadcast, Goto
    <3> QED
      BY <1>14, <3>2, <3>3, <3>4, <3>5
  <2>3. \A v \in Workers : pc'[v] \in Deciding => pc[v] \in Deciding /\ conn'[v] = conn[v]
    <3>1. CASE pc' = pc
      BY <2>1, <3>1
    <3> QED
      BY <1>9, <2>1, <2>2, <3>1
  <2> QED
    BY <1>6, <1>7, <1>8, <1>14, <2>1, <2>3 DEF Session
<1>15. ASSUME NEW w \in Workers, Forget(w) \/ Dispatch(w)
       PROVE  Admitted' \cap Listed' \subseteq Admitted \cap Listed
  <2>1. \E next \in {"idle", "hello"} : pc' = pc \/ pc' = [pc EXCEPT ![w] = next]
    BY <1>15 DEF Forget, Dispatch, Goto
  <2>2. pc[w] \notin Deciding /\ auth' = auth /\ \A v \in Workers \ {w} : conn'[v] = conn[v]
    BY <1>15 DEF Forget, Dispatch, TypeOK
  <2>3. \A v \in Workers : pc'[v] \in Deciding => pc[v] \in Deciding /\ conn'[v] = conn[v]
    BY <2>1, <2>2 DEF TypeOK
  <2> QED
    BY <1>6, <1>7, <1>8, <1>15, <2>2, <2>3 DEF Session
<1>16. ASSUME NEW w \in Workers, Session(w) \/ Dispatch(w)
       PROVE  /\ max_connections' = max_connections
              /\ \/ Admitted' \cap Listed' \subseteq Admitted \cap Listed
                 \/ ~Full /\ cells' = cells
  BY <1>7, <1>10, <1>11, <1>12, <1>13, <1>14, <1>15, <1>16 DEF Session
<1> QED
  BY <1>1, <1>2, <1>3, <1>4, <1>5, <1>16 DEF Next, Accepting, Serve

LEMMA BoundedStep ==
    ASSUME TypeOK, TypeOK', Places, Jobs, Newcomers, Bounded, [Next]_vars
    PROVE  Bounded'
<1>1. max_connections' = max_connections /\ max_connections \in Nat
  BY AdmittedStep, RoomAssumption DEF TypeOK
<1>2. IsFiniteSet(Listed) /\ Cardinality(Listed) \in Nat
      /\ Cardinality(Listed) <= Len(cells) /\ Len(cells) \in Nat
  BY ListedSmall
<1>3. CASE Admitted' \cap Listed' \subseteq Admitted \cap Listed
  <2>1. IsFiniteSet(Admitted \cap Listed)
    BY <1>2, FS_Subset
  <2> DEFINE A == Admitted \cap Listed
             B == Admitted' \cap Listed'
  <2>2. IsFiniteSet(A) /\ B \in SUBSET A
    BY <1>3, <2>1
  <2> HIDE DEF A, B
  <2>3. IsFiniteSet(B) /\ Cardinality(B) <= Cardinality(A)
    BY <2>2, FS_Subset
  <2>4. Cardinality(A) \in Nat /\ Cardinality(B) \in Nat
    BY <2>2, <2>3, FS_CardinalityType
  <2>5. Cardinality(A) <= max_connections
    BY DEF Bounded, A
  <2>6. Cardinality(B) <= max_connections
    BY <1>1, <2>3, <2>4, <2>5
  <2> QED
    BY <1>1, <2>6 DEF Bounded, B
<1>4. CASE ~Full /\ cells' = cells
  <2>1. Listed' = Listed
    BY <1>4 DEF Listed
  <2> DEFINE B == Admitted' \cap Listed
  <2>2. B \in SUBSET Listed
    OBVIOUS
  <2> HIDE DEF B
  <2>3. IsFiniteSet(B) /\ Cardinality(B) <= Cardinality(Listed)
    BY <1>2, <2>2, FS_Subset
  <2>4. Cardinality(B) \in Nat
    BY <2>3, FS_CardinalityType
  <2>5. Len(cells) <= max_connections
    BY <1>1, <1>2, <1>4 DEF Full
  <2>6. Cardinality(B) <= max_connections
    BY <1>1, <1>2, <2>3, <2>4, <2>5
  <2> QED
    BY <1>1, <2>1, <2>6 DEF Bounded, B
<1> QED
  BY <1>3, <1>4, AdmittedStep

-----------------------------------------------------------------------------
(* The list as long as no two threads were in it at once. *)

LEMMA ChangingIs ==
    /\ Changing(NULL) = Changers
    /\ \A w \in Workers : Changing(w) = Changers \ {w}
BY RoomAssumption DEF Changing, Walking, Changers, InList

\* No thread enters the list while another one changes it.
LEMMA Alone ==
    ASSUME TypeOK, Places, ~raced'
    PROVE  /\ Push => ~raced /\ Changers = {} /\ cells' = Append(cells, client)
           /\ Enqueue => ~raced /\ Changers = {}
           /\ \A w \in Workers :
                /\ ReadsList(w) => ~raced /\ Changers \subseteq {w}
                /\ WritesList(w) =>
                    /\ ~raced /\ Changers \subseteq {w}
                    /\ \A v \in Workers \ {w} : pc[v] \notin InList
                    /\ main \notin {"push", "enqueue"}
<1>1. ASSUME ReadsList(NULL) PROVE ~raced /\ Changers = {}
  BY <1>1, ChangingIs DEF ReadsList
<1>2. ASSUME Push PROVE ~raced /\ Changers = {} /\ cells' = Append(cells, client)
  <2>1. ~raced /\ Changers = {}
    BY <1>1, <1>2 DEF Push
  <2>2. Cutting(NULL) = {}
    BY <2>1, ChangingIs DEF Cutting
  <2> QED
    BY <1>2, <2>1, <2>2 DEF Push
<1>3. Enqueue => ~raced /\ Changers = {}
  BY <1>1 DEF Enqueue
<1>4. ASSUME NEW w \in Workers, ReadsList(w) PROVE ~raced /\ Changers \subseteq {w}
  BY <1>4, ChangingIs DEF ReadsList
<1>5. ASSUME NEW w \in Workers, WritesList(w)
      PROVE  /\ ~raced /\ Changers \subseteq {w}
             /\ \A v \in Workers \ {w} : pc[v] \notin InList
             /\ main \notin {"push", "enqueue"}
  BY <1>5 DEF WritesList, Walking, Changers, InList
<1> QED
  BY <1>2, <1>3, <1>4, <1>5

\* A step that leaves the cells and the queue alone, and nobody served or freed.
LEMMA SameList ==
    ASSUME Orderly, cells' = cells, queue' = queue, conn' = conn, dst' = dst,
           Changers' = Changers, Busy' = Busy, main' = "enqueue" <=> main = "enqueue"
    PROVE  /\ Cells' /\ OnePlace' /\ Members'
           /\ \A v, w \in Changers' : v = w
           /\ \A w \in Changers' : conn'[w] \notin Present'
<1>1. Gaps' = Gaps /\ Queued' = Queued /\ Last' = Last
  BY DEF Gaps, Queued, Last
<1>2. Present' = Present /\ Pushed' = Pushed
  BY <1>1 DEF Present, Pushed
<1> QED
  BY <1>1, <1>2 DEF Orderly, Cells, OnePlace, Members, Removals

LEMMA StillOrderly ==
    ASSUME Orderly, Still \/ \E c \in Conns : Accept(c)
    PROVE  Orderly'
<1>1. /\ UNCHANGED <<cells, queue, conn, dst, pos, pc>>
      /\ main' = "enqueue" <=> main = "enqueue"
  BY DEF Still, listView, Accept, localVars, frameVars, walkVars, listVars
<1>2. Changers' = Changers /\ Busy' = Busy
  BY <1>1 DEF Changers, Busy
<1>3. /\ Cells' /\ OnePlace' /\ Members'
      /\ \A v, w \in Changers' : v = w
      /\ \A w \in Changers' : conn'[w] \notin Present'
  BY <1>1, <1>2, SameList
<1> QED
  BY <1>1, <1>3 DEF Orderly, Removals

LEMMA MovedOrderly ==
    ASSUME TypeOK, Places, Orderly, NEW w \in Workers, NEW next \in SessionPCs, Moved(w, next)
    PROVE  Orderly'
<1>1. /\ UNCHANGED <<cells, queue, conn, dst, pos, main>>
      /\ pc' = [pc EXCEPT ![w] = next]
      /\ pc[w] \in Greeting \cup Inside
      /\ next \in Greeting \cup Inside \cup {"send", "remove"}
  BY DEF Moved, listView
<1>2. dst[w] = 0 /\ pos[w] = 1
  BY <1>1 DEF Places, Greeting, Inside, InList
<1>3. pc'[w] = next /\ \A v \in Workers \ {w} : pc'[v] = pc[v]
  BY <1>1 DEF TypeOK
<1>4. Changers' = Changers
  BY <1>1, <1>2, <1>3 DEF Changers
<1>5. Busy' = Busy
  BY <1>1, <1>3 DEF Busy, Greeting, Inside
<1>6. /\ Cells' /\ OnePlace' /\ Members'
      /\ \A v, u \in Changers' : v = u
      /\ \A v \in Changers' : conn'[v] \notin Present'
  BY <1>1, <1>4, <1>5, SameList
<1>7. ASSUME NEW v \in Workers
      PROVE  /\ pc'[v] \in InList => pos'[v] # 0
             /\ pc'[v] = "remove" /\ dst'[v] # 0 => pos'[v] = dst'[v] + 1
             /\ pc'[v] = "remove" /\ dst'[v] = 0 => \A i \in 1..Len(cells') : i < pos'[v] => cells'[i] # conn'[v]
             /\ pc'[v] = "erase" => dst'[v] # 0 /\ dst'[v] = Len(cells')
  <2>1. CASE v = w
    <3>1. \A i \in 1..Len(cells) : ~(i < 1)
      BY DEF TypeOK
    <3> QED
      BY <1>1, <1>2, <1>3, <2>1, <3>1 DEF Greeting, Inside
  <2>2. CASE v # w
    BY <1>1, <1>3, <2>2 DEF Orderly, Removals
  <2> QED
    BY <2>1, <2>2
<1> QED
  BY <1>6, <1>7 DEF Orderly, Removals

LEMMA SendOrderly ==
    ASSUME TypeOK, Places, Jobs, Orderly, NEW w \in Workers, Send(w), ~raced'
    PROVE  Orderly'
<1>1. /\ UNCHANGED <<cells, queue, conn, dst, main>>
      /\ pc[w] = "send"
      /\ job[w].then \in {"greet", "chat", "remove"}
      /\ Changers \subseteq {w}
  BY Alone DEF Send, frameVars, mainVars, Jobs
<1>2. dst[w] = 0 /\ pos[w] # 0
  BY <1>1 DEF Orderly, Places, Removals, InList
<1>3. /\ \A v \in Workers \ {w} : pc'[v] = pc[v] /\ pos'[v] = pos[v]
      /\ \/ pc'[w] = "send" /\ pos'[w] # 0
         \/ pc'[w] \in {"greet", "chat", "remove"} /\ pos'[w] = 1
  <2>1. \/ pc' = pc /\ pos' = pos
        \/ Advance(w, job[w].then)
    BY <1>2 DEF Send, Die
  <2>2. job[w].then \in SessionPCs
    BY DEF TypeOK
  <2>3. CASE Advance(w, job[w].then)
    <3>1. pos[w] + 1 # 0
      BY DEF TypeOK
    <3> QED
      BY <1>1, <2>2, <2>3, <3>1, AdvanceFacts
  <2> QED
    BY <1>1, <1>2, <2>1, <2>3
<1>4. Changers' = Changers
  BY <1>1, <1>2, <1>3 DEF Changers
<1>5. Busy' = Busy
  BY <1>1, <1>3 DEF Busy
<1>6. /\ Cells' /\ OnePlace' /\ Members'
      /\ \A v, u \in Changers' : v = u
      /\ \A v \in Changers' : conn'[v] \notin Present'
  BY <1>1, <1>4, <1>5, SameList
<1>7. ASSUME NEW v \in Workers
      PROVE  /\ pc'[v] \in InList => pos'[v] # 0
             /\ pc'[v] = "remove" /\ dst'[v] # 0 => pos'[v] = dst'[v] + 1
             /\ pc'[v] = "remove" /\ dst'[v] = 0 => \A i \in 1..Len(cells') : i < pos'[v] => cells'[i] # conn'[v]
             /\ pc'[v] = "erase" => dst'[v] # 0 /\ dst'[v] = Len(cells')
  <2>1. CASE v = w
    <3>1. \A i \in 1..Len(cells) : ~(i < 1)
      BY DEF TypeOK
    <3> QED
      BY <1>1, <1>2, <1>3, <2>1, <3>1
  <2>2. CASE v # w
    BY <1>1, <1>3, <2>2 DEF Orderly, Removals
  <2> QED
    BY <2>1, <2>2
<1> QED
  BY <1>6, <1>7 DEF Orderly, Removals

\* The new connection becomes the last cell.
LEMMA PushOrderly ==
    ASSUME TypeOK, Places, Newcomers, Orderly, Push, ~raced'
    PROVE  Orderly'
<1>1. /\ UNCHANGED <<queue, conn, dst, pos, pc>>
      /\ main = "push" /\ main' = "enqueue"
      /\ Changers = {} /\ cells' = Append(cells, client)
  BY Alone DEF Push, localVars, frameVars, walkVars
<1>2. /\ client # NULL /\ client \notin Queued
      /\ \A i \in 1..Len(cells) : cells[i] # client
      /\ \A w \in Workers : conn[w] # client
  BY <1>1, RoomAssumption DEF Newcomers, Fresh, Listed
<1>3. /\ Len(cells') = Len(cells) + 1 /\ Len(cells) \in Nat
      /\ cells'[Len(cells')] = client
      /\ \A i \in 1..Len(cells) : cells'[i] = cells[i]
      /\ \A i \in 1..Len(cells') : i \in 1..Len(cells) \/ i = Len(cells')
      /\ \A i \in 1..Len(cells) : i \in 1..Len(cells')
      /\ Len(cells') \in 1..Len(cells')
  <2> DEFINE S == Conns \cup {NULL}
  <2>1. cells \in Seq(S) /\ client \in S
    BY DEF TypeOK
  <2> HIDE DEF S
  <2> QED
    BY <1>1, <2>1, AppendFacts
<1>4. /\ Changers' = {} /\ Gaps = {} /\ Gaps' = {} /\ Queued' = Queued /\ Busy' = Busy
      /\ Pushed = {} /\ Pushed' = {client}
  BY <1>1, <1>3 DEF Changers, Gaps, Queued, Busy, Pushed, Last
<1>5. Present' = Present \cup {client}
  BY <1>3, <1>4 DEF Present
<1>6. Cells'
  BY <1>2, <1>3, <1>4 DEF Orderly, Cells
<1>7. OnePlace'
  <2>1. Last' = client /\ cells' # <<>>
    BY <1>1, <1>3 DEF Last
  <2> QED
    BY <1>1, <1>2, <1>4, <2>1 DEF Orderly, OnePlace, Busy
<1>8. Members'
  BY <1>1, <1>4, <1>5 DEF Orderly, Members
<1>9. ASSUME NEW v \in Workers
      PROVE  /\ pc'[v] \in InList => pos'[v] # 0
             /\ pc'[v] = "remove" /\ dst'[v] # 0 => pos'[v] = dst'[v] + 1
             /\ pc'[v] = "remove" /\ dst'[v] = 0 => \A i \in 1..Len(cells') : i < pos'[v] => cells'[i] # conn'[v]
             /\ pc'[v] = "erase" => dst'[v] # 0 /\ dst'[v] = Len(cells')
  BY <1>1, <1>2, <1>3 DEF Orderly, Removals, Changers
<1> QED
  BY <1>4, <1>6, <1>7, <1>8, <1>9 DEF Orderly, Removals

\* It goes from the end of the list to the queue.
LEMMA EnqueueOrderly ==
    ASSUME TypeOK, Places, Orderly, Enqueue, ~raced'
    PROVE  Orderly'
<1>1. /\ UNCHANGED <<cells, conn, dst, pos, pc>>
      /\ main = "enqueue" /\ main' = "accept"
      /\ Changers = {}
      /\ cells # <<>> /\ queue' = Append(queue, Last)
  BY Alone DEF Enqueue, localVars, frameVars, walkVars, Orderly, OnePlace
<1>2. Last # NULL /\ Last \notin Queued /\ \A w \in Busy : conn[w] # Last
  BY <1>1 DEF Orderly, OnePlace
<1>3. /\ Len(queue') = Len(queue) + 1 /\ Len(queue) \in Nat
      /\ queue'[Len(queue')] = Last
      /\ \A i \in 1..Len(queue) : queue'[i] = queue[i] /\ i \in 1..Len(queue')
      /\ \A i \in 1..Len(queue') : i \in 1..Len(queue) \/ i = Len(queue')
      /\ Len(queue') \in 1..Len(queue')
  <2> DEFINE S == Conns \cup {NULL}
  <2>1. queue \in Seq(S) /\ Last \in S
    BY <1>1 DEF TypeOK, Last
  <2> HIDE DEF S
  <2> QED
    BY <1>1, <2>1, AppendFacts
<1>4. Changers' = Changers /\ Gaps' = Gaps /\ Busy' = Busy /\ Pushed = {Last} /\ Pushed' = {}
  BY <1>1 DEF Changers, Gaps, Busy, Pushed
<1>5. Present' = Present /\ Queued' = Queued \cup {Last}
  BY <1>1, <1>3, <1>4 DEF Present, Queued
<1>6. Cells'
  BY <1>1, <1>4 DEF Orderly, Cells
<1>7. OnePlace'
  <2>1. \A i \in 1..Len(queue) : queue[i] \in Queued
    BY DEF Queued
  <2>2. \A i \in 1..Len(queue') : queue'[i] # NULL
    BY <1>2, <1>3 DEF Orderly, OnePlace
  <2>3. \A i, j \in 1..Len(queue') : queue'[i] = queue'[j] => i = j
    BY <1>2, <1>3, <2>1 DEF Orderly, OnePlace
  <2> QED
    BY <1>1, <1>2, <1>4, <1>5, <2>2, <2>3 DEF Orderly, OnePlace
<1>8. Members'
  BY <1>1, <1>4, <1>5 DEF Orderly, Members
<1> QED
  BY <1>1, <1>4, <1>5, <1>6, <1>7, <1>8 DEF Orderly, Removals

\* And from the queue to a session.
LEMMA DispatchOrderly ==
    ASSUME TypeOK, Places, Orderly, NEW w \in Workers, Dispatch(w)
    PROVE  Orderly'
<1>1. /\ UNCHANGED <<cells, dst, pos, main>>
      /\ pc[w] = "idle" /\ queue # <<>> /\ queue' = Tail(queue)
      /\ conn' = [conn EXCEPT ![w] = Head(queue)]
      /\ Head(queue) = NULL \/ pc' = [pc EXCEPT ![w] = "hello"]
  BY DEF Dispatch, Goto, listVars, walkVars
<1>2. /\ Head(queue) = queue[1] /\ 1 \in 1..Len(queue)
      /\ \A i \in 1..Len(queue') : queue'[i] = queue[i + 1] /\ i + 1 \in 1..Len(queue) /\ i + 1 # 1
      /\ \A i \in 1..Len(queue) : i = 1 \/ (i - 1 \in 1..Len(queue') /\ queue'[i - 1] = queue[i])
  <2> DEFINE S == Conns \cup {NULL}
  <2>1. queue \in Seq(S)
    BY DEF TypeOK
  <2> HIDE DEF S
  <2>2. Len(queue) \in Nat /\ Len(queue) # 0 /\ Len(queue') = Len(queue) - 1 /\ Head(queue) = queue[1]
        /\ \A i \in 1..Len(queue') : queue'[i] = queue[i + 1]
    BY <1>1, <2>1
  <2> HIDE <1>1
  <2>3. \A n \in Nat \ {0} : 1 \in 1..n
        /\ (\A i \in 1..(n - 1) : i + 1 \in 1..n /\ i + 1 # 1)
        /\ (\A i \in 1..n : i = 1 \/ (i - 1 \in 1..(n - 1) /\ (i - 1) + 1 = i))
    OBVIOUS
  <2> QED
    BY <2>2, <2>3
<1>3. Head(queue) # NULL /\ Head(queue) \in Queued
  BY <1>2 DEF Orderly, OnePlace, Queued
<1>4. /\ pc'[w] = "hello" /\ conn'[w] = Head(queue)
      /\ \A v \in Workers \ {w} : pc'[v] = pc[v] /\ conn'[v] = conn[v]
  BY <1>1, <1>3 DEF TypeOK
<1>5. Changers' = Changers /\ w \notin Changers
  BY <1>1, <1>4 DEF Changers
<1>6. Gaps' = Gaps /\ Pushed' = Pushed /\ Last' = Last
  BY <1>1, <1>5 DEF Gaps, Pushed, Last
<1>7. Present' = Present /\ Busy' = Busy \cup {w} /\ w \notin Busy
  BY <1>1, <1>4, <1>6 DEF Present, Busy
<1>8. Queued = Queued' \cup {Head(queue)} /\ Head(queue) \notin Queued'
  <2>1. \A i \in 1..Len(queue') : queue'[i] # Head(queue)
    BY <1>2 DEF Orderly, OnePlace
  <2>2. \A i \in 1..Len(queue') : queue'[i] \in Queued
    BY <1>2 DEF Queued
  <2>3. \A i \in 1..Len(queue) : queue[i] \in Queued' \/ queue[i] = Head(queue)
    BY <1>2 DEF Queued
  <2> QED
    BY <1>3, <2>1, <2>2, <2>3 DEF Queued
<1>9. Cells'
  BY <1>1, <1>6 DEF Orderly, Cells
<1>10. OnePlace'
  <2>1. \A i \in 1..Len(queue') : queue'[i] # NULL
    BY <1>2 DEF Orderly, OnePlace
  <2>2. \A i, j \in 1..Len(queue') : queue'[i] = queue'[j] => i = j
    <3>1. ASSUME NEW i \in 1..Len(queue'), NEW j \in 1..Len(queue'), queue'[i] = queue'[j]
          PROVE  i + 1 = j + 1
      BY <1>2, <3>1 DEF Orderly, OnePlace
    <3>2. \A i, j \in Int : i + 1 = j + 1 => i = j
      OBVIOUS
    <3> QED
      BY <3>1, <3>2
  <2>3. \A v, u \in Busy' : conn'[v] = conn'[u] => v = u
    BY <1>3, <1>4, <1>7 DEF Orderly, OnePlace, Busy
  <2>4. \A v \in Busy' : conn'[v] \notin Queued'
    BY <1>4, <1>7, <1>8 DEF Orderly, OnePlace, Busy
  <2>5. main' = "enqueue" =>
          /\ cells' # <<>> /\ Last' # NULL
          /\ Last' \notin Queued'
          /\ \A v \in Busy' : conn'[v] # Last'
    BY <1>1, <1>3, <1>4, <1>6, <1>7, <1>8 DEF Orderly, OnePlace, Busy
  <2> QED
    BY <2>1, <2>2, <2>3, <2>4, <2>5 DEF OnePlace
<1>11. Members'
  <2>1. {conn'[v] : v \in Changers'} = {conn[v] : v \in Changers}
    BY <1>4, <1>5 DEF Changers
  <2>2. {conn'[v] : v \in Busy'} = {conn[v] : v \in Busy} \cup {Head(queue)}
    BY <1>4, <1>7 DEF Busy
  <2> QED
    BY <1>6, <1>7, <1>8, <2>1, <2>2 DEF Orderly, Members
<1>12. \A v \in Changers' : conn'[v] \notin Present'
  BY <1>4, <1>5, <1>7 DEF Orderly, Removals, Changers
<1>13. ASSUME NEW v \in Workers
      PROVE  /\ pc'[v] \in InList => pos'[v] # 0
             /\ pc'[v] = "remove" /\ dst'[v] # 0 => pos'[v] = dst'[v] + 1
             /\ pc'[v] = "remove" /\ dst'[v] = 0 => \A i \in 1..Len(cells') : i < pos'[v] => cells'[i] # conn'[v]
             /\ pc'[v] = "erase" => dst'[v] # 0 /\ dst'[v] = Len(cells')
  BY <1>1, <1>4 DEF Orderly, Removals, InList
<1> QED
  BY <1>5, <1>9, <1>10, <1>11, <1>12, <1>13 DEF Orderly, Removals

\* A session that wants to leave the list is in it.
LEMMA OwnCell ==
    ASSUME Orderly, NEW w \in Busy, w \notin Changers
    PROVE  \E i \in (1..Len(cells)) \ Gaps : cells[i] = conn[w]
<1>1. conn[w] \in Present \cup {conn[v] : v \in Changers}
  BY DEF Orderly, Members
<1>2. Changers \subseteq Busy
  BY DEF Changers, Busy
<1>3. conn[w] \notin {conn[v] : v \in Changers}
  BY <1>2 DEF Orderly, OnePlace
<1> QED
  BY <1>1, <1>3 DEF Present

\* std::remove looks for the connection, ...
LEMMA FindOrderly ==
    ASSUME TypeOK, Places, Orderly, NEW w \in Workers, Remove(w), dst[w] = 0, ~raced'
    PROVE  Orderly'
<1>1. pc[w] = "remove" /\ pos[w] # 0 /\ w \in Busy /\ w \notin Changers
  BY DEF Remove, Orderly, Removals, InList, Busy, Changers
<1>2. PICK k \in (1..Len(cells)) \ Gaps : cells[k] = conn[w]
  BY <1>1, OwnCell
<1>3. cells # <<>> /\ Len(cells) \in Nat
  BY <1>2 DEF TypeOK
<1>4. /\ UNCHANGED <<queue, conn, main, cells>>
      /\ Advance(w, "erase")
      /\ dst' = [dst EXCEPT ![w] = IF cells[pos[w]] = conn[w] THEN pos[w] ELSE 0]
      /\ ReadsList(w)
  BY <1>1, <1>3 DEF Remove, mainVars, frameVars
<1>5. Changers = {} /\ Gaps = {}
  BY <1>1, <1>4, Alone DEF Gaps
<1>6. pos[w] \in 1..Len(cells) /\ pos[w] \in Nat
  BY <1>1, <1>3, AtCell DEF TypeOK
<1>7. /\ \A v \in Workers \ {w} : pc'[v] = pc[v] /\ pos'[v] = pos[v] /\ dst'[v] = dst[v]
      /\ \/ pos[w] < Len(cells) /\ pos'[w] = pos[w] + 1 /\ pc'[w] = "remove"
         \/ ~(pos[w] < Len(cells)) /\ pos'[w] = 1 /\ pc'[w] = "erase"
      /\ dst'[w] = IF cells[pos[w]] = conn[w] THEN pos[w] ELSE 0
  <2>1. "erase" \in SessionPCs
    BY DEF SessionPCs, InList
  <2>2. /\ \A v \in Workers \ {w} : pc'[v] = pc[v] /\ pos'[v] = pos[v]
        /\ \/ pos[w] < Len(cells) /\ pos'[w] = pos[w] + 1 /\ pc'[w] = "remove"
           \/ ~(pos[w] < Len(cells)) /\ pos'[w] = 1 /\ pc'[w] = "erase"
    BY <1>1, <1>4, <2>1, AdvanceFacts
  <2>3. /\ \A v \in Workers \ {w} : dst'[v] = dst[v]
        /\ dst'[w] = IF cells[pos[w]] = conn[w] THEN pos[w] ELSE 0
    BY <1>4 DEF TypeOK
  <2> QED
    BY <2>2, <2>3
<1>8. Busy' = Busy
  BY <1>1, <1>7 DEF Busy
<1>9. \A v \in Workers \ {w} :
        /\ pc[v] # "erase"
        /\ pc[v] = "remove" => dst[v] = 0
  BY <1>5 DEF Changers, Orderly, Removals
<1>10. CASE cells[pos[w]] = conn[w]
  <2>1. Changers' = {w} /\ dst'[w] = pos[w]
    BY <1>5, <1>6, <1>7, <1>9, <1>10 DEF Changers
  <2>2. Gaps' = {pos[w]}
    BY <2>1 DEF Gaps
  <2>3. \A i, j \in 1..Len(cells) : cells[i] = cells[j] => i = j
    BY <1>5 DEF Orderly, Cells
  <2>4. Present = Present' \cup {conn[w]} /\ conn[w] \notin Present'
    BY <1>4, <1>5, <1>6, <1>10, <2>2, <2>3 DEF Present
  <2>5. Queued' = Queued /\ Pushed' = Pushed /\ Last' = Last
    BY <1>4 DEF Queued, Pushed, Last
  <2>6. Cells'
    BY <1>4, <1>5, <2>2 DEF Orderly, Cells
  <2>7. OnePlace'
    BY <1>4, <1>8, <2>5 DEF Orderly, OnePlace
  <2>8. Members'
    BY <1>4, <1>5, <1>8, <2>1, <2>4, <2>5 DEF Orderly, Members
  <2>9. pos'[w] # 0 /\ (pc'[w] = "remove" => pos'[w] = dst'[w] + 1)
        /\ (pc'[w] = "erase" => dst'[w] # 0 /\ dst'[w] = Len(cells'))
    BY <1>3, <1>4, <1>6, <1>7, <2>1
  <2>10. ASSUME NEW v \in Workers
         PROVE  /\ pc'[v] \in InList => pos'[v] # 0
                /\ pc'[v] = "remove" /\ dst'[v] # 0 => pos'[v] = dst'[v] + 1
                /\ pc'[v] = "remove" /\ dst'[v] = 0 => \A i \in 1..Len(cells') : i < pos'[v] => cells'[i] # conn'[v]
                /\ pc'[v] = "erase" => dst'[v] # 0 /\ dst'[v] = Len(cells')
    <3>1. CASE v = w
      BY <1>6, <2>1, <2>9, <3>1
    <3>2. CASE v # w
      BY <1>4, <1>7, <3>2 DEF Orderly, Removals
    <3> QED
      BY <3>1, <3>2
  <2> QED
    BY <1>4, <2>1, <2>4, <2>6, <2>7, <2>8, <2>10 DEF Orderly, Removals
<1>11. CASE cells[pos[w]] # conn[w]
  <2>1. dst'[w] = 0 /\ dst' = dst
    BY <1>4, <1>7, <1>11 DEF TypeOK
  <2>2. Changers' = {}
    BY <1>7, <1>9, <2>1 DEF Changers
  <2>3. \A i \in 1..Len(cells) : i < pos[w] \/ i = pos[w] => cells[i] # conn[w]
    BY <1>1, <1>11 DEF Orderly, Removals
  <2>4. k \in Nat /\ ~(k < pos[w]) /\ k # pos[w] /\ k <= Len(cells)
    BY <1>2, <2>3
  <2>5. pos[w] < Len(cells)
    BY <1>3, <1>6, <2>4
  <2>6. pos'[w] = pos[w] + 1 /\ pc'[w] = "remove"
    BY <1>7, <2>5
  <2>7. /\ Cells' /\ OnePlace' /\ Members'
        /\ \A v, u \in Changers' : v = u
        /\ \A v \in Changers' : conn'[v] \notin Present'
    BY <1>4, <1>5, <1>8, <2>1, <2>2, SameList
  <2>8. pos'[w] # 0 /\ \A i \in 1..Len(cells) : i < pos'[w] => i < pos[w] \/ i = pos[w]
    BY <1>6, <2>6
  <2>9. ASSUME NEW v \in Workers
         PROVE  /\ pc'[v] \in InList => pos'[v] # 0
                /\ pc'[v] = "remove" /\ dst'[v] # 0 => pos'[v] = dst'[v] + 1
                /\ pc'[v] = "remove" /\ dst'[v] = 0 => \A i \in 1..Len(cells') : i < pos'[v] => cells'[i] # conn'[v]
                /\ pc'[v] = "erase" => dst'[v] # 0 /\ dst'[v] = Len(cells')
    <3>1. CASE v = w
      BY <1>4, <2>1, <2>3, <2>6, <2>8, <3>1
    <3>2. CASE v # w
      BY <1>4, <1>7, <3>2 DEF Orderly, Removals
    <3> QED
      BY <3>1, <3>2
  <2> QED
    BY <2>7, <2>9 DEF Orderly, Removals
<1> QED
  BY <1>10, <1>11

\* ... moves each cell behind it by one, ...
LEMMA MoveOrderly ==
    ASSUME TypeOK, Places, Orderly, NEW w \in Workers, Remove(w), dst[w] # 0, ~raced'
    PROVE  Orderly'
<1> DEFINE p == pos[w]
           d == dst[w]
<1>1. pc[w] = "remove" /\ p # 0 /\ w \in Changers /\ p = d + 1
  BY DEF Remove, Orderly, Removals, InList, Changers
<1>2. Changers = {w} /\ Gaps = {d}
  BY <1>1 DEF Orderly, Removals, Gaps
<1>3. d \in Nat /\ Len(cells) \in Nat /\ d # 0 /\ p <= Len(cells)
  BY <1>1 DEF TypeOK, Places
<1>4. p \in 1..Len(cells) /\ d \in 1..Len(cells) /\ p # d /\ p \in Nat
  BY <1>1, <1>3
<1>5. cells # <<>>
  BY <1>4 DEF TypeOK
<1>6. cells[p] # conn[w]
  BY <1>1, <1>2, <1>4 DEF Orderly, Removals, Present
<1>7. /\ UNCHANGED <<queue, conn, main>>
      /\ Advance(w, "erase")
      /\ dst' = [dst EXCEPT ![w] = d + 1]
      /\ WritesList(w)
      /\ cells' = [cells EXCEPT ![d] = cells[p], ![p] = NULL]
  BY <1>1, <1>5, <1>6 DEF Remove, mainVars, frameVars
<1>8. /\ \A v \in Workers \ {w} : pc[v] \notin InList
      /\ main \notin {"push", "enqueue"}
  BY <1>7, Alone
<1>9. /\ Len(cells') = Len(cells)
      /\ \A i \in 1..Len(cells) : cells'[i] = IF i = p THEN NULL ELSE IF i = d THEN cells[p] ELSE cells[i]
  <2> DEFINE S == Conns \cup {NULL}
  <2>1. cells \in Seq(S) /\ cells[p] \in S /\ NULL \in S
    BY <1>4 DEF TypeOK
  <2> HIDE DEF S, p, d
  <2> QED
    BY <1>4, <1>7, <2>1, ExceptFacts
<1>10. /\ \A v \in Workers \ {w} : pc'[v] = pc[v] /\ pos'[v] = pos[v] /\ dst'[v] = dst[v]
       /\ \/ p < Len(cells) /\ pos'[w] = p + 1 /\ pc'[w] = "remove"
          \/ ~(p < Len(cells)) /\ pos'[w] = 1 /\ pc'[w] = "erase"
       /\ dst'[w] = p
  <2>1. "erase" \in SessionPCs
    BY DEF SessionPCs, InList
  <2>2. /\ \A v \in Workers \ {w} : pc'[v] = pc[v] /\ pos'[v] = pos[v]
        /\ \/ p < Len(cells) /\ pos'[w] = p + 1 /\ pc'[w] = "remove"
           \/ ~(p < Len(cells)) /\ pos'[w] = 1 /\ pc'[w] = "erase"
    BY <1>1, <1>7, <2>1, AdvanceFacts
  <2>3. /\ \A v \in Workers \ {w} : dst'[v] = dst[v]
        /\ dst'[w] = d + 1
    BY <1>7 DEF TypeOK
  <2> QED
    BY <1>1, <2>2, <2>3
<1> HIDE DEF p, d
<1>11. Changers' = {w} /\ Busy' = Busy
  BY <1>1, <1>4, <1>8, <1>10 DEF Changers, Busy, InList
<1>12. Gaps' = {p}
  BY <1>10, <1>11 DEF Gaps
<1>13. Present' = Present
  <2>1. \A i \in (1..Len(cells)) \ {p} : \E j \in (1..Len(cells)) \ {d} : cells'[i] = cells[j]
    BY <1>4, <1>9
  <2>2. \A j \in (1..Len(cells)) \ {d} : \E i \in (1..Len(cells)) \ {p} : cells'[i] = cells[j]
    BY <1>4, <1>9
  <2> QED
    BY <1>2, <1>9, <1>12, <2>1, <2>2 DEF Present
<1>14. Cells'
  <2>1. \A i \in (1..Len(cells)) \ {d} : cells[i] # NULL
    BY <1>2 DEF Orderly, Cells
  <2>2. \A i, j \in (1..Len(cells)) \ {d} : cells[i] = cells[j] => i = j
    BY <1>2 DEF Orderly, Cells
  <2>3. \A i \in (1..Len(cells)) \ {p} : cells'[i] # NULL
    BY <1>4, <1>9, <2>1
  <2>4. \A i, j \in (1..Len(cells)) \ {p} : cells'[i] = cells'[j] => i = j
    BY <1>4, <1>9, <2>2
  <2> QED
    BY <1>9, <1>12, <2>3, <2>4 DEF Cells
<1>15. Queued' = Queued /\ Pushed' = Pushed
  BY <1>7, <1>8 DEF Queued, Pushed
<1>16. OnePlace'
  BY <1>7, <1>8, <1>11, <1>15 DEF Orderly, OnePlace
<1>17. Members'
  BY <1>2, <1>7, <1>11, <1>13, <1>15 DEF Orderly, Members
<1>18. pos'[w] # 0 /\ (pc'[w] = "remove" => pos'[w] = dst'[w] + 1)
       /\ (pc'[w] = "erase" => dst'[w] # 0 /\ dst'[w] = Len(cells')) /\ dst'[w] # 0
  BY <1>3, <1>4, <1>9, <1>10
<1>19. ASSUME NEW v \in Workers
       PROVE  /\ pc'[v] \in InList => pos'[v] # 0
              /\ pc'[v] = "remove" /\ dst'[v] # 0 => pos'[v] = dst'[v] + 1
              /\ pc'[v] = "remove" /\ dst'[v] = 0 => \A i \in 1..Len(cells') : i < pos'[v] => cells'[i] # conn'[v]
              /\ pc'[v] = "erase" => dst'[v] # 0 /\ dst'[v] = Len(cells')
  BY <1>8, <1>10, <1>18 DEF InList
<1> QED
  BY <1>2, <1>7, <1>11, <1>13, <1>14, <1>16, <1>17, <1>19 DEF Orderly, Removals

\* ... and the empty one at the end is cut off.
LEMMA EraseOrderly ==
    ASSUME TypeOK, Places, Orderly, NEW w \in Workers, Erase(w), ~raced'
    PROVE  Orderly'
<1>1. /\ pc[w] = "erase" /\ dst[w] # 0 /\ dst[w] = Len(cells) /\ pos[w] # 0 /\ w \in Changers
  BY EraseCases DEF Orderly, Removals, InList, Changers
<1>2. Changers = {w} /\ Gaps = {dst[w]} /\ conn[w] \notin Present
  BY <1>1 DEF Orderly, Removals, Gaps
<1>3. WritesList(w)
  BY <1>1, EraseCases
<1>4. /\ \A v \in Workers \ {w} : pc[v] \notin InList
      /\ main \notin {"push", "enqueue"}
  BY <1>3, Alone
<1>5. Cutting(w) = {}
  BY <1>4 DEF Cutting, Changing, Walking
<1>6. Cut(w) /\ UNCHANGED <<queue, conn, main, dst>>
  BY <1>1, <1>4, <1>5, EraseCases DEF mainVars, frameVars
<1>7. /\ dst[w] \in 1..Len(cells) /\ Len(cells') = dst[w] - 1
      /\ \A i \in 1..Len(cells') : cells'[i] = cells[i] /\ i \in 1..Len(cells)
      /\ pc' = [pc EXCEPT ![w] = "forget"]
  BY <1>1, <1>6, CutFacts
<1>8. 1..Len(cells') = (1..Len(cells)) \ {dst[w]}
  BY <1>1, <1>7 DEF TypeOK
<1>9. pc'[w] = "forget" /\ \A v \in Workers \ {w} : pc'[v] = pc[v]
  BY <1>7 DEF TypeOK
<1>10. Changers' = {} /\ Gaps' = {} /\ Busy' = Busy \ {w} /\ w \in Busy
  BY <1>1, <1>4, <1>9 DEF Changers, Gaps, Busy, InList
<1>11. Present' = Present
  BY <1>2, <1>7, <1>8, <1>10 DEF Present
<1>12. Queued' = Queued /\ Pushed' = {} /\ Pushed = {}
  BY <1>4, <1>6 DEF Queued, Pushed
<1>13. Cells'
  BY <1>2, <1>7, <1>8, <1>10 DEF Orderly, Cells
<1>14. OnePlace'
  BY <1>4, <1>6, <1>10, <1>12 DEF Orderly, OnePlace
<1>15. Members'
  <2>1. conn[w] \notin Queued /\ \A v \in Busy \ {w} : conn[v] # conn[w]
    BY <1>10 DEF Orderly, OnePlace
  <2>2. Present \cup {conn[w]} = Queued \cup {conn[v] : v \in Busy}
    BY <1>2, <1>12 DEF Orderly, Members
  <2>3. {conn[v] : v \in Busy} = {conn[v] : v \in Busy \ {w}} \cup {conn[w]}
    BY <1>10
  <2>4. Present = Queued \cup {conn[v] : v \in Busy \ {w}}
    BY <1>2, <2>1, <2>2, <2>3
  <2> QED
    BY <1>6, <1>10, <1>11, <1>12, <2>4 DEF Members
<1>16. ASSUME NEW v \in Workers PROVE pc'[v] \notin InList
  BY <1>4, <1>9 DEF InList
<1> QED
  BY <1>10, <1>13, <1>14, <1>15, <1>16 DEF Orderly, Removals, InList

LEMMA ForgetOrderly ==
    ASSUME TypeOK, Places, Orderly, NEW w \in Workers, Forget(w)
    PROVE  Orderly'
<1>1. /\ UNCHANGED <<cells, queue, pos, main>>
      /\ pc[w] = "forget" /\ pc' = [pc EXCEPT ![w] = "idle"]
      /\ conn' = [conn EXCEPT ![w] = NULL] /\ dst' = [dst EXCEPT ![w] = 0]
  BY DEF Forget, Goto, listVars, mainVars
<1>2. /\ pc'[w] = "idle"
      /\ \A v \in Workers \ {w} : pc'[v] = pc[v] /\ conn'[v] = conn[v] /\ dst'[v] = dst[v]
  BY <1>1 DEF TypeOK
<1>3. Changers' = Changers /\ Busy' = Busy /\ w \notin Busy /\ w \notin Changers
  BY <1>1, <1>2 DEF Changers, Busy
<1>4. Gaps' = Gaps /\ Queued' = Queued /\ Pushed' = Pushed /\ Last' = Last
  BY <1>1, <1>2, <1>3 DEF Gaps, Queued, Pushed, Last, Changers
<1>5. Present' = Present
  BY <1>1, <1>4 DEF Present
<1>6. Cells'
  BY <1>1, <1>4 DEF Orderly, Cells
<1>7. OnePlace'
  BY <1>1, <1>2, <1>3, <1>4 DEF Orderly, OnePlace, Busy
<1>8. Members'
  <2>1. {conn'[v] : v \in Changers'} = {conn[v] : v \in Changers}
    BY <1>2, <1>3 DEF Changers
  <2>2. {conn'[v] : v \in Busy'} = {conn[v] : v \in Busy}
    BY <1>2, <1>3 DEF Busy
  <2> QED
    BY <1>4, <1>5, <2>1, <2>2 DEF Orderly, Members
<1>9. \A v \in Changers' : conn'[v] \notin Present'
  BY <1>2, <1>3, <1>5 DEF Orderly, Removals, Changers
<1>10. ASSUME NEW v \in Workers
       PROVE  /\ pc'[v] \in InList => pos'[v] # 0
              /\ pc'[v] = "remove" /\ dst'[v] # 0 => pos'[v] = dst'[v] + 1
              /\ pc'[v] = "remove" /\ dst'[v] = 0 => \A i \in 1..Len(cells') : i < pos'[v] => cells'[i] # conn'[v]
              /\ pc'[v] = "erase" => dst'[v] # 0 /\ dst'[v] = Len(cells')
  BY <1>1, <1>2 DEF Orderly, Removals, InList
<1> QED
  BY <1>3, <1>6, <1>7, <1>8, <1>9, <1>10 DEF Orderly, Removals

\* A race is not forgotten.
LEMMA RacesStay ==
    ASSUME TypeOK, Places, [Next]_vars, ~raced'
    PROVE  ~raced
<1>1. ASSUME NEW w \in Workers, Dispatch(w) \/ Forget(w) PROVE raced' = raced
  BY <1>1 DEF Dispatch, Forget, listVars
<1>2. ASSUME NEW w \in Workers, Send(w) \/ Remove(w) \/ Erase(w) PROVE ReadsList(w) \/ WritesList(w) \/ raced' = raced
  BY <1>2, EraseCases DEF Send, Remove
<1>3. \A c \in Conns : Accept(c) => raced' = raced
  BY DEF Accept, listVars
<1> QED
  BY <1>1, <1>2, <1>3, Alone, ListSteps DEF Still, Moved, listView

LEMMA OrderlyStep ==
    ASSUME TypeOK, Places, Jobs, Newcomers, LInv, [Next]_vars
    PROVE  LInv'
<1> SUFFICES ASSUME ~raced' PROVE Orderly'
  BY DEF LInv
<1>1. ~raced
  BY RacesStay
<1>2. Orderly
  BY <1>1 DEF LInv
<1> QED
  BY <1>2, StillOrderly, MovedOrderly, SendOrderly, PushOrderly, EnqueueOrderly, DispatchOrderly,
     FindOrderly, MoveOrderly, EraseOrderly, ForgetOrderly, ListSteps

LEMMA InitIInv == Init => IInv
<1> SUFFICES ASSUME Init PROVE IInv
  OBVIOUS
<1>1. NoJob \in [kind : ReplyKinds, n : 0..MaxSays, then : SessionPCs]
  BY RoomAssumption DEF NoJob, ReplyKinds, SessionPCs
<1>2. TypeOK
  <2>1. /\ max_connections \in Widths /\ up \in BOOLEAN /\ main \in MainPCs
        /\ client \in Conns \cup {NULL} /\ raced \in BOOLEAN
        /\ users \in SUBSET Names /\ auth \in SUBSET Conns /\ shut \in SUBSET Conns
    BY DEF Init, MainPCs
  <2>2. /\ cells \in Seq(Conns \cup {NULL}) /\ queue \in Seq(Conns \cup {NULL})
        /\ enqueued \in Seq(Conns \cup {NULL})
    BY DEF Init
  <2>3. /\ pc \in [Workers -> SessionPCs] /\ conn \in [Workers -> Conns \cup {NULL}]
        /\ user \in [Workers -> Names] /\ nickname \in [Workers -> Names]
        /\ pos \in [Workers -> Nat] /\ dst \in [Workers -> Nat]
    BY RoomAssumption DEF Init, SessionPCs
  <2>4. job \in [Workers -> [kind : ReplyKinds, n : 0..MaxSays, then : SessionPCs]]
    BY <1>1 DEF Init
  <2>5. inbox \in [Conns -> Seq(Requests)] /\ outbox \in [Conns -> Seq(Replies)]
    BY DEF Init
  <2>6. /\ peer \in [Conns -> {"open", "fin", "abort", "rst"}]
        /\ phase \in [Conns -> {"off", "name", "wait", "chat", "quit", "gone"}]
        /\ read \in [Conns -> Nat] /\ said \in [Conns -> 0..MaxSays]
    BY RoomAssumption DEF Init
  <2> QED
    BY <2>1, <2>2, <2>3, <2>4, <2>5, <2>6 DEF TypeOK
<1>3. Places
  BY DEF Init, Places, InList
<1>4. Jobs /\ NamesAreLive
  BY DEF Init, Jobs, NoJob, NamesAreLive
<1>5. Listed = {} /\ Queued = {}
  BY DEF Init, Listed, Queued
<1>6. Newcomers
  BY <1>5, RoomAssumption DEF Init, Newcomers, Fresh
<1>7. Bounded
  <2>1. Admitted \cap Listed = {} /\ Cardinality({}) = 0
    BY <1>5, FS_EmptySet
  <2>2. max_connections \in Nat
    BY RoomAssumption DEF Init
  <2>3. Cardinality(Admitted \cap Listed) = 0
    BY <2>1
  <2> QED
    BY <2>2, <2>3 DEF Bounded
<1>8. LInv
  <2>1. \A w \in Workers : pc[w] = "idle" /\ dst[w] = 0
    BY DEF Init
  <2>2. Changers = {} /\ Busy = {} /\ Pushed = {}
    BY <2>1 DEF Changers, Busy, Pushed, Init
  <2>3. 1..Len(cells) = {} /\ 1..Len(queue) = {}
    BY DEF Init
  <2>4. Present = {} /\ Queued = {}
    BY <2>3 DEF Present, Queued
  <2> QED
    BY <2>1, <2>2, <2>3, <2>4 DEF Init, LInv, Orderly, Cells, OnePlace, Members, Removals, InList
<1> QED
  BY <1>2, <1>3, <1>4, <1>6, <1>7, <1>8 DEF IInv

LEMMA Invariance == Spec => []IInv
<1>1. ASSUME IInv, [Next]_vars PROVE IInv'
  <2>1. TypeOK'
    BY <1>1, TypeStep DEF IInv
  <2> QED
    BY <1>1, <2>1, PlacesStep, JobsStep, NewcomersStep, NamesStep, BoundedStep, OrderlyStep DEF IInv
<1> QED
  BY InitIInv, <1>1, PTL DEF Spec

\* Every variable stays in its set, for any number of clients and threads, and
\* also after a race: no loop reads beyond the list that is there.
THEOREM TypeCorrect == Spec => []TypeOK
<1>1. IInv => TypeOK
  BY DEF IInv
<1> QED
  BY Invariance, <1>1, PTL

\* A name that is taken is borne by a session under way, although two sessions
\* may take it and either gives it back.
THEOREM NamesAreBorne == Spec => []NamesAreLive
<1>1. IInv => NamesAreLive
  BY DEF IInv
<1> QED
  BY Invariance, <1>1, PTL

\* The room never has more than max_connections_ users, whether or not two
\* threads were in the list at once.
THEOREM RoomIsBounded == Spec => []RoomBound
<1>1. IInv => RoomBound
  <2> SUFFICES ASSUME IInv PROVE RoomBound
    OBVIOUS
  <2> DEFINE A == Admitted \cap Listed
             B == auth \cap Listed
  <2>1. IsFiniteSet(A) /\ B \in SUBSET A
    BY ListedSmall, FS_Subset DEF IInv, Admitted
  <2>2. Cardinality(A) <= max_connections /\ max_connections \in Nat
    BY RoomAssumption DEF IInv, Bounded, TypeOK
  <2> HIDE DEF A, B
  <2>3. Cardinality(B) <= Cardinality(A) /\ Cardinality(A) \in Nat /\ Cardinality(B) \in Nat
    BY <2>1, FS_Subset, FS_CardinalityType
  <2>4. Cardinality(B) <= max_connections
    BY <2>2, <2>3
  <2> QED
    BY <2>4 DEF RoomBound, B
<1> QED
  BY Invariance, <1>1, PTL

\* As long as no two threads were in the list at once, it has one cell for each
\* connection that was just accepted, waits in the queue or is served, and no
\* other, whatever the order in which sessions end and connections come.
THEOREM ListIsRight == Spec => []ListMatches
<1>1. IInv => ListMatches
  <2> SUFFICES ASSUME IInv, ~raced, Changing(NULL) = {}
               PROVE  /\ Len(cells) = Cardinality(Listed)
                      /\ Listed \ (IF main = "enqueue" THEN {Last} ELSE {})
                           = Queued \cup {conn[w] : w \in {v \in Workers : pc[v] \notin {"idle", "forget"}}}
    BY DEF ListMatches
  <2>1. Orderly /\ TypeOK
    BY DEF IInv, LInv
  <2>2. Changers = {} /\ Gaps = {}
    BY ChangingIs DEF Gaps
  <2>3. /\ \A i \in 1..Len(cells) : cells[i] # NULL
        /\ \A i, j \in 1..Len(cells) : cells[i] = cells[j] => i = j
    BY <2>1, <2>2 DEF Orderly, Cells
  <2>4. Listed = {cells[i] : i \in 1..Len(cells)}
    BY <2>3 DEF Listed
  <2>5. Listed = Present
    BY <2>2, <2>4 DEF Present
  <2>6. Len(cells) = Cardinality(Listed)
    BY <2>1, <2>3, <2>4, CellsSet
  <2>7. Listed = Queued \cup {conn[w] : w \in Busy} \cup Pushed
    BY <2>1, <2>2, <2>5 DEF Orderly, Members
  <2>8. Pushed \cap (Queued \cup {conn[w] : w \in Busy}) = {}
    BY <2>1 DEF Orderly, OnePlace, Pushed
  <2> QED
    BY <2>6, <2>7, <2>8 DEF Pushed, Busy
<1> QED
  BY Invariance, <1>1, PTL
=============================================================================
