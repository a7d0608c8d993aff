-------------------------- MODULE ChatOrderProofs ---------------------------
(***************************************************************************)
(* SenderOrder, WelcomeIsEarned and DepartureAnnounced of ChatServer, for  *)
(* any number of clients, names and messages. A step is looked at from one *)
(* session at a time (SessionSteps): it sees its own place, job and        *)
(* requests change, or nothing. What others do to it is to append to its   *)
(* client's outbox.                                                        *)
(***************************************************************************)
EXTENDS ChatServerProofs

\* A message that has a place in SenderOrder.
Chatty(m) ==
    \/ m.kind \in {"HI", "LEFT"}
    \/ m.kind \in {"TEXT", "PRIVATE"} /\ m.n # 0

\* A client numbers what it says.
InboxOrder(c) ==
    \A i \in 1..Len(inbox[c]) :
        /\ inbox[c][i].n <= said[c]
        /\ inbox[c][i].n # 0 => \A k \in 1..(i - 1) : inbox[c][k].n < inbox[c][i].n

\* m repeats something older than the requests s, of a client that said n things.
Older(m, s, n) ==
    m.kind # "LEFT" =>
        /\ Rank(m) <= n
        /\ \A k \in 1..Len(s) : s[k].n # 0 => Rank(m) < s[k].n

\* What a session sends is its own, up to date, and followed by what should.
JobOrder(c) ==
    pc[c] \in {"send", "lookup"} =>
        /\ job[c].msg.from = c
        /\ Chatty(job[c].msg) =>
            /\ Older(job[c].msg, inbox[c], said[c])
            /\ pc[c] = "send" =>
                job[c].then = CASE job[c].msg.kind = "HI" -> "greet"
                                [] job[c].msg.kind = "LEFT" -> "cleanup"
                                [] OTHER -> "chat"

\* Where a session has not said anything to others yet.
Early == {"idle", "queued", "hello", "auth", "register", "announce"}

\* When r may have been sent message m by a session at p with job j, requests
\* s, and a client that said n things: m is older than what the session has
\* yet to say to r.
Past(m, r, p, j, s, n) ==
    /\ p \notin Early
    /\ p = "send" => j.then # "auth"
    /\ m.kind = "LEFT" =>
        \/ p \in {"cleanup", "done"}
        \/ p = "send" /\ j.msg.kind = "LEFT"
    /\ Older(m, s, n)
    /\ p \in {"send", "lookup"} /\ Chatty(j.msg) =>
        /\ Rank(m) <= Rank(j.msg)
        /\ p = "lookup" \/ r \in j.to => Rank(m) < Rank(j.msg)

Delivered ==
    \A r \in Conns : \A i \in 1..Len(outbox[r]) :
        LET m == outbox[r][i]
            c == m.from
        IN  Chatty(m) => Past(m, r, pc[c], job[c], inbox[c], said[c])

\* What a connection has carried whose session did not register a name.
Unregistered(c) ==
    \/ pc[c] \in {"idle", "queued", "hello"} /\ outbox[c] = <<>>
    \/ pc[c] = "send" /\ job[c].then = "auth" /\ outbox[c] = <<>> /\ job[c].to \subseteq {c}
    \/ pc[c] \in {"auth", "register"} /\ Len(outbox[c]) <= 1
    \/ /\ pc[c] = "send" /\ job[c].then = "cleanup" /\ job[c].msg.kind = "ERROR"
       /\ job[c].to \subseteq {c} /\ Len(outbox[c]) <= 1
    \/ /\ pc[c] \in {"cleanup", "done"}
       /\ Len(outbox[c]) <= 1 \/ (Len(outbox[c]) = 2 /\ outbox[c][2].kind = "ERROR")

OInv ==
    /\ \A c \in Conns : InboxOrder(c) /\ JobOrder(c)
    /\ Delivered
    /\ SenderOrder
    /\ \A c \in Conns : user[c] = EmptyNick => Unregistered(c)
    /\ WelcomeIsEarned

\* No reset, no message that can end a session by an exception, and no name
\* that two clients may ask for.
Orderly ==
    /\ Faults \subseteq {"fin"}
    /\ \A c \in Conns : Kinds[c] \cap {"PRIVATE", "GARBLED"} = {}
    /\ \A c, d \in Conns : c # d => Choices[c] \cap Choices[d] = {}

\* Then a client asks for its own names only, and says nothing that throws.
OwnNames ==
    \A c \in Conns :
        /\ peer[c] # "abort"
        /\ pc[c] # "lookup"
        /\ \A i \in 1..Len(inbox[c]) :
            /\ inbox[c][i].kind \notin {"PRIVATE", "GARBLED"}
            /\ inbox[c][i].kind = "AUTH" => inbox[c][i].nick \in Choices[c]
        /\ pc[c] = "register" => nickname[c] \in Choices[c]
        /\ user[c] # EmptyNick => user[c] \in Choices[c]

\* And nobody takes its entry of the table.
Seated ==
    \A c \in Conns : user[c] # EmptyNick /\ pc[c] # "done" => conns[user[c]] = c

Heard(r, c, kind) ==
    \E i \in 1..Len(outbox[r]) : outbox[r][i].from = c /\ outbox[r][i].kind = kind

\* Who was told that c came is told, or about to be told, that it left.
Told ==
    \A c, r \in Conns :
        /\ c # r
        /\ pc[r] # "done"
        /\ peer[r] = "open"
        /\ Heard(r, c, "HI")
        =>
        /\ pc[c] \in {"cleanup", "done"} => Heard(r, c, "LEFT")
        /\ pc[c] = "send" /\ job[c].then = "cleanup" =>
            \/ job[c].msg.kind = "LEFT" /\ r \in job[c].to
            \/ Heard(r, c, "LEFT")

DInv ==
    /\ OwnNames
    /\ Seated
    /\ Told

-----------------------------------------------------------------------------
(* A step as one session sees it. *)

\* The session goes on receiving: m is the next request, or made up by a
\* receive() that failed.
Takes(c, m) ==
    \/ inbox[c] # <<>> /\ m = Head(inbox[c]) /\ inbox'[c] = Tail(inbox[c])
    \/ inbox'[c] = inbox[c] /\ m.n = 0

\* Nothing, or its client sent a request.
Asked(c) ==
    /\ job'[c] = job[c]
    /\ pc'[c] = pc[c] \/ (pc[c] = "idle" /\ pc'[c] = "queued")
    /\ \/ inbox'[c] = inbox[c] /\ said'[c] = said[c]
       \/ \E q \in Requests :
            /\ inbox'[c] = Append(inbox[c], q)
            /\ \/ said'[c] = said[c] /\ q.n = 0
               \/ said'[c] = said[c] + 1 /\ q.n = said'[c]

\* It goes on without sending.
Advanced(c) ==
    /\ job'[c] = job[c]
    /\ said'[c] = said[c]
    /\ \E m \in Requests : Takes(c, m)
    /\ <<pc[c], pc'[c]>> \in
        {<<"queued", "hello">>, <<"auth", "register">>, <<"register", "announce">>,
         <<"chat", "chat">>, <<"chat", "cleanup">>, <<"lookup", "cleanup">>,
         <<"cleanup", "done">>}
    /\ pc[c] = "register" => user'[c] # EmptyNick

\* Which kinds of message a session sends from where, and where it goes on.
Sendings ==
    {<<"hello", "WELCOME", "auth">>, <<"hello", "ERROR", "cleanup">>,
     <<"auth", "ERROR", "cleanup">>, <<"announce", "HI", "greet">>,
     <<"greet", "WELCOME", "chat">>, <<"chat", "TEXT", "chat">>,
     <<"chat", "PONG", "chat">>, <<"chat", "BYE", "left">>,
     <<"chat", "ERROR", "chat">>, <<"left", "LEFT", "cleanup">>,
     <<"lookup", "PRIVATE", "chat">>}

\* It begins to send m to `to`, and goes on at `next`.
Began(c, m, to, next) ==
    /\ job'[c] = [msg |-> m, to |-> to, then |-> next]
    /\ pc'[c] = IF to = {} THEN next ELSE "send"
    /\ <<pc[c], m.kind, next>> \in Sendings
    /\ m.from = c
    /\ said'[c] = said[c]
    /\ pc[c] \in {"hello", "auth"} => to = {c}
    /\ \E q \in Requests :
        /\ Takes(c, q)
        /\ m.kind = "TEXT" => m.n = q.n
    /\ m.kind = "PRIVATE" => m = job[c].msg /\ inbox'[c] = inbox[c]
    /\ m.kind = "LEFT" => to = Others(c)

\* It is about to send a private message.
Looked(c) ==
    /\ pc[c] = "chat" /\ pc'[c] = "lookup"
    /\ said'[c] = said[c]
    /\ job'[c].msg.kind = "PRIVATE" /\ job'[c].msg.from = c
    /\ \E q \in Requests : Takes(c, q) /\ job'[c].msg.n = q.n

\* It sent to s.
Sent(c, s) ==
    /\ pc[c] = "send" /\ s \in job[c].to
    /\ job'[c] = [msg |-> job[c].msg, to |-> job[c].to \ {s}, then |-> job[c].then]
    /\ pc'[c] = IF job[c].to = {s} THEN job[c].then ELSE "send"
    /\ inbox'[c] = inbox[c] /\ said'[c] = said[c]

SessionStepOf(c) ==
    \/ Asked(c)
    \/ Advanced(c)
    \/ \E m \in Replies, to \in SUBSET Conns, next \in SessionPCs : Began(c, m, to, next)
    \/ Looked(c)
    \/ \E s \in Conns : Sent(c, s)

\* A client's connection carries one message more, or nothing new.
Carried(r) ==
    \/ outbox'[r] = outbox[r]
    \/ \E d \in Conns :
        /\ pc[d] = "send" /\ r \in job[d].to
        /\ Sent(d, r)
        /\ outbox'[r] = Append(outbox[r], job[d].msg)

-----------------------------------------------------------------------------
LEMMA ReceiveTakes ==
    ASSUME TypeOK, NEW c \in Conns, NEW m, Receive(c, m)
    PROVE  /\ m \in Requests /\ Takes(c, m)
           /\ \A d \in Conns \ {c} : inbox'[d] = inbox[d]
           /\ outbox' = outbox
<1>1. m \in Requests
  BY IncomingType DEF Receive
<1>2. inbox' = [inbox EXCEPT ![c] = IF inbox[c] = <<>> THEN inbox[c] ELSE Tail(inbox[c])]
      /\ outbox' = outbox /\ m \in Incoming(c)
  BY DEF Receive
<1>3. CASE inbox[c] # <<>>
  BY <1>1, <1>2, <1>3 DEF Takes, Incoming, TypeOK
<1>4. CASE inbox[c] = <<>>
  <2>1. m.n = 0
    BY <1>2, <1>4 DEF Incoming, Noise, Request
  <2> QED
    BY <1>1, <1>2, <1>4, <2>1 DEF Takes, TypeOK
<1> QED
  BY <1>3, <1>4

\* Without receiving, a session may be said to take what nobody wrote.
LEMMA TakesNothing ==
    ASSUME NEW c \in Conns, inbox'[c] = inbox[c]
    PROVE  \E m \in Requests : Takes(c, m) /\ m.n = 0
<1>1. Request("BYE", EmptyNick, 0) \in Requests /\ Request("BYE", EmptyNick, 0).n = 0
  BY ChatAssumption DEF Request, Requests, RequestKinds, ChatKinds, Names
<1> QED
  BY <1>1 DEF Takes

\* A session that begins to send, with the request it took.
LEMMA StartBegan ==
    ASSUME TypeOK, NEW c \in Conns, NEW m \in Replies, NEW to \in SUBSET Conns,
           NEW next \in SessionPCs, StartSending(c, m, to, next),
           <<pc[c], m.kind, next>> \in Sendings, m.from = c, said' = said,
           pc[c] \in {"hello", "auth"} => to = {c},
           NEW q \in Requests, Takes(c, q), m.kind = "TEXT" => m.n = q.n,
           m.kind = "PRIVATE" => m = job[c].msg /\ inbox'[c] = inbox[c],
           m.kind = "LEFT" => to = Others(c),
           \A d \in Conns \ {c} : inbox'[d] = inbox[d]
    PROVE  \A d \in Conns : SessionStepOf(d)
<1>1. job'[c] = [msg |-> m, to |-> to, then |-> next] /\ pc'[c] = IF to = {} THEN next ELSE "send"
  BY DEF StartSending, Goto, TypeOK
<1>2. \A d \in Conns \ {c} : job'[d] = job[d] /\ pc'[d] = pc[d]
  BY DEF StartSending, Goto, TypeOK
<1>3. Began(c, m, to, next)
  BY <1>1 DEF Began
<1>4. \A d \in Conns \ {c} : Asked(d)
  BY <1>2 DEF Asked
<1> QED
  BY <1>3, <1>4 DEF SessionStepOf

LEMMA MoveAdvanced ==
    ASSUME TypeOK, NEW c \in Conns, NEW next, Goto(c, next), job' = job, said' = said,
           NEW q \in Requests, Takes(c, q),
           \A d \in Conns \ {c} : inbox'[d] = inbox[d],
           <<pc[c], next>> \in
            {<<"queued", "hello">>, <<"auth", "register">>, <<"register", "announce">>,
             <<"chat", "chat">>, <<"chat", "cleanup">>, <<"lookup", "cleanup">>,
             <<"cleanup", "done">>},
           pc[c] = "register" => user'[c] # EmptyNick
    PROVE  \A d \in Conns : SessionStepOf(d)
<1>1. pc'[c] = next /\ \A d \in Conns \ {c} : pc'[d] = pc[d]
  BY DEF Goto, TypeOK
<1>2. Advanced(c)
  BY <1>1 DEF Advanced
<1>3. \A d \in Conns \ {c} : Asked(d)
  BY <1>1 DEF Asked
<1> QED
  BY <1>2, <1>3 DEF SessionStepOf

LEMMA PlainFields ==
    ASSUME NEW kind, NEW c
    PROVE  Plain(kind, c).kind = kind /\ Plain(kind, c).from = c
BY DEF Plain, Reply

LEMMA ReplyFields ==
    ASSUME NEW kind, NEW c, NEW nick, NEW n
    PROVE  /\ Reply(kind, c, nick, n).kind = kind
           /\ Reply(kind, c, nick, n).from = c
           /\ Reply(kind, c, nick, n).n = n
BY DEF Reply

LEMMA ClientSteps ==
    ASSUME TypeOK, SessionState, NEW c \in Conns, Client(c)
    PROVE  outbox' = outbox /\ \A d \in Conns : SessionStepOf(d)
<1> SUFFICES outbox' = outbox /\ \A d \in Conns : Asked(d)
  BY DEF SessionStepOf
<1>1. CASE Connect(c)
  <2>1. Request("HELLO", EmptyNick, 0) \in Requests /\ Request("HELLO", EmptyNick, 0).n = 0
    BY ChatAssumption DEF Request, Requests, RequestKinds, Names
  <2>2. inbox'[c] = Append(inbox[c], Request("HELLO", EmptyNick, 0))
        /\ \A d \in Conns \ {c} : inbox'[d] = inbox[d]
    BY <1>1 DEF Connect, SendRequest, TypeOK
  <2>3. pc[c] = "idle"
    <3>1. c \notin Pool!Queued /\ c \notin active /\ c \notin finished
      BY <1>1 DEF Connect, Pool!Submit
    <3> QED
      BY <3>1 DEF SessionState, TypeOK
  <2>4. pc'[c] = "queued" /\ \A d \in Conns \ {c} : pc'[d] = pc[d]
    BY <1>1 DEF Connect, Goto, TypeOK
  <2>5. outbox' = outbox /\ job' = job /\ said' = said
    BY <1>1 DEF Connect, netVars
  <2> QED
    BY <2>1, <2>2, <2>3, <2>4, <2>5 DEF Asked
<1>2. ASSUME NEW n \in Names, EnterNick(c, n) PROVE outbox' = outbox /\ \A d \in Conns : Asked(d)
  <2>1. Request("AUTH", n, 0) \in Requests /\ Request("AUTH", n, 0).n = 0
    BY ChatAssumption DEF Request, Requests, RequestKinds, Names
  <2>2. inbox'[c] = Append(inbox[c], Request("AUTH", n, 0))
        /\ \A d \in Conns \ {c} : inbox'[d] = inbox[d]
    BY <1>2 DEF EnterNick, SendRequest, TypeOK
  <2>3. outbox' = outbox /\ job' = job /\ said' = said /\ pc' = pc
    BY <1>2 DEF EnterNick, netVars
  <2> QED
    BY <2>1, <2>2, <2>3 DEF Asked
<1>3. ASSUME NEW kind \in Kinds[c], NEW n \in Names, Say(c, kind, n)
      PROVE  outbox' = outbox /\ \A d \in Conns : Asked(d)
  <2>1. said[c] + 1 \in 0..MaxSays /\ kind \in RequestKinds
    <3>1. said[c] + 1 \in 0..MaxSays
      BY <1>3, ChatAssumption DEF Say, TypeOK
    <3>2. kind \in RequestKinds
      BY ChatAssumption DEF RequestKinds
    <3> QED
      BY <3>1, <3>2
  <2>2. Request(kind, n, said[c] + 1) \in Requests /\ Request(kind, n, said[c] + 1).n = said[c] + 1
    BY <2>1 DEF Request, Requests
  <2>3. inbox'[c] = Append(inbox[c], Request(kind, n, said[c] + 1))
        /\ \A d \in Conns \ {c} : inbox'[d] = inbox[d]
    BY <1>3 DEF Say, SendRequest, TypeOK
  <2>4. said'[c] = said[c] + 1 /\ \A d \in Conns \ {c} : said'[d] = said[d]
    BY <1>3 DEF Say, TypeOK
  <2>5. outbox' = outbox /\ job' = job /\ pc' = pc
    BY <1>3 DEF Say, netVars
  <2> QED
    BY <2>2, <2>3, <2>4, <2>5 DEF Asked
<1>4. CASE EnterRoom(c) \/ CloseSocket(c) \/ \E fault \in Faults : Vanish(c, fault)
  BY <1>4 DEF EnterRoom, CloseSocket, Vanish, netVars, Asked
<1> QED
  <2>1. Nicks \subseteq Names /\ EmptyNick \in Names
    BY DEF Names
  <2> QED
    BY <2>1, <1>1, <1>2, <1>3, <1>4 DEF Client

LEMMA GreetingSteps ==
    ASSUME TypeOK, SessionState, NEW c \in Conns,
           RecvHello(c) \/ RecvAuth(c) \/ Register(c) \/ Announce(c) \/ Greet(c) \/ Left(c)
    PROVE  outbox' = outbox /\ \A d \in Conns : SessionStepOf(d)
<1>1. CASE RecvHello(c)
  <2>1. PICK m \in Incoming(c) :
          /\ Receive(c, m)
          /\ \/ StartSending(c, Plain("WELCOME", c), {c}, "auth")
             \/ StartSending(c, Plain("ERROR", c), {c}, "cleanup")
    BY <1>1 DEF RecvHello
  <2>2. pc[c] = "hello" /\ said' = said
    BY <1>1 DEF RecvHello, clientVars
  <2>3. /\ m \in Requests /\ Takes(c, m) /\ outbox' = outbox
        /\ \A d \in Conns \ {c} : inbox'[d] = inbox[d]
    BY <2>1, ReceiveTakes
  <2>4. CASE StartSending(c, Plain("WELCOME", c), {c}, "auth")
    <3>1. Plain("WELCOME", c) \in Replies /\ <<pc[c], "WELCOME", "auth">> \in Sendings /\ "auth" \in SessionPCs
      BY <2>2, PlainType DEF ReplyKinds, Sendings, SessionPCs
    <3> QED
      BY <2>2, <2>3, <2>4, <3>1, PlainFields, StartBegan
  <2>5. CASE StartSending(c, Plain("ERROR", c), {c}, "cleanup")
    <3>1. Plain("ERROR", c) \in Replies /\ <<pc[c], "ERROR", "cleanup">> \in Sendings /\ "cleanup" \in SessionPCs
      BY <2>2, PlainType DEF ReplyKinds, Sendings, SessionPCs
    <3> QED
      BY <2>2, <2>3, <2>5, <3>1, PlainFields, StartBegan
  <2> QED
    BY <2>1, <2>4, <2>5
<1>2. CASE RecvAuth(c)
  <2>1. PICK m \in Incoming(c) :
          /\ Receive(c, m)
          /\ \/ StartSending(c, Plain("ERROR", c), {c}, "cleanup")
             \/ Goto(c, "register") /\ UNCHANGED job
    BY <1>2 DEF RecvAuth
  <2>2. pc[c] = "auth" /\ said' = said
    BY <1>2 DEF RecvAuth, clientVars
  <2>3. /\ m \in Requests /\ Takes(c, m) /\ outbox' = outbox
        /\ \A d \in Conns \ {c} : inbox'[d] = inbox[d]
    BY <2>1, ReceiveTakes
  <2>4. CASE Goto(c, "register") /\ UNCHANGED job
    BY <2>2, <2>3, <2>4, MoveAdvanced
  <2>5. CASE StartSending(c, Plain("ERROR", c), {c}, "cleanup")
    <3>1. Plain("ERROR", c) \in Replies /\ <<pc[c], "ERROR", "cleanup">> \in Sendings /\ "cleanup" \in SessionPCs
      BY <2>2, PlainType DEF ReplyKinds, Sendings, SessionPCs
    <3> QED
      BY <2>2, <2>3, <2>5, <3>1, PlainFields, StartBegan
  <2> QED
    BY <2>1, <2>4, <2>5
<1>3. ASSUME inbox' = inbox
      PROVE  \E q \in Requests : Takes(c, q) /\ \A d \in Conns \ {c} : inbox'[d] = inbox[d]
  BY <1>3, TakesNothing
<1>4. CASE Register(c)
  <2>1. pc[c] = "register" /\ Goto(c, "announce") /\ job' = job /\ said' = said
        /\ inbox' = inbox /\ outbox' = outbox
    BY <1>4 DEF Register, clientVars, netVars
  <2>2. user'[c] # EmptyNick
    BY <1>4, ChatAssumption DEF Register, SessionState, TypeOK
  <2> QED
    BY <1>3, <2>1, <2>2, MoveAdvanced
<1>5. CASE Announce(c)
  <2>1. pc[c] = "announce" /\ StartSending(c, Plain("HI", c), Others(c), "greet")
        /\ said' = said /\ inbox' = inbox /\ outbox' = outbox
    BY <1>5 DEF Announce, clientVars, netVars
  <2>2. Plain("HI", c) \in Replies /\ <<pc[c], "HI", "greet">> \in Sendings /\ "greet" \in SessionPCs
        /\ Others(c) \in SUBSET Conns
    BY <2>1, PlainType, OthersType DEF ReplyKinds, Sendings, SessionPCs
  <2> QED
    BY <1>3, <2>1, <2>2, PlainFields, StartBegan
<1>6. CASE Greet(c)
  <2>1. pc[c] = "greet" /\ StartSending(c, Plain("WELCOME", c), {c}, "chat")
        /\ said' = said /\ inbox' = inbox /\ outbox' = outbox
    BY <1>6 DEF Greet, clientVars, netVars
  <2>2. Plain("WELCOME", c) \in Replies /\ <<pc[c], "WELCOME", "chat">> \in Sendings /\ "chat" \in SessionPCs
        /\ {c} \in SUBSET Conns
    BY <2>1, PlainType DEF ReplyKinds, Sendings, SessionPCs
  <2> QED
    BY <1>3, <2>1, <2>2, PlainFields, StartBegan
<1>7. CASE Left(c)
  <2>1. pc[c] = "left" /\ StartSending(c, Plain("LEFT", c), Others(c), "cleanup")
        /\ said' = said /\ inbox' = inbox /\ outbox' = outbox
    BY <1>7 DEF Left, clientVars, netVars
  <2>2. Plain("LEFT", c) \in Replies /\ <<pc[c], "LEFT", "cleanup">> \in Sendings /\ "cleanup" \in SessionPCs
        /\ Others(c) \in SUBSET Conns
    BY <2>1, PlainType, OthersType DEF ReplyKinds, Sendings, SessionPCs
  <2> QED
    BY <1>3, <2>1, <2>2, PlainFields, StartBegan
<1> QED
  BY <1>1, <1>2, <1>4, <1>5, <1>6, <1>7

LEMMA RoomSteps ==
    ASSUME TypeOK, JobAudience, NEW c \in Conns, JobOrder(c),
           \/ RecvText(c) \/ RecvPing(c) \/ RecvBye(c) \/ RecvPrivate(c)
           \/ Lookup(c) \/ RecvGarbled(c) \/ RecvOther(c)
    PROVE  outbox' = outbox /\ \A d \in Conns : SessionStepOf(d)
<1> {"chat", "left", "cleanup"} \subseteq SessionPCs
  BY DEF SessionPCs
<1>1. ASSUME NEW m, Chat(c, m)
      PROVE  /\ pc[c] = "chat" /\ said' = said
             /\ m \in Requests /\ Takes(c, m) /\ outbox' = outbox
             /\ \A d \in Conns \ {c} : inbox'[d] = inbox[d]
             /\ m.n \in 0..MaxSays /\ m.nick \in Names
  BY <1>1, ReceiveTakes DEF Chat, clientVars, Requests
<1>2. CASE RecvText(c)
  <2>1. PICK m \in Incoming(c) : m.kind = "TEXT" /\ Chat(c, m) /\ StartSending(c, Reply("TEXT", c, EmptyNick, m.n), Others(c), "chat")
    BY <1>2 DEF RecvText
  <2>2. Reply("TEXT", c, EmptyNick, m.n) \in Replies
    BY <1>1, <2>1, ReplyType DEF ReplyKinds, Names
  <2>3. Others(c) \in SUBSET Conns /\ <<pc[c], "TEXT", "chat">> \in Sendings
    BY <1>1, <2>1, OthersType DEF Sendings
  <2> QED
    BY <1>1, <2>1, <2>2, <2>3, ReplyFields, StartBegan
<1>3. CASE RecvPing(c)
  <2>1. PICK m \in Incoming(c) : m.kind = "PING" /\ Chat(c, m) /\ StartSending(c, Reply("PONG", c, EmptyNick, m.n), {c}, "chat")
    BY <1>3 DEF RecvPing
  <2>2. Reply("PONG", c, EmptyNick, m.n) \in Replies
    BY <1>1, <2>1, ReplyType DEF ReplyKinds, Names
  <2>3. {c} \in SUBSET Conns /\ <<pc[c], "PONG", "chat">> \in Sendings
    BY <1>1, <2>1 DEF Sendings
  <2> QED
    BY <1>1, <2>1, <2>2, <2>3, ReplyFields, StartBegan
<1>4. CASE RecvBye(c)
  <2>1. PICK m \in Incoming(c) : m.kind = "BYE" /\ Chat(c, m) /\ StartSending(c, Plain("BYE", c), {c}, "left")
    BY <1>4 DEF RecvBye
  <2>2. Plain("BYE", c) \in Replies
    BY PlainType DEF ReplyKinds
  <2>3. {c} \in SUBSET Conns /\ <<pc[c], "BYE", "left">> \in Sendings
    BY <1>1, <2>1 DEF Sendings
  <2> QED
    BY <1>1, <2>1, <2>2, <2>3, PlainFields, StartBegan
<1>5. CASE RecvPrivate(c)
  <2>1. PICK m \in Incoming(c) :
          /\ Chat(c, m)
          /\ \/ /\ job' = [job EXCEPT ![c].msg = Reply("PRIVATE", c, m.nick, m.n)]
                /\ Goto(c, "lookup")
             \/ StartSending(c, Plain("ERROR", c), {c}, "chat")
    BY <1>5 DEF RecvPrivate
  <2>2. CASE /\ job' = [job EXCEPT ![c].msg = Reply("PRIVATE", c, m.nick, m.n)]
             /\ Goto(c, "lookup")
    <3>1. job'[c].msg = Reply("PRIVATE", c, m.nick, m.n) /\ pc'[c] = "lookup"
      BY <2>2 DEF Goto, TypeOK
    <3>2. \A d \in Conns \ {c} : job'[d] = job[d] /\ pc'[d] = pc[d]
      BY <2>2 DEF Goto, TypeOK
    <3>3. Looked(c)
      BY <1>1, <2>1, <3>1, ReplyFields DEF Looked
    <3>4. \A d \in Conns \ {c} : Asked(d)
      BY <1>1, <2>1, <3>2 DEF Asked
    <3> QED
      BY <1>1, <2>1, <3>3, <3>4 DEF SessionStepOf
  <2>3. CASE StartSending(c, Plain("ERROR", c), {c}, "chat")
    <3>1. Plain("ERROR", c) \in Replies
      BY PlainType DEF ReplyKinds
    <3>2. {c} \in SUBSET Conns /\ <<pc[c], "ERROR", "chat">> \in Sendings
      BY <1>1, <2>1 DEF Sendings
    <3> QED
      BY <1>1, <2>1, <2>3, <3>1, <3>2, PlainFields, StartBegan
  <2> QED
    BY <2>1, <2>2, <2>3
<1>6. CASE Lookup(c)
  <2>1. pc[c] = "lookup" /\ said' = said /\ inbox' = inbox /\ outbox' = outbox
    BY <1>6 DEF Lookup, clientVars, netVars
  <2>2. PICK q \in Requests : Takes(c, q)
    BY <2>1, TakesNothing
  <2>3. job[c].msg.kind = "PRIVATE" /\ job[c].msg.from = c /\ job[c].msg \in Replies
    BY <2>1 DEF JobAudience, JobOrder, TypeOK
  <2>4. CASE job[c].msg.nick \in Registered
    <3>1. StartSending(c, job[c].msg, {conns[job[c].msg.nick]}, "chat")
      BY <1>6, <2>4 DEF Lookup
    <3>2. {conns[job[c].msg.nick]} \in SUBSET Conns /\ <<pc[c], job[c].msg.kind, "chat">> \in Sendings
      BY <2>1, <2>3, <2>4 DEF Registered, TypeOK, Sendings
    <3> QED
      BY <2>1, <2>2, <2>3, <3>1, <3>2, StartBegan
  <2>5. CASE job[c].msg.nick \notin Registered
    <3>1. Goto(c, "cleanup") /\ job' = job
      BY <1>6, <2>5 DEF Lookup
    <3> QED
      BY <2>1, <2>2, <3>1, MoveAdvanced
  <2> QED
    BY <2>4, <2>5
<1>7. CASE RecvGarbled(c)
  <2>1. PICK m \in Incoming(c) : Chat(c, m) /\ Goto(c, "cleanup") /\ job' = job
    BY <1>7 DEF RecvGarbled
  <2> QED
    BY <1>1, <2>1, MoveAdvanced
<1>8. CASE RecvOther(c)
  <2>1. PICK m \in Incoming(c) : Chat(c, m) /\ pc' = pc /\ job' = job
    BY <1>8 DEF RecvOther
  <2>2. Advanced(c)
    BY <1>1, <2>1 DEF Advanced
  <2>3. \A d \in Conns \ {c} : Asked(d)
    BY <1>1, <2>1 DEF Asked
  <2> QED
    BY <1>1, <2>1, <2>2, <2>3 DEF SessionStepOf
<1> QED
  BY <1>2, <1>3, <1>4, <1>5, <1>6, <1>7, <1>8

LEMMA SendSteps ==
    ASSUME TypeOK, NEW c \in Conns, Send(c)
    PROVE  (\A r \in Conns : Carried(r)) /\ \A d \in Conns : SessionStepOf(d)
<1>1. PICK s \in job[c].to :
          /\ Deliver(s, job[c].msg)
          /\ StartSending(c, job[c].msg, Remaining(c, s), job[c].then)
  BY DEF Send
<1>2. pc[c] = "send" /\ inbox' = inbox /\ said' = said /\ s \in Conns
  BY DEF Send, clientVars, TypeOK
<1>3. Remaining(c, s) = job[c].to \ {s} /\ (Remaining(c, s) = {} <=> job[c].to = {s})
  BY <1>1 DEF Remaining
<1>4. Sent(c, s)
  BY <1>1, <1>2, <1>3 DEF Sent, StartSending, Goto, TypeOK
<1>5. \A d \in Conns \ {c} : Asked(d)
  BY <1>1, <1>2 DEF Asked, StartSending, Goto, TypeOK
<1>6. outbox' = outbox \/ outbox' = [outbox EXCEPT ![s] = Append(outbox[s], job[c].msg)]
  BY <1>1 DEF Deliver
<1>7. \A r \in Conns : Carried(r)
  BY <1>1, <1>2, <1>4, <1>6 DEF Carried, TypeOK
<1> QED
  BY <1>2, <1>4, <1>5, <1>7 DEF SessionStepOf

LEMMA PoolSteps ==
    ASSUME TypeOK, SessionState, NEW c \in Conns, Cleanup(c) \/ Dispatch(c)
    PROVE  outbox' = outbox /\ \A d \in Conns : SessionStepOf(d)
<1>1. said' = said /\ inbox' = inbox /\ outbox' = outbox /\ job' = job
  BY DEF Cleanup, Dispatch, clientVars, netVars
<1>2. PICK q \in Requests : Takes(c, q)
  BY <1>1, TakesNothing
<1>3. CASE Cleanup(c)
  BY <1>1, <1>2, <1>3, MoveAdvanced DEF Cleanup
<1>4. CASE Dispatch(c)
  <2>1. queue # <<>> /\ c = Head(queue) /\ Goto(c, "hello")
    BY <1>4 DEF Dispatch, Pool!Start
  <2>2. 1 \in 1..Len(queue) /\ queue[1] = c
    BY <2>1 DEF TypeOK
  <2>3. c \in Pool!Queued
    BY <2>2 DEF Pool!Queued
  <2>4. pc[c] = "queued"
    BY <2>3 DEF SessionState
  <2> QED
    BY <1>1, <1>2, <2>1, <2>4, MoveAdvanced
<1> QED
  BY <1>1, <1>3, <1>4

\* Every step is one that each session knows, and connections carry what
\* sessions sent.
LEMMA SessionSteps ==
    ASSUME TypeOK, SessionState, JobAudience, \A c \in Conns : JobOrder(c), [Next]_vars
    PROVE  (\A r \in Conns : Carried(r)) /\ \A d \in Conns : SessionStepOf(d)
<1>1. CASE outbox' = outbox /\ \A d \in Conns : SessionStepOf(d)
  BY <1>1 DEF Carried
<1>2. CASE UNCHANGED vars
  <2>1. \A d \in Conns : Asked(d)
    BY <1>2 DEF vars, clientVars, Asked
  <2>2. outbox' = outbox
    BY <1>2 DEF vars, netVars
  <2> QED
    BY <1>1, <2>1, <2>2 DEF SessionStepOf
<1>3. ASSUME NEW c \in Conns, Client(c)
      PROVE  (\A r \in Conns : Carried(r)) /\ \A d \in Conns : SessionStepOf(d)
  BY <1>1, <1>3, ClientSteps
<1>4. ASSUME NEW c \in Conns, Session(c) \/ Dispatch(c)
      PROVE  (\A r \in Conns : Carried(r)) /\ \A d \in Conns : SessionStepOf(d)
  BY <1>1, <1>4, GreetingSteps, RoomSteps, SendSteps, PoolSteps DEF Session
<1> QED
  BY <1>2, <1>3, <1>4 DEF Next, Serve

-----------------------------------------------------------------------------
(* The order of what clients say. *)

\* The requests of a client, when it sends or its session receives one.
LEMMA InboxSteps ==
    ASSUME TypeOK, NEW c \in Conns, SessionStepOf(c)
    PROVE  \/ inbox'[c] = inbox[c] /\ said'[c] = said[c]
           \/ inbox[c] # <<>> /\ inbox'[c] = Tail(inbox[c]) /\ said'[c] = said[c]
           \/ \E q \in Requests :
                /\ inbox'[c] = Append(inbox[c], q)
                /\ \/ said'[c] = said[c] /\ q.n = 0
                   \/ said'[c] = said[c] + 1 /\ q.n = said'[c]
BY DEF SessionStepOf, Asked, Advanced, Began, Looked, Sent, Takes

\* The elements of a sequence that was extended or shortened.
LEMMA TailFacts ==
    ASSUME NEW S, NEW s \in Seq(S), s # <<>>
    PROVE  /\ Len(Tail(s)) = Len(s) - 1 /\ Len(s) \in Nat \ {0}
           /\ Head(s) = s[1] /\ 1 \in 1..Len(s)
           /\ \A i \in 1..Len(Tail(s)) : Tail(s)[i] = s[i + 1] /\ i + 1 \in 2..Len(s)
OBVIOUS

LEMMA AppendFacts ==
    ASSUME NEW S, NEW s \in Seq(S), NEW x
    PROVE  /\ Len(Append(s, x)) = Len(s) + 1 /\ Len(s) \in Nat
           /\ Append(s, x)[Len(s) + 1] = x
           /\ \A i \in 1..Len(s) : Append(s, x)[i] = s[i]
           /\ \A i \in 1..Len(Append(s, x)) : i \in 1..Len(s) \/ i = Len(s) + 1
OBVIOUS

LEMMA NumberTypes ==
    ASSUME TypeOK, NEW c \in Conns
    PROVE  /\ said[c] \in Nat /\ said[c] <= MaxSays
           /\ inbox[c] \in Seq(Requests)
           /\ \A i \in 1..Len(inbox[c]) : inbox[c][i].n \in Nat
<1>1. \A i \in 1..Len(inbox[c]) : inbox[c][i] \in Requests
  BY DEF TypeOK
<1>2. \A i \in 1..Len(inbox[c]) : inbox[c][i].n \in Nat
  BY <1>1, ChatAssumption DEF Requests
<1>3. said[c] \in 0..MaxSays /\ inbox[c] \in Seq(Requests)
  BY DEF TypeOK
<1> QED
  BY <1>2, <1>3, ChatAssumption

LEMMA InboxOrderStep ==
    ASSUME TypeOK, NEW c \in Conns, InboxOrder(c), SessionStepOf(c)
    PROVE  InboxOrder(c)'
<1> DEFINE s == inbox[c]
           t == inbox'[c]
<1>1. said[c] \in Nat /\ s \in Seq(Requests) /\ \A i \in 1..Len(s) : s[i].n \in Nat
  BY NumberTypes
<1>2. \A i \in 1..Len(s) : s[i].n <= said[c] /\ (s[i].n # 0 => \A k \in 1..(i - 1) : s[k].n < s[i].n)
  BY DEF InboxOrder
<1>3. SUFFICES \A i \in 1..Len(t) :
                t[i].n <= said'[c] /\ (t[i].n # 0 => \A k \in 1..(i - 1) : t[k].n < t[i].n)
  BY DEF InboxOrder
<1>4. CASE t = s /\ said'[c] = said[c]
  BY <1>2, <1>4
<1>5. CASE s # <<>> /\ t = Tail(s) /\ said'[c] = said[c]
  <2>1. \A i \in 1..Len(t) : t[i] = s[i + 1] /\ i + 1 \in 2..Len(s) /\ Len(s) \in Nat
    BY <1>1, <1>5, TailFacts
  <2>2. Len(t) \in Nat
    BY <1>1, <1>5, TailFacts
  <2> SUFFICES ASSUME NEW i \in 1..Len(t)
               PROVE  t[i].n <= said'[c] /\ (t[i].n # 0 => \A k \in 1..(i - 1) : t[k].n < t[i].n)
    OBVIOUS
  <2>3. \A k \in 1..(i - 1) : k \in 1..Len(t) /\ k + 1 \in 1..((i + 1) - 1)
    BY <2>2
  <2>4. i + 1 \in 1..Len(s)
    BY <2>1
  <2> HIDE DEF s, t
  <2> QED
    BY <1>2, <1>5, <2>1, <2>3, <2>4
<1>6. ASSUME NEW q \in Requests, t = Append(s, q),
             (said'[c] = said[c] /\ q.n = 0) \/ (said'[c] = said[c] + 1 /\ q.n = said'[c])
      PROVE  \A i \in 1..Len(t) :
                t[i].n <= said'[c] /\ (t[i].n # 0 => \A k \in 1..(i - 1) : t[k].n < t[i].n)
  <2>1. /\ Len(t) = Len(s) + 1 /\ Len(s) \in Nat
        /\ t[Len(s) + 1] = q
        /\ \A i \in 1..Len(s) : t[i] = s[i]
        /\ \A i \in 1..Len(t) : i \in 1..Len(s) \/ i = Len(s) + 1
    BY <1>1, <1>6, AppendFacts
  <2> HIDE DEF s, t
  <2>2. ASSUME NEW i \in 1..Len(s)
        PROVE  t[i].n <= said'[c] /\ (t[i].n # 0 => \A k \in 1..(i - 1) : t[k].n < t[i].n)
    <3>1. \A k \in 1..(i - 1) : k \in 1..Len(s)
      BY <2>1
    <3> QED
      BY <1>1, <1>2, <1>6, <2>1, <3>1
  <2>3. t[Len(s) + 1].n <= said'[c]
        /\ (t[Len(s) + 1].n # 0 => \A k \in 1..((Len(s) + 1) - 1) : t[k].n < t[Len(s) + 1].n)
    <3>1. \A k \in 1..((Len(s) + 1) - 1) : k \in 1..Len(s)
      BY <2>1
    <3> QED
      BY <1>1, <1>2, <1>6, <2>1, <3>1
  <2> QED
    BY <2>1, <2>2, <2>3
<1> HIDE DEF s, t
<1>7. \/ t = s /\ said'[c] = said[c]
      \/ s # <<>> /\ t = Tail(s) /\ said'[c] = said[c]
      \/ \E q \in Requests :
           /\ t = Append(s, q)
           /\ (said'[c] = said[c] /\ q.n = 0) \/ (said'[c] = said[c] + 1 /\ q.n = said'[c])
  BY InboxSteps DEF s, t
<1> QED
  BY <1>4, <1>5, <1>6, <1>7

\* What is older than all requests stays so.
LEMMA OlderKept ==
    ASSUME TypeOK, NEW c \in Conns, SessionStepOf(c), NEW m, Rank(m) \in Nat,
           Older(m, inbox[c], said[c])
    PROVE  Older(m, inbox'[c], said'[c])
<1> DEFINE s == inbox[c]
           t == inbox'[c]
<1>1. said[c] \in Nat /\ s \in Seq(Requests)
  BY NumberTypes
<1> SUFFICES ASSUME m.kind # "LEFT"
             PROVE  Rank(m) <= said'[c] /\ \A k \in 1..Len(t) : t[k].n # 0 => Rank(m) < t[k].n
  BY DEF Older
<1>2. Rank(m) <= said[c] /\ \A k \in 1..Len(s) : s[k].n # 0 => Rank(m) < s[k].n
  BY DEF Older
<1>3. CASE t = s /\ said'[c] = said[c]
  BY <1>2, <1>3
<1>4. CASE s # <<>> /\ t = Tail(s) /\ said'[c] = said[c]
  <2>1. \A i \in 1..Len(t) : t[i] = s[i + 1] /\ i + 1 \in 1..Len(s)
    BY <1>1, <1>4, TailFacts
  <2> HIDE DEF s, t
  <2> QED
    BY <1>2, <1>4, <2>1
<1>5. ASSUME NEW q \in Requests, t = Append(s, q),
             (said'[c] = said[c] /\ q.n = 0) \/ (said'[c] = said[c] + 1 /\ q.n = said'[c])
      PROVE  Rank(m) <= said'[c] /\ \A k \in 1..Len(t) : t[k].n # 0 => Rank(m) < t[k].n
  <2>1. /\ t[Len(s) + 1] = q
        /\ \A i \in 1..Len(s) : t[i] = s[i]
        /\ \A i \in 1..Len(t) : i \in 1..Len(s) \/ i = Len(s) + 1
    BY <1>1, <1>5, AppendFacts
  <2> HIDE DEF s, t
  <2> QED
    BY <1>1, <1>2, <1>5, <2>1
<1> HIDE DEF s, t
<1>6. \/ t = s /\ said'[c] = said[c]
      \/ s # <<>> /\ t = Tail(s) /\ said'[c] = said[c]
      \/ \E q \in Requests :
           /\ t = Append(s, q)
           /\ (said'[c] = said[c] /\ q.n = 0) \/ (said'[c] = said[c] + 1 /\ q.n = said'[c])
  BY InboxSteps DEF s, t
<1> QED
  BY <1>3, <1>4, <1>5, <1>6

\* A request with a number is newer than what is older than all requests, and
\* older than those that are left.
LEMMA TakenIsNext ==
    ASSUME TypeOK, NEW c \in Conns, InboxOrder(c), NEW q \in Requests, Takes(c, q), q.n # 0,
           said'[c] = said[c]
    PROVE  /\ q.n \in Nat /\ q.n <= said[c]
           /\ \A k \in 1..Len(inbox'[c]) : inbox'[c][k].n # 0 => q.n < inbox'[c][k].n
           /\ \A m : Older(m, inbox[c], said[c]) /\ m.kind # "LEFT" => Rank(m) < q.n
<1> DEFINE s == inbox[c]
           t == inbox'[c]
<1>1. said[c] \in Nat /\ s \in Seq(Requests) /\ \A i \in 1..Len(s) : s[i].n \in Nat
  BY NumberTypes
<1>2. s # <<>> /\ q = Head(s) /\ t = Tail(s)
  BY DEF Takes
<1>3. /\ q = s[1] /\ 1 \in 1..Len(s)
      /\ \A i \in 1..Len(t) : t[i] = s[i + 1] /\ i + 1 \in 2..Len(s) /\ Len(s) \in Nat
  BY <1>1, <1>2, TailFacts
<1>4. \A i \in 1..Len(s) : s[i].n <= said[c] /\ (s[i].n # 0 => \A k \in 1..(i - 1) : s[k].n < s[i].n)
  BY DEF InboxOrder
<1>5. \A m : Older(m, s, said[c]) /\ m.kind # "LEFT" => Rank(m) < q.n
  BY <1>3 DEF Older
<1> HIDE DEF s, t
<1>6. \A k \in 1..Len(t) : t[k].n # 0 => q.n < t[k].n
  <2>1. ASSUME NEW k \in 1..Len(t), t[k].n # 0 PROVE q.n < t[k].n
    <3>1. t[k] = s[k + 1] /\ k + 1 \in 1..Len(s) /\ 1 \in 1..((k + 1) - 1)
      BY <1>3
    <3> QED
      BY <1>3, <1>4, <2>1, <3>1
  <2> QED
    BY <2>1
<1>7. q.n \in Nat /\ q.n <= said[c]
  BY <1>1, <1>3, <1>4
<1> QED
  BY <1>5, <1>6, <1>7 DEF s, t

LEMMA RankFacts ==
    ASSUME NEW m \in Replies
    PROVE  /\ Rank(m) \in Nat
           /\ m.kind = "HI" => Rank(m) = 0
           /\ m.kind = "LEFT" => Rank(m) = MaxSays + 1
           /\ m.kind \in {"TEXT", "PRIVATE"} => Rank(m) = m.n
           /\ m.kind # "LEFT" => Rank(m) <= MaxSays
BY ChatAssumption DEF Rank, Replies

LEMMA JobOrderStep ==
    ASSUME TypeOK, TypeOK', NEW c \in Conns, InboxOrder(c), JobOrder(c), SessionStepOf(c)
    PROVE  JobOrder(c)'
<1>0. job[c].msg \in Replies /\ job'[c].msg \in Replies
  BY DEF TypeOK
<1>1. CASE Asked(c)
  <2>1. job'[c] = job[c] /\ (pc'[c] \in {"send", "lookup"} => pc'[c] = pc[c])
    BY <1>1 DEF Asked
  <2>2. Older(job[c].msg, inbox[c], said[c]) => Older(job[c].msg, inbox'[c], said'[c])
    BY <1>0, RankFacts, OlderKept
  <2> QED
    BY <2>1, <2>2 DEF JobOrder
<1>2. CASE Advanced(c)
  <2>1. pc'[c] \notin {"send", "lookup"}
    BY <1>2 DEF Advanced
  <2> QED
    BY <2>1 DEF JobOrder
<1>3. ASSUME NEW m \in Replies, NEW to \in SUBSET Conns, NEW next \in SessionPCs, Began(c, m, to, next)
      PROVE  JobOrder(c)'
  <2>1. /\ job'[c].msg = m /\ job'[c].then = next /\ m.from = c
        /\ pc'[c] \in {next, "send"} /\ next \notin {"send", "lookup"}
        /\ said'[c] = said[c]
    BY <1>3 DEF Began, Sendings
  <2>2. ASSUME Chatty(m)
        PROVE  next = CASE m.kind = "HI" -> "greet" [] m.kind = "LEFT" -> "cleanup" [] OTHER -> "chat"
    BY <1>3, <2>2 DEF Began, Sendings, Chatty
  <2>3. ASSUME Chatty(m) PROVE Older(m, inbox'[c], said'[c])
    <3>1. CASE m.kind = "LEFT"
      BY <3>1 DEF Older
    <3>2. CASE m.kind = "HI"
      <4>1. \A k \in 1..Len(inbox'[c]) : inbox'[c][k].n \in Nat
        <5>1. \A k \in 1..Len(inbox'[c]) : inbox'[c][k] \in Requests
          BY DEF TypeOK
        <5> QED
          BY <5>1, ChatAssumption DEF Requests
      <4>2. \A k \in 1..Len(inbox'[c]) : inbox'[c][k].n # 0 => 0 < inbox'[c][k].n
        BY <4>1
      <4>3. 0 <= said'[c]
        BY <2>1, NumberTypes
      <4> QED
        BY <3>2, <4>2, <4>3, RankFacts DEF Older
    <3>3. CASE m.kind = "TEXT"
      <4>1. PICK q \in Requests : Takes(c, q) /\ m.n = q.n
        BY <1>3, <3>3 DEF Began
      <4>2. m.n # 0
        BY <2>3, <3>3 DEF Chatty
      <4>3. /\ q.n <= said[c]
            /\ \A k \in 1..Len(inbox'[c]) : inbox'[c][k].n # 0 => q.n < inbox'[c][k].n
        BY <2>1, <4>1, <4>2, TakenIsNext
      <4> QED
        BY <2>1, <3>3, <4>1, <4>3, RankFacts DEF Older
    <3>4. CASE m.kind = "PRIVATE"
      <4>1. m = job[c].msg /\ pc[c] = "lookup"
        BY <1>3, <3>4 DEF Began, Sendings
      <4>2. Older(m, inbox[c], said[c])
        BY <2>3, <4>1 DEF JobOrder
      <4> QED
        BY <4>2, RankFacts, OlderKept
    <3> QED
      BY <2>3, <3>1, <3>2, <3>3, <3>4 DEF Chatty
  <2> QED
    BY <2>1, <2>2, <2>3 DEF JobOrder
<1>4. CASE Looked(c)
  <2>1. /\ pc'[c] = "lookup" /\ said'[c] = said[c]
        /\ job'[c].msg.kind = "PRIVATE" /\ job'[c].msg.from = c
    BY <1>4 DEF Looked
  <2>2. PICK q \in Requests : Takes(c, q) /\ job'[c].msg.n = q.n
    BY <1>4 DEF Looked
  <2>3. ASSUME Chatty(job'[c].msg) PROVE Older(job'[c].msg, inbox'[c], said'[c])
    <3>1. q.n # 0
      BY <2>1, <2>2, <2>3 DEF Chatty
    <3>2. /\ q.n <= said[c]
          /\ \A k \in 1..Len(inbox'[c]) : inbox'[c][k].n # 0 => q.n < inbox'[c][k].n
      BY <2>1, <2>2, <3>1, TakenIsNext
    <3> QED
      BY <1>0, <2>1, <2>2, <3>2, RankFacts DEF Older
  <2> QED
    BY <2>1, <2>3 DEF JobOrder
<1>5. ASSUME NEW t \in Conns, Sent(c, t) PROVE JobOrder(c)'
  <2>1. /\ pc[c] = "send" /\ job'[c].msg = job[c].msg /\ job'[c].then = job[c].then
        /\ inbox'[c] = inbox[c] /\ said'[c] = said[c]
        /\ pc'[c] \in {job[c].then, "send"}
    BY <1>5 DEF Sent
  <2> QED
    BY <2>1 DEF JobOrder
<1> QED
  BY <1>1, <1>2, <1>3, <1>4, <1>5 DEF SessionStepOf

\* What others were told by a session stays older than what it has yet to say.
LEMMA PastStep ==
    ASSUME TypeOK, SessionState, NEW c \in Conns, InboxOrder(c), JobOrder(c), SessionStepOf(c),
           NEW m \in Replies, Chatty(m), NEW r,
           Past(m, r, pc[c], job[c], inbox[c], said[c])
    PROVE  Past(m, r, pc'[c], job'[c], inbox'[c], said'[c])
<1>0. Older(m, inbox[c], said[c]) /\ Older(m, inbox'[c], said'[c]) /\ Rank(m) \in Nat
  BY RankFacts, OlderKept DEF Past
<1>1. CASE Asked(c)
  BY <1>0, <1>1 DEF Asked, Past, Early
<1>2. CASE Advanced(c)
  BY <1>0, <1>2 DEF Advanced, Past, Early
<1>3. ASSUME NEW x \in Replies, NEW to \in SUBSET Conns, NEW next \in SessionPCs, Began(c, x, to, next)
      PROVE  Past(m, r, pc'[c], job'[c], inbox'[c], said'[c])
  <2>1. /\ job'[c].msg = x /\ job'[c].then = next /\ job'[c].to = to
        /\ pc'[c] \in {next, "send"} /\ said'[c] = said[c]
    BY <1>3 DEF Began
  <2>2. /\ pc[c] \in {"greet", "chat", "left", "lookup"} /\ m.kind # "LEFT"
        /\ next \in {"chat", "left", "cleanup"}
        /\ x.kind # "HI"
    BY <1>3 DEF Began, Sendings, Past, Early
  <2>3. ASSUME Chatty(x) PROVE Rank(m) < Rank(x)
    <3>1. CASE x.kind = "LEFT"
      BY <2>2, <3>1, RankFacts, ChatAssumption
    <3>2. CASE x.kind = "TEXT"
      <4>1. PICK q \in Requests : Takes(c, q) /\ x.n = q.n
        BY <1>3, <3>2 DEF Began
      <4>2. x.n # 0
        BY <2>3, <3>2 DEF Chatty
      <4>3. Rank(m) < q.n
        BY <1>0, <2>1, <2>2, <4>1, <4>2, TakenIsNext
      <4> QED
        BY <3>2, <4>1, <4>3, RankFacts
    <3>3. CASE x.kind = "PRIVATE"
      <4>1. x = job[c].msg /\ pc[c] = "lookup"
        BY <1>3, <3>3 DEF Began, Sendings
      <4> QED
        BY <2>3, <4>1 DEF Past
    <3> QED
      BY <2>2, <2>3, <3>1, <3>2, <3>3 DEF Chatty
  <2>4. Rank(x) \in Nat
    BY RankFacts
  <2> QED
    BY <1>0, <2>1, <2>2, <2>3, <2>4 DEF Past, Early
<1>4. CASE Looked(c)
  <2>1. /\ pc[c] = "chat" /\ pc'[c] = "lookup" /\ said'[c] = said[c]
        /\ job'[c].msg.kind = "PRIVATE"
    BY <1>4 DEF Looked
  <2>2. PICK q \in Requests : Takes(c, q) /\ job'[c].msg.n = q.n
    BY <1>4 DEF Looked
  <2>3. m.kind # "LEFT"
    BY <2>1 DEF Past
  <2>4. ASSUME Chatty(job'[c].msg) PROVE Rank(m) < Rank(job'[c].msg) /\ Rank(job'[c].msg) \in Nat
    <3>1. q.n # 0
      BY <2>1, <2>2, <2>4 DEF Chatty
    <3>2. Rank(m) < q.n /\ q.n \in Nat
      BY <1>0, <2>1, <2>2, <2>3, <3>1, TakenIsNext
    <3>3. Rank(job'[c].msg) = q.n
      BY <2>1, <2>2 DEF Rank
    <3> QED
      BY <3>2, <3>3
  <2> QED
    BY <1>0, <2>1, <2>3, <2>4 DEF Past, Early
<1>5. ASSUME NEW t \in Conns, Sent(c, t)
      PROVE  Past(m, r, pc'[c], job'[c], inbox'[c], said'[c])
  <2>1. /\ pc[c] = "send" /\ job'[c].msg = job[c].msg /\ job'[c].then = job[c].then
        /\ job'[c].to = job[c].to \ {t}
        /\ pc'[c] \in {job[c].then, "send"}
    BY <1>5 DEF Sent
  <2>2. job[c].then \in {"greet", "chat", "left", "cleanup"}
    BY <2>1 DEF SessionState, Past
  <2>3. m.kind = "LEFT" => job[c].msg.kind = "LEFT" /\ job[c].then = "cleanup"
    BY <2>1 DEF Past, JobOrder, Chatty
  <2>4. Chatty(job'[c].msg) =>
            /\ Rank(m) <= Rank(job'[c].msg)
            /\ r \in job'[c].to => Rank(m) < Rank(job'[c].msg)
    BY <2>1 DEF Past
  <2>5. CASE pc'[c] = "send"
    BY <1>0, <2>1, <2>2, <2>3, <2>4, <2>5 DEF Past, Early
  <2>6. CASE pc'[c] = job[c].then
    BY <1>0, <2>1, <2>2, <2>3, <2>6 DEF Past, Early
  <2> QED
    BY <2>1, <2>5, <2>6
<1> QED
  BY <1>1, <1>2, <1>3, <1>4, <1>5 DEF SessionStepOf

\* What a session sends now is as old as what it is sending.
LEMMA NewPast ==
    ASSUME TypeOK, SessionState, NEW c \in Conns, JobOrder(c), NEW r \in Conns, Sent(c, r),
           Chatty(job[c].msg)
    PROVE  Past(job[c].msg, r, pc'[c], job'[c], inbox'[c], said'[c])
<1>1. /\ pc[c] = "send" /\ job'[c].msg = job[c].msg /\ job'[c].then = job[c].then
      /\ job'[c].to = job[c].to \ {r}
      /\ pc'[c] \in {job[c].then, "send"}
      /\ inbox'[c] = inbox[c] /\ said'[c] = said[c]
  BY DEF Sent
<1>2. /\ Older(job[c].msg, inbox'[c], said'[c])
      /\ job[c].then = CASE job[c].msg.kind = "HI" -> "greet"
                         [] job[c].msg.kind = "LEFT" -> "cleanup"
                         [] OTHER -> "chat"
  BY <1>1 DEF JobOrder
<1>3. job[c].then \in {"greet", "cleanup", "chat"}
      /\ (job[c].msg.kind = "LEFT" => job[c].then = "cleanup")
  BY <1>2
<1>4. Rank(job[c].msg) \in Nat
  BY RankFacts DEF TypeOK
<1>5. CASE pc'[c] = "send"
  BY <1>1, <1>2, <1>3, <1>4, <1>5 DEF Past, Early
<1>6. CASE pc'[c] = job[c].then
  BY <1>1, <1>2, <1>3, <1>6 DEF Past, Early
<1> QED
  BY <1>1, <1>5, <1>6

\* Who sent what is on a connection: every message is from a session.
LEMMA OutboxTypes ==
    ASSUME TypeOK, NEW r \in Conns
    PROVE  /\ outbox[r] \in Seq(Replies)
           /\ \A i \in 1..Len(outbox[r]) : outbox[r][i] \in Replies /\ outbox[r][i].from \in Conns
<1>1. \A i \in 1..Len(outbox[r]) : outbox[r][i] \in Replies
  BY DEF TypeOK
<1> QED
  BY <1>1 DEF TypeOK, Replies

LEMMA DeliveredStep ==
    ASSUME TypeOK, SessionState, \A c \in Conns : InboxOrder(c) /\ JobOrder(c) /\ SessionStepOf(c),
           \A r \in Conns : Carried(r), Delivered
    PROVE  Delivered'
<1> SUFFICES ASSUME NEW r \in Conns, NEW i \in 1..Len(outbox'[r]), Chatty(outbox'[r][i])
             PROVE  LET m == outbox'[r][i]
                        c == m.from
                    IN  Past(m, r, pc'[c], job'[c], inbox'[c], said'[c])
  BY DEF Delivered
<1>1. ASSUME NEW m \in Replies, m.from \in Conns, Chatty(m),
             Past(m, r, pc[m.from], job[m.from], inbox[m.from], said[m.from])
      PROVE  Past(m, r, pc'[m.from], job'[m.from], inbox'[m.from], said'[m.from])
  BY <1>1, PastStep
<1>2. CASE outbox'[r] = outbox[r]
  <2>1. outbox'[r][i] \in Replies /\ outbox'[r][i].from \in Conns
    BY <1>2, OutboxTypes
  <2> QED
    BY <1>1, <1>2, <2>1 DEF Delivered
<1>3. ASSUME NEW d \in Conns, Sent(d, r), outbox'[r] = Append(outbox[r], job[d].msg)
      PROVE  Past(outbox'[r][i], r, pc'[outbox'[r][i].from], job'[outbox'[r][i].from],
                  inbox'[outbox'[r][i].from], said'[outbox'[r][i].from])
  <2>1. /\ outbox'[r][Len(outbox[r]) + 1] = job[d].msg
        /\ \A k \in 1..Len(outbox[r]) : outbox'[r][k] = outbox[r][k]
        /\ \A k \in 1..Len(outbox'[r]) : k \in 1..Len(outbox[r]) \/ k = Len(outbox[r]) + 1
    BY <1>3, OutboxTypes, AppendFacts
  <2>2. CASE i \in 1..Len(outbox[r])
    <3>1. outbox'[r][i] = outbox[r][i] /\ outbox'[r][i] \in Replies /\ outbox'[r][i].from \in Conns
      BY <2>1, <2>2, OutboxTypes
    <3> QED
      BY <1>1, <2>2, <3>1 DEF Delivered
  <2>3. CASE outbox'[r][i] = job[d].msg
    <3>1. job[d].msg.from = d
      BY <1>3 DEF Sent, JobOrder
    <3>2. Chatty(job[d].msg)
      BY <2>3
    <3> QED
      BY <1>3, <2>3, <3>1, <3>2, NewPast
  <2> QED
    BY <2>1, <2>2, <2>3
<1> QED
  BY <1>2, <1>3 DEF Carried

LEMMA SenderOrderStep ==
    ASSUME TypeOK, \A c \in Conns : JobOrder(c), \A r \in Conns : Carried(r),
           Delivered, SenderOrder
    PROVE  SenderOrder'
<1> SUFFICES ASSUME NEW r \in Conns, NEW i \in 1..Len(outbox'[r]), NEW j \in 1..Len(outbox'[r]),
                    i < j, outbox'[r][i].from = outbox'[r][j].from,
                    Chatty(outbox'[r][i]), Chatty(outbox'[r][j])
             PROVE  Rank(outbox'[r][i]) < Rank(outbox'[r][j])
  BY DEF SenderOrder, Chatty
<1>1. \A k, l \in 1..Len(outbox[r]) :
        k < l /\ outbox[r][k].from = outbox[r][l].from /\ Chatty(outbox[r][k]) /\ Chatty(outbox[r][l])
        => Rank(outbox[r][k]) < Rank(outbox[r][l])
  BY DEF SenderOrder, Chatty
<1>2. CASE outbox'[r] = outbox[r]
  BY <1>1, <1>2
<1>3. ASSUME NEW d \in Conns, Sent(d, r), outbox'[r] = Append(outbox[r], job[d].msg)
      PROVE  Rank(outbox'[r][i]) < Rank(outbox'[r][j])
  <2>1. /\ outbox'[r][Len(outbox[r]) + 1] = job[d].msg
        /\ \A k \in 1..Len(outbox[r]) : outbox'[r][k] = outbox[r][k]
        /\ \A k \in 1..Len(outbox'[r]) : k \in 1..Len(outbox[r]) \/ k = Len(outbox[r]) + 1
        /\ Len(outbox[r]) \in Nat
    BY <1>3, OutboxTypes, AppendFacts
  <2>2. i \in 1..Len(outbox[r])
    BY <2>1
  <2>3. CASE j \in 1..Len(outbox[r])
    BY <1>1, <2>1, <2>2, <2>3
  <2>4. CASE j = Len(outbox[r]) + 1
    <3>1. pc[d] = "send" /\ r \in job[d].to /\ job[d].msg.from = d
      BY <1>3 DEF Sent, JobOrder
    <3>2. outbox[r][i].from = d /\ Chatty(outbox[r][i]) /\ Chatty(job[d].msg)
      BY <2>1, <2>2, <2>4, <3>1
    <3>3. Rank(outbox[r][i]) < Rank(job[d].msg)
      BY <2>2, <3>1, <3>2 DEF Delivered, Past
    <3> QED
      BY <2>1, <2>2, <2>4, <3>3
  <2> QED
    BY <2>1, <2>3, <2>4
<1> QED
  BY <1>2, <1>3 DEF Carried

-----------------------------------------------------------------------------
(* The welcome. *)

\* Nobody but its own session sends to a client that has no name yet.
LEMMA UnnamedHears ==
    ASSUME TypeOK, JobAudience, \A d \in Conns : JobOrder(d), NEW c \in Conns,
           user[c] = EmptyNick, Carried(c)
    PROVE  \/ outbox'[c] = outbox[c]
           \/ Sent(c, c) /\ outbox'[c] = Append(outbox[c], job[c].msg)
<1> SUFFICES ASSUME NEW d \in Conns, pc[d] = "send", c \in job[d].to PROVE d = c
  BY DEF Carried
<1>1. MayHear(c, job[d].msg) /\ job[d].msg.from = d
  BY DEF JobAudience, JobOrder
<1> QED
  BY <1>1, ChatAssumption DEF MayHear

LEMMA UnregisteredStep ==
    ASSUME TypeOK, JobAudience, \A d \in Conns : JobOrder(d), NEW c \in Conns,
           user[c] = EmptyNick, user'[c] = EmptyNick, Unregistered(c),
           SessionStepOf(c), Carried(c)
    PROVE  Unregistered(c)'
<1>1. \/ outbox'[c] = outbox[c]
      \/ Sent(c, c) /\ outbox'[c] = Append(outbox[c], job[c].msg)
  BY UnnamedHears
<1>2. ASSUME NEW t \in Conns, Sent(c, t) PROVE Unregistered(c)'
  <2>1. /\ pc[c] = "send" /\ t \in job[c].to
        /\ job'[c].msg = job[c].msg /\ job'[c].then = job[c].then /\ job'[c].to = job[c].to \ {t}
        /\ pc'[c] = IF job[c].to = {t} THEN job[c].then ELSE "send"
    BY <1>2 DEF Sent
  <2>2. job[c].to \subseteq {c}
    BY <2>1 DEF Unregistered
  <2>3. pc'[c] = job[c].then
    BY <2>1, <2>2
  <2>4. CASE job[c].then = "auth" /\ outbox[c] = <<>>
    <3>1. Len(outbox'[c]) <= 1
      <4>1. CASE outbox'[c] = outbox[c]
        BY <2>4, <4>1
      <4>2. CASE outbox'[c] = Append(outbox[c], job[c].msg)
        BY <2>4, <4>2
      <4> QED
        BY <1>1, <4>1, <4>2
    <3> QED
      BY <2>3, <2>4, <3>1 DEF Unregistered
  <2>5. CASE job[c].then = "cleanup" /\ job[c].msg.kind = "ERROR" /\ Len(outbox[c]) <= 1
    <3>1. Len(outbox'[c]) <= 1 \/ (Len(outbox'[c]) = 2 /\ outbox'[c][2].kind = "ERROR")
      <4>1. CASE outbox'[c] = outbox[c]
        BY <2>5, <4>1
      <4>2. CASE outbox'[c] = Append(outbox[c], job[c].msg)
        <5>1. Len(outbox'[c]) = Len(outbox[c]) + 1 /\ Len(outbox[c]) \in Nat
              /\ outbox'[c][Len(outbox[c]) + 1] = job[c].msg
          BY <4>2, OutboxTypes, AppendFacts
        <5>2. Len(outbox[c]) <= 1
          BY <2>5
        <5>3. Len(outbox[c]) = 0 \/ Len(outbox[c]) = 1
          <6>1. \A n \in Nat : n <= 1 => n = 0 \/ n = 1
            OBVIOUS
          <6>2. Len(outbox[c]) \in Nat
            BY <5>1
          <6> QED
            BY <5>2, <6>1, <6>2
        <5>4. CASE Len(outbox[c]) = 0
          BY <5>1, <5>4
        <5>5. CASE Len(outbox[c]) = 1
          BY <2>5, <5>1, <5>5
        <5> QED
          BY <5>3, <5>4, <5>5
      <4> QED
        BY <1>1, <4>1, <4>2
    <3> QED
      BY <2>3, <2>5, <3>1 DEF Unregistered
  <2> QED
    BY <2>1, <2>4, <2>5 DEF Unregistered
<1>3. CASE ~ \E t \in Conns : Sent(c, t)
  <2>1. outbox'[c] = outbox[c]
    BY <1>1, <1>3
  <2>2. CASE Asked(c)
    BY <2>1, <2>2 DEF Asked, Unregistered
  <2>3. CASE Advanced(c)
    BY <2>1, <2>3 DEF Advanced, Unregistered
  <2>4. ASSUME NEW m \in Replies, NEW to \in SUBSET Conns, NEW next \in SessionPCs, Began(c, m, to, next)
        PROVE  Unregistered(c)'
    <3>1. /\ job'[c].msg = m /\ job'[c].then = next /\ job'[c].to = to
          /\ pc'[c] = IF to = {} THEN next ELSE "send"
          /\ <<pc[c], m.kind, next>> \in Sendings
          /\ pc[c] \in {"hello", "auth"} => to = {c}
      BY <2>4 DEF Began
    <3>2. pc[c] \in {"hello", "auth"}
      BY <3>1 DEF Unregistered, Sendings
    <3>3. \/ m.kind = "WELCOME" /\ next = "auth" /\ pc[c] = "hello"
          \/ m.kind = "ERROR" /\ next = "cleanup"
      BY <3>1, <3>2 DEF Sendings
    <3>4. Len(<<>>) = 0
      OBVIOUS
    <3> QED
      BY <2>1, <3>1, <3>2, <3>3, <3>4 DEF Unregistered
  <2>5. CASE Looked(c)
    BY <2>5 DEF Looked, Unregistered
  <2> QED
    BY <1>3, <2>2, <2>3, <2>4, <2>5 DEF SessionStepOf
<1> QED
  BY <1>2, <1>3

\* A client enters the room by what its connection carried.
LEMMA PhaseStep ==
    ASSUME TypeOK, [Next]_vars, NEW c \in Conns, phase'[c] \in {"chat", "quit"}
    PROVE  \/ phase[c] \in {"chat", "quit"}
           \/ Len(outbox[c]) > 1 /\ outbox[c][2].kind # "ERROR"
<1>1. CASE phase' = phase
  BY <1>1
<1>2. ASSUME NEW d \in Conns, Client(d)
      PROVE  \/ phase[c] \in {"chat", "quit"}
             \/ Len(outbox[c]) > 1 /\ outbox[c][2].kind # "ERROR"
  BY <1>2 DEF Client, Connect, EnterNick, EnterRoom, Say, CloseSocket, Vanish, TypeOK
<1>3. ASSUME NEW d \in Conns, Session(d) \/ Dispatch(d) PROVE phase' = phase
  BY <1>3 DEF Session, Dispatch, RecvHello, RecvAuth, Register, Announce, Greet, RecvText, RecvPing,
     RecvBye, Left, RecvPrivate, Lookup, RecvGarbled, RecvOther, Send, Cleanup, Chat, clientVars
<1>4. CASE UNCHANGED vars
  BY <1>1, <1>4 DEF vars, clientVars
<1> QED
  BY <1>1, <1>2, <1>3, <1>4 DEF Next, Serve

-----------------------------------------------------------------------------
LEMMA InitOInv == Init => OInv
<1> SUFFICES ASSUME Init PROVE OInv
  OBVIOUS
<1>1. \A c \in Conns : InboxOrder(c) /\ JobOrder(c)
  BY DEF Init, InboxOrder, JobOrder
<1>2. Delivered /\ SenderOrder
  BY DEF Init, Delivered, SenderOrder
<1>3. (\A c \in Conns : Unregistered(c)) /\ WelcomeIsEarned
  BY DEF Init, Unregistered, WelcomeIsEarned
<1> QED
  BY <1>1, <1>2, <1>3 DEF OInv

LEMMA OInvStep ==
    ASSUME IInv, IInv', OInv, [Next]_vars
    PROVE  OInv'
<1> TypeOK /\ SessionState /\ JobAudience /\ TypeOK'
  BY DEF IInv
<1>1. (\A r \in Conns : Carried(r)) /\ \A d \in Conns : SessionStepOf(d)
  BY SessionSteps DEF OInv
<1>2. (\A c \in Conns : InboxOrder(c) /\ JobOrder(c))'
  BY <1>1, InboxOrderStep, JobOrderStep DEF OInv
<1>3. Delivered' /\ SenderOrder'
  BY <1>1, DeliveredStep, SenderOrderStep DEF OInv
<1>4. ASSUME NEW c \in Conns, user'[c] = EmptyNick PROVE user[c] = EmptyNick /\ Unregistered(c)
  BY <1>4, UserStep DEF UserKept, OInv
<1>5. ASSUME NEW c \in Conns, user'[c] = EmptyNick PROVE Unregistered(c)'
  BY <1>1, <1>4, <1>5, UnregisteredStep DEF OInv
<1>6. ASSUME NEW c \in Conns, phase'[c] \in {"chat", "quit"} PROVE user'[c] # EmptyNick
  <2> SUFFICES ASSUME user'[c] = EmptyNick PROVE FALSE
    OBVIOUS
  <2>1. user[c] = EmptyNick /\ Unregistered(c)
    BY <1>4
  <2>2. Len(outbox[c]) > 1 /\ outbox[c][2].kind # "ERROR"
    BY <1>6, <2>1, PhaseStep DEF OInv, WelcomeIsEarned
  <2>3. Len(outbox[c]) <= 1 \/ outbox[c][2].kind = "ERROR"
    <3>1. Len(<<>>) = 0
      OBVIOUS
    <3> QED
      BY <2>1, <3>1 DEF Unregistered
  <2>4. Len(outbox[c]) \in Nat
    BY OutboxTypes
  <2> QED
    BY <2>2, <2>3, <2>4
<1> QED
  BY <1>2, <1>3, <1>5, <1>6 DEF OInv, WelcomeIsEarned

LEMMA OInvariance == Spec => []OInv
BY Invariance, InitOInv, OInvStep, PTL DEF Spec

\* What a client says reaches every other user in the order it said it, each
\* message once at most, after the news of its coming and before the news of
\* its leaving, for any number of clients whose sends interleave.
THEOREM OrderIsKept == Spec => []SenderOrder
<1>1. OInv => SenderOrder
  BY DEF OInv
<1> QED
  BY OInvariance, <1>1, PTL

\* A client that takes itself to be in the room bears a name in it: nothing
\* that the others say can be taken for its welcome.
THEOREM WelcomeIsTrue == Spec => []WelcomeIsEarned
<1>1. OInv => WelcomeIsEarned
  BY DEF OInv
<1> QED
  BY OInvariance, <1>1, PTL

-----------------------------------------------------------------------------
(* The news of a departure. *)

LEMMA IncomingOwn ==
    ASSUME TypeOK, OwnNames, NEW c \in Conns, NEW m \in Incoming(c)
    PROVE  /\ m.kind \notin {"PRIVATE", "GARBLED"}
           /\ m.kind = "AUTH" => m.nick \in Choices[c]
<1>1. CASE inbox[c] # <<>>
  <2>1. m = inbox[c][1] /\ 1 \in 1..Len(inbox[c])
    BY <1>1 DEF Incoming, TypeOK
  <2> QED
    BY <2>1 DEF OwnNames
<1>2. CASE inbox[c] = <<>>
  <2>1. m = Request("BYE", EmptyNick, 0)
    BY <1>2 DEF Incoming, OwnNames
  <2> QED
    BY <2>1 DEF Request
<1> QED
  BY <1>1, <1>2

\* No session ends but by a goodbye or a refusal.
LEMMA NoThrow ==
    ASSUME TypeOK, OwnNames, NEW c \in Conns, Session(c)
    PROVE  ~RecvPrivate(c) /\ ~RecvGarbled(c) /\ ~Lookup(c)
BY IncomingOwn DEF RecvPrivate, RecvGarbled, Lookup, OwnNames

\* What sessions do to the requests and to the ends of connections.
LEMMA SessionTakes ==
    ASSUME TypeOK, NEW c \in Conns, Session(c) \/ Dispatch(c), NEW d \in Conns
    PROVE  /\ inbox'[d] = inbox[d] \/ (inbox[d] # <<>> /\ inbox'[d] = Tail(inbox[d]))
           /\ peer'[d] = "abort" => peer[d] = "abort"
           /\ peer'[d] = "open" => peer[d] = "open"
<1>1. ASSUME NEW m, Receive(c, m)
      PROVE  /\ inbox'[d] = inbox[d] \/ (inbox[d] # <<>> /\ inbox'[d] = Tail(inbox[d]))
             /\ peer'[d] = "abort" => peer[d] = "abort"
             /\ peer'[d] = "open" => peer[d] = "open"
  BY <1>1 DEF Receive, TypeOK
<1>2. CASE \/ RecvHello(c) \/ RecvAuth(c) \/ RecvText(c) \/ RecvPing(c) \/ RecvBye(c)
           \/ RecvPrivate(c) \/ RecvGarbled(c) \/ RecvOther(c)
  <2>1. \E m : Receive(c, m)
    BY <1>2 DEF RecvHello, RecvAuth, RecvText, RecvPing, RecvBye, RecvPrivate, RecvGarbled, RecvOther, Chat
  <2> QED
    BY <1>1, <2>1
<1>3. CASE Register(c) \/ Announce(c) \/ Greet(c) \/ Left(c) \/ Lookup(c) \/ Cleanup(c) \/ Dispatch(c)
  <2>1. inbox' = inbox /\ peer' = peer
    BY <1>3 DEF Register, Announce, Greet, Left, Lookup, Cleanup, Dispatch, netVars
  <2> QED
    BY <2>1
<1>4. CASE Send(c)
  <2>1. inbox' = inbox
    BY <1>4 DEF Send
  <2>2. PICK r \in Conns : Deliver(r, job[c].msg)
    BY <1>4 DEF Send, TypeOK
  <2>3. peer' = peer \/ peer' = [peer EXCEPT ![r] = "rst"] \/ (peer[r] = "fin" /\ peer' = [peer EXCEPT ![r] = "fin"])
    BY <2>2 DEF Deliver
  <2> QED
    BY <2>1, <2>3 DEF TypeOK
<1> QED
  BY <1>2, <1>3, <1>4 DEF Session

LEMMA OwnRequestsStep ==
    ASSUME Orderly, TypeOK, OwnNames, [Next]_vars, NEW c \in Conns
    PROVE  /\ peer'[c] # "abort"
           /\ \A i \in 1..Len(inbox'[c]) :
                /\ inbox'[c][i].kind \notin {"PRIVATE", "GARBLED"}
                /\ inbox'[c][i].kind = "AUTH" => inbox'[c][i].nick \in Choices[c]
<1> DEFINE Own(m) == m.kind \notin {"PRIVATE", "GARBLED"} /\ (m.kind = "AUTH" => m.nick \in Choices[c])
<1>1. peer[c] # "abort" /\ inbox[c] \in Seq(Requests) /\ \A i \in 1..Len(inbox[c]) : Own(inbox[c][i])
  BY DEF OwnNames, TypeOK
<1> SUFFICES peer'[c] # "abort" /\ \A i \in 1..Len(inbox'[c]) : Own(inbox'[c][i])
  OBVIOUS
<1> HIDE DEF Own
<1>2. CASE inbox'[c] = inbox[c] /\ peer'[c] # "abort"
  BY <1>1, <1>2
<1>3. CASE inbox[c] # <<>> /\ inbox'[c] = Tail(inbox[c]) /\ peer'[c] # "abort"
  <2>1. \A i \in 1..Len(inbox'[c]) : inbox'[c][i] = inbox[c][i + 1] /\ i + 1 \in 1..Len(inbox[c])
    BY <1>1, <1>3, TailFacts
  <2> QED
    BY <1>1, <1>3, <2>1
<1>4. ASSUME NEW q, Own(q), inbox'[c] = Append(inbox[c], q), peer'[c] # "abort"
      PROVE  peer'[c] # "abort" /\ \A i \in 1..Len(inbox'[c]) : Own(inbox'[c][i])
  <2>1. /\ inbox'[c][Len(inbox[c]) + 1] = q
        /\ \A i \in 1..Len(inbox[c]) : inbox'[c][i] = inbox[c][i]
        /\ \A i \in 1..Len(inbox'[c]) : i \in 1..Len(inbox[c]) \/ i = Len(inbox[c]) + 1
    BY <1>1, <1>4, AppendFacts
  <2> QED
    BY <1>1, <1>4, <2>1
<1>5. ASSUME NEW d \in Conns, Session(d) \/ Dispatch(d)
      PROVE  peer'[c] # "abort" /\ \A i \in 1..Len(inbox'[c]) : Own(inbox'[c][i])
  BY <1>1, <1>2, <1>3, <1>5, SessionTakes
<1>6. ASSUME NEW d \in Conns, Client(d)
      PROVE  peer'[c] # "abort" /\ \A i \in 1..Len(inbox'[c]) : Own(inbox'[c][i])
  <2>1. ASSUME NEW q, SendRequest(d, q), Own(q) \/ d # c, peer' = peer
        PROVE  peer'[c] # "abort" /\ \A i \in 1..Len(inbox'[c]) : Own(inbox'[c][i])
    <3>1. CASE d = c
      <4>1. inbox'[c] = Append(inbox[c], q)
        BY <2>1, <3>1 DEF SendRequest, TypeOK
      <4> QED
        BY <1>1, <1>4, <2>1, <3>1, <4>1
    <3>2. CASE d # c
      <4>1. inbox'[c] = inbox[c]
        BY <2>1, <3>2 DEF SendRequest, TypeOK
      <4> QED
        BY <1>1, <1>2, <2>1, <4>1
    <3> QED
      BY <3>1, <3>2
  <2>2. CASE Connect(d)
    <3>1. Own(Request("HELLO", EmptyNick, 0))
      BY DEF Own, Request
    <3> QED
      BY <2>1, <2>2, <3>1 DEF Connect, netVars
  <2>3. ASSUME NEW n \in Names, EnterNick(d, n)
        PROVE  peer'[c] # "abort" /\ \A i \in 1..Len(inbox'[c]) : Own(inbox'[c][i])
    <3>1. Own(Request("AUTH", n, 0)) \/ d # c
      BY <2>3 DEF Own, Request, EnterNick
    <3> QED
      BY <2>1, <2>3, <3>1 DEF EnterNick, netVars
  <2>4. ASSUME NEW kind \in Kinds[d], NEW n, Say(d, kind, n)
        PROVE  peer'[c] # "abort" /\ \A i \in 1..Len(inbox'[c]) : Own(inbox'[c][i])
    <3>1. kind \notin {"PRIVATE", "GARBLED", "AUTH"}
      BY ChatAssumption DEF Orderly, ChatKinds
    <3>2. Own(Request(kind, n, said[d] + 1))
      BY <3>1 DEF Own, Request
    <3> QED
      BY <2>1, <2>4, <3>2 DEF Say, netVars
  <2>5. CASE EnterRoom(d) \/ CloseSocket(d) \/ \E fault \in Faults : Vanish(d, fault)
    <3>1. inbox' = inbox /\ peer'[c] # "abort"
      BY <1>1, <2>5 DEF EnterRoom, CloseSocket, Vanish, netVars, Orderly, TypeOK
    <3> QED
      BY <1>2, <3>1
  <2> QED
    BY <1>6, <2>2, <2>3, <2>4, <2>5 DEF Client
<1>7. CASE UNCHANGED vars
  BY <1>1, <1>2, <1>7 DEF vars, netVars
<1> QED
  BY <1>5, <1>6, <1>7 DEF Next, Serve

\* Names are taken from AUTH requests, and registered once.
LEMMA OwnNamesStep ==
    ASSUME Orderly, TypeOK, SessionState, OwnNames, [Next]_vars
    PROVE  OwnNames'
<1> SUFFICES ASSUME NEW c \in Conns
             PROVE  /\ pc'[c] # "lookup"
                    /\ pc'[c] = "register" => nickname'[c] \in Choices[c]
                    /\ user'[c] # EmptyNick => user'[c] \in Choices[c]
  BY OwnRequestsStep DEF OwnNames
<1>1. /\ pc[c] # "lookup"
      /\ pc[c] = "register" => nickname[c] \in Choices[c]
      /\ user[c] # EmptyNick => user[c] \in Choices[c]
  BY DEF OwnNames
<1>2. CASE pc'[c] = pc[c] /\ nickname'[c] = nickname[c] /\ user'[c] = user[c]
  BY <1>1, <1>2
<1>3. CASE pc'[c] \notin {"lookup", "register"} /\ user'[c] = user[c]
  BY <1>1, <1>3
<1>4. ASSUME NEW d \in Conns, Client(d)
      PROVE  \/ pc'[c] = pc[c] /\ nickname'[c] = nickname[c] /\ user'[c] = user[c]
             \/ pc'[c] \notin {"lookup", "register"} /\ user'[c] = user[c]
  BY <1>4 DEF Client, Connect, EnterNick, EnterRoom, Say, CloseSocket, Vanish, tableVars, Goto, TypeOK
<1>5. ASSUME NEW d \in Conns, RecvAuth(d)
      PROVE  /\ pc'[c] # "lookup"
             /\ pc'[c] = "register" => nickname'[c] \in Choices[c]
             /\ user'[c] # EmptyNick => user'[c] \in Choices[c]
  <2>1. PICK m \in Incoming(d) :
          /\ nickname' = [nickname EXCEPT ![d] = m.nick]
          /\ IF m.kind # "AUTH" \/ Refused(m.nick)
             THEN StartSending(d, Plain("ERROR", d), {d}, "cleanup")
             ELSE Goto(d, "register") /\ UNCHANGED job
    BY <1>5 DEF RecvAuth
  <2>2. user' = user
    BY <1>5 DEF RecvAuth
  <2>3. CASE d # c
    BY <1>2, <2>1, <2>2, <2>3 DEF StartSending, Goto, TypeOK
  <2>4. CASE d = c
    <3>1. m.kind = "AUTH" => m.nick \in Choices[c]
      BY <2>4, IncomingOwn
    <3>2. nickname'[c] = m.nick
      BY <2>1, <2>4 DEF TypeOK
    <3>3. pc'[c] \in {"send", "cleanup"} \/ (pc'[c] = "register" /\ m.kind = "AUTH")
      BY <2>1, <2>4 DEF StartSending, Goto, TypeOK
    <3> QED
      BY <1>1, <2>2, <3>1, <3>2, <3>3
  <2> QED
    BY <2>3, <2>4
<1>6. ASSUME NEW d \in Conns, Register(d)
      PROVE  /\ pc'[c] # "lookup"
             /\ pc'[c] = "register" => nickname'[c] \in Choices[c]
             /\ user'[c] # EmptyNick => user'[c] \in Choices[c]
  BY <1>1, <1>6 DEF Register, Goto, TypeOK
<1>7. ASSUME NEW d \in Conns,
             \/ RecvHello(d) \/ RecvText(d) \/ RecvPing(d) \/ RecvBye(d) \/ RecvOther(d)
             \/ Announce(d) \/ Greet(d) \/ Left(d) \/ Cleanup(d) \/ Dispatch(d)
      PROVE  \/ pc'[c] = pc[c] /\ nickname'[c] = nickname[c] /\ user'[c] = user[c]
             \/ pc'[c] \notin {"lookup", "register"} /\ user'[c] = user[c]
  BY <1>7 DEF RecvHello, RecvText, RecvPing, RecvBye, RecvOther, Announce, Greet, Left, Cleanup,
     Dispatch, Chat, StartSending, Goto, tableVars, TypeOK
<1>8. ASSUME NEW d \in Conns, Send(d)
      PROVE  \/ pc'[c] = pc[c] /\ nickname'[c] = nickname[c] /\ user'[c] = user[c]
             \/ pc'[c] \notin {"lookup", "register"} /\ user'[c] = user[c]
  BY <1>8 DEF Send, SessionState, StartSending, Goto, tableVars, TypeOK
<1>9. CASE UNCHANGED vars
  BY <1>2, <1>9 DEF vars, tableVars
<1> QED
  BY <1>2, <1>3, <1>4, <1>5, <1>6, <1>7, <1>8, <1>9, NoThrow DEF Next, Serve, Session

\* The table changes by a registration or at the end of a session.
LEMMA TableSteps ==
    ASSUME TypeOK, SessionState, [Next]_vars
    PROVE  \/ conns' = conns /\ user' = user
           \/ \E d \in Conns : Register(d) \/ Cleanup(d)
<1>1. CASE UNCHANGED vars
  BY <1>1 DEF vars, tableVars
<1>2. ASSUME NEW d \in Conns, Client(d) PROVE conns' = conns /\ user' = user
  BY <1>2 DEF Client, Connect, EnterNick, EnterRoom, Say, CloseSocket, Vanish, tableVars
<1>3. ASSUME NEW d \in Conns, Session(d) \/ Dispatch(d), ~Register(d), ~Cleanup(d)
      PROVE  conns' = conns /\ user' = user
  BY <1>3 DEF Session, Dispatch, RecvHello, RecvAuth, Announce, Greet, RecvText, RecvPing,
     RecvBye, Left, RecvPrivate, Lookup, RecvGarbled, RecvOther, Send, Chat, tableVars
<1> QED
  BY <1>1, <1>2, <1>3 DEF Next, Serve

\* The entry of a user is its own as long as nobody else may use its name.
LEMMA SeatedStep ==
    ASSUME Orderly, TypeOK, TypeOK', SessionState, OwnNames, OwnNames', Seated, [Next]_vars,
           NEW c \in Conns, SessionStepOf(c), user'[c] # EmptyNick, pc'[c] # "done"
    PROVE  conns'[user'[c]] = c
<1>1. pc[c] # "done"
  BY DEF SessionStepOf, Asked, Advanced, Began, Looked, Sent, Sendings
<1>2. \A d \in Conns : user[d] # EmptyNick => user[d] \in Nicks /\ user[d] \in Choices[d]
  BY DEF OwnNames, TypeOK
<1>3. \A d, e \in Conns : d # e => Choices[d] \cap Choices[e] = {}
  BY DEF Orderly
<1>4. CASE conns' = conns /\ user' = user
  BY <1>1, <1>4 DEF Seated
<1>5. ASSUME NEW d \in Conns, Register(d) PROVE conns'[user'[c]] = c
  <2>1. /\ nickname[d] \in Nicks /\ nickname[d] \in Choices[d]
        /\ conns' = [conns EXCEPT ![nickname[d]] = d]
        /\ user' = [user EXCEPT ![d] = nickname[d]]
    BY <1>5 DEF Register, SessionState, OwnNames
  <2>2. CASE d = c
    BY <2>1, <2>2 DEF TypeOK
  <2>3. CASE d # c
    <3>1. user'[c] = user[c] /\ user[c] \in Choices[c] /\ user[c] \in Nicks
      BY <1>2, <2>1, <2>3 DEF TypeOK
    <3>2. user[c] # nickname[d]
      BY <1>3, <2>1, <2>3, <3>1
    <3> QED
      BY <1>1, <2>1, <3>1, <3>2 DEF TypeOK, Seated
  <2> QED
    BY <2>2, <2>3
<1>6. ASSUME NEW d \in Conns, Cleanup(d) PROVE conns'[user'[c]] = c
  <2>1. /\ conns' = [n \in Nicks |-> IF n = user[d] THEN NoConn ELSE conns[n]]
        /\ user' = user /\ pc'[d] = "done"
    BY <1>6 DEF Cleanup, Erased, Goto, TypeOK
  <2>2. d # c /\ user[c] \in Nicks /\ user[c] \in Choices[c]
    BY <1>2, <2>1
  <2>3. user[c] # user[d]
    BY <1>2, <1>3, <2>2, ChatAssumption
  <2> QED
    BY <1>1, <2>1, <2>2, <2>3 DEF Seated
<1> QED
  BY <1>4, <1>5, <1>6, TableSteps

\* The room is left by a goodbye only.
LEMMA RoomIsLeftPolitely ==
    ASSUME TypeOK, SessionState, OwnNames, [Next]_vars, NEW c \in Conns, pc[c] = "chat"
    PROVE  pc'[c] # "cleanup"
<1>1. CASE UNCHANGED vars
  BY <1>1 DEF vars
<1>2. ASSUME NEW d \in Conns, Client(d) PROVE pc'[c] # "cleanup"
  BY <1>2 DEF Client, Connect, EnterNick, EnterRoom, Say, CloseSocket, Vanish, Goto, TypeOK
<1>3. ASSUME NEW d \in Conns, \/ RecvHello(d) \/ RecvAuth(d) \/ Register(d) \/ Announce(d) \/ Greet(d)
                              \/ Left(d) \/ Lookup(d) \/ Send(d) \/ Cleanup(d) \/ Dispatch(d)
      PROVE  pc'[c] # "cleanup"
  <2>1. CASE d = c
    <3>1. CASE Dispatch(d)
      BY <2>1, <3>1 DEF Dispatch, Goto, TypeOK
    <3> QED
      BY <1>3, <2>1, <3>1 DEF RecvHello, RecvAuth, Register, Announce, Greet, Left, Lookup, Send, Cleanup
  <2>2. CASE d # c
    BY <1>3, <2>2 DEF RecvHello, RecvAuth, Register, Announce, Greet, Left, Lookup, Send, Cleanup,
       Dispatch, StartSending, Goto, TypeOK
  <2> QED
    BY <2>1, <2>2
<1>4. ASSUME NEW d \in Conns, RecvText(d) \/ RecvPing(d) \/ RecvBye(d) \/ RecvOther(d)
      PROVE  pc'[c] # "cleanup"
  BY <1>4 DEF RecvText, RecvPing, RecvBye, RecvOther, StartSending, Goto, TypeOK
<1> QED
  BY <1>1, <1>2, <1>3, <1>4, NoThrow DEF Next, Serve, Session

\* A send is a session's own, and reaches a client that is still there.
LEMMA SendArrives ==
    ASSUME TypeOK, SessionState, [Next]_vars, NEW c \in Conns, NEW r \in Conns, Sent(c, r),
           peer[r] = "open"
    PROVE  outbox'[r] = Append(outbox[r], job[c].msg)
<1>1. /\ pc[c] = "send" /\ r \in job[c].to /\ job'[c].to = job[c].to \ {r}
      /\ job'[c] # job[c]
  BY DEF Sent
<1>2. ~ UNCHANGED vars
  BY <1>1 DEF vars
<1>3. ASSUME NEW d \in Conns, Client(d) PROVE job'[c] = job[c]
  BY <1>3 DEF Client, Connect, EnterNick, EnterRoom, Say, CloseSocket, Vanish
<1>4. ASSUME NEW d \in Conns, Dispatch(d) PROVE job'[c] = job[c]
  BY <1>4 DEF Dispatch
<1>5. ASSUME NEW d \in Conns, Session(d), d # c PROVE job'[c] = job[c]
  BY <1>5 DEF Session, RecvHello, RecvAuth, Register, Announce, Greet, RecvText, RecvPing, RecvBye,
     Left, RecvPrivate, Lookup, RecvGarbled, RecvOther, Send, Cleanup, StartSending, TypeOK
<1>6. Session(c)
  BY <1>1, <1>2, <1>3, <1>4, <1>5 DEF Next, Serve
<1>7. Send(c)
  BY <1>1, <1>6 DEF Session, RecvHello, RecvAuth, Register, Announce, Greet, RecvText, RecvPing, RecvBye,
     Left, RecvPrivate, Lookup, RecvGarbled, RecvOther, Cleanup, Chat
<1>8. PICK s \in job[c].to : Deliver(s, job[c].msg) /\ job'[c].to = job[c].to \ {s}
  BY <1>7 DEF Send, StartSending, Remaining, TypeOK
<1>9. s = r
  BY <1>1, <1>8
<1> QED
  BY <1>8, <1>9 DEF Deliver, TypeOK

\* Nobody comes back.
LEMMA ClosedForGood ==
    ASSUME TypeOK, [Next]_vars, NEW r \in Conns, peer'[r] = "open"
    PROVE  peer[r] = "open"
<1>1. CASE UNCHANGED vars
  BY <1>1 DEF vars, netVars
<1>2. ASSUME NEW d \in Conns, Client(d) PROVE peer[r] = "open"
  BY <1>2, ChatAssumption DEF Client, Connect, EnterNick, EnterRoom, Say, CloseSocket, Vanish, netVars, TypeOK
<1>3. ASSUME NEW d \in Conns, Session(d) \/ Dispatch(d) PROVE peer[r] = "open"
  BY <1>3, SessionTakes
<1> QED
  BY <1>1, <1>2, <1>3 DEF Next, Serve

\* What a connection has carried stays there, and only a send adds to it.
LEMMA HeardSteps ==
    ASSUME TypeOK, NEW r \in Conns, NEW c \in Conns, NEW kind, Carried(r),
           \A d \in Conns : JobOrder(d)
    PROVE  /\ Heard(r, c, kind) => Heard(r, c, kind)'
           /\ Heard(r, c, kind)' =>
                \/ Heard(r, c, kind)
                \/ Sent(c, r) /\ job[c].msg.kind = kind
<1>1. CASE outbox'[r] = outbox[r]
  BY <1>1 DEF Heard
<1>2. ASSUME NEW d \in Conns, pc[d] = "send", Sent(d, r), outbox'[r] = Append(outbox[r], job[d].msg)
      PROVE  /\ Heard(r, c, kind) => Heard(r, c, kind)'
             /\ Heard(r, c, kind)' =>
                  \/ Heard(r, c, kind)
                  \/ Sent(c, r) /\ job[c].msg.kind = kind
  <2>1. /\ outbox'[r][Len(outbox[r]) + 1] = job[d].msg
        /\ \A i \in 1..Len(outbox[r]) : outbox'[r][i] = outbox[r][i] /\ i \in 1..Len(outbox'[r])
        /\ \A i \in 1..Len(outbox'[r]) : i \in 1..Len(outbox[r]) \/ i = Len(outbox[r]) + 1
    BY <1>2, OutboxTypes, AppendFacts
  <2>2. job[d].msg.from = d
    BY <1>2 DEF JobOrder
  <2> QED
    BY <1>2, <2>1, <2>2 DEF Heard
<1> QED
  BY <1>1, <1>2 DEF Carried

LEMMA SentIsHeard ==
    ASSUME TypeOK, NEW r \in Conns, NEW c \in Conns, NEW kind, JobOrder(c),
           pc[c] = "send", job[c].msg.kind = kind,
           outbox'[r] = Append(outbox[r], job[c].msg)
    PROVE  Heard(r, c, kind)'
<1>1. /\ outbox'[r][Len(outbox[r]) + 1] = job[c].msg
      /\ Len(outbox[r]) + 1 \in 1..Len(outbox'[r])
  BY OutboxTypes, AppendFacts
<1>2. job[c].msg.from = c
  BY DEF JobOrder
<1> QED
  BY <1>1, <1>2 DEF Heard

\* A departure that is due is announced to whoever was told of the arrival.
LEMMA ToldStep ==
    ASSUME IInv, IInv', OInv, DInv, [Next]_vars,
           NEW c \in Conns, NEW r \in Conns, c # r, SessionStepOf(c), SessionStepOf(r), Carried(r),
           pc'[r] # "done", peer'[r] = "open", Heard(r, c, "HI")'
    PROVE  /\ pc'[c] \in {"cleanup", "done"} => Heard(r, c, "LEFT")'
           /\ pc'[c] = "send" /\ job'[c].then = "cleanup" =>
                \/ job'[c].msg.kind = "LEFT" /\ r \in job'[c].to
                \/ Heard(r, c, "LEFT")'
<1> TypeOK /\ SessionState /\ (\A d \in Conns : JobOrder(d))
  BY DEF IInv, OInv
<1>1. pc[r] # "done" /\ peer[r] = "open"
  <2>1. pc[r] # "done"
    BY DEF SessionStepOf, Asked, Advanced, Began, Looked, Sent, Sendings
  <2> QED
    BY <2>1, ClosedForGood
<1>2. Heard(r, c, "LEFT") => Heard(r, c, "LEFT")'
  BY HeardSteps
<1>3. CASE Sent(c, r) /\ job[c].msg.kind = "HI"
  <2>1. pc[c] = "send" /\ job'[c].then = job[c].then /\ pc'[c] \in {"send", job[c].then}
    BY <1>3 DEF Sent
  <2>2. job[c].then = "greet"
    BY <1>3, <2>1 DEF JobOrder, Chatty
  <2> QED
    BY <2>1, <2>2
<1>4. CASE Heard(r, c, "HI")
  <2>1. PICK i \in 1..Len(outbox[r]) : outbox[r][i].from = c /\ outbox[r][i].kind = "HI"
    BY <1>4 DEF Heard
  <2>2. pc[c] \notin Early /\ (pc[c] = "send" => job[c].then # "auth")
    BY <2>1 DEF OInv, Delivered, Chatty, Past
  <2>3. r \in Others(c)
    <3>1. MayHear(r, outbox[r][i])
      BY <2>1 DEF IInv, Audience
    <3>2. user[r] # EmptyNick
      BY <2>1, <3>1 DEF MayHear
    <3>3. user[r] \in Nicks /\ conns[user[r]] = r
      BY <1>1, <3>2 DEF DInv, Seated, TypeOK
    <3> QED
      BY <3>3, ChatAssumption DEF Others, Registered
  <2>4. /\ pc[c] \in {"cleanup", "done"} => Heard(r, c, "LEFT")
        /\ pc[c] = "send" /\ job[c].then = "cleanup" =>
             \/ job[c].msg.kind = "LEFT" /\ r \in job[c].to
             \/ Heard(r, c, "LEFT")
    BY <1>1, <1>4 DEF DInv, Told
  <2>5. pc[c] # "lookup" /\ (pc[c] = "chat" => pc'[c] # "cleanup")
    BY RoomIsLeftPolitely DEF DInv, OwnNames
  <2>6. CASE Asked(c)
    BY <1>2, <2>2, <2>4, <2>6 DEF Asked, Early
  <2>7. CASE Advanced(c)
    <3>1. pc'[c] # "send" /\ (pc'[c] \in {"cleanup", "done"} => pc[c] = "cleanup")
      BY <2>2, <2>5, <2>7 DEF Advanced, Early
    <3> QED
      BY <1>2, <2>4, <3>1
  <2>8. ASSUME NEW m \in Replies, NEW to \in SUBSET Conns, NEW next \in SessionPCs, Began(c, m, to, next)
        PROVE  /\ pc'[c] \notin {"cleanup", "done"}
               /\ job'[c].then = "cleanup" => job'[c].msg.kind = "LEFT" /\ r \in job'[c].to
    <3>1. /\ job'[c].msg = m /\ job'[c].then = next /\ job'[c].to = to
          /\ pc'[c] = IF to = {} THEN next ELSE "send"
          /\ <<pc[c], m.kind, next>> \in Sendings
          /\ m.kind = "LEFT" => to = Others(c)
      BY <2>8 DEF Began
    <3>2. m.kind = "LEFT" \/ next \in {"chat", "left"}
      BY <2>2, <2>5, <3>1 DEF Sendings, Early
    <3>3. CASE m.kind = "LEFT"
      BY <2>3, <3>1, <3>3
    <3>4. CASE next \in {"chat", "left"}
      BY <3>1, <3>4
    <3> QED
      BY <3>2, <3>3, <3>4
  <2>9. CASE Looked(c)
    BY <2>9 DEF Looked
  <2>10. ASSUME NEW s \in Conns, Sent(c, s)
         PROVE  /\ pc'[c] \in {"cleanup", "done"} => Heard(r, c, "LEFT")'
                /\ pc'[c] = "send" /\ job'[c].then = "cleanup" =>
                     \/ job'[c].msg.kind = "LEFT" /\ r \in job'[c].to
                     \/ Heard(r, c, "LEFT")'
    <3>1. /\ pc[c] = "send" /\ s \in job[c].to
          /\ job'[c].msg = job[c].msg /\ job'[c].then = job[c].then /\ job'[c].to = job[c].to \ {s}
          /\ pc'[c] = IF job[c].to = {s} THEN job[c].then ELSE "send"
      BY <2>10 DEF Sent
    <3>2. job[c].then # "done"
      BY <3>1 DEF SessionState
    <3>3. CASE s = r /\ job[c].msg.kind = "LEFT"
      <4>1. outbox'[r] = Append(outbox[r], job[c].msg)
        BY <1>1, <2>10, <3>3, SendArrives
      <4>2. Heard(r, c, "LEFT")'
        BY <3>1, <3>3, <4>1, SentIsHeard
      <4> QED
        BY <4>2
    <3>4. CASE s # r \/ job[c].msg.kind # "LEFT"
      BY <1>2, <2>4, <3>1, <3>2, <3>4
    <3> QED
      BY <3>3, <3>4
  <2> QED
    BY <2>6, <2>7, <2>8, <2>9, <2>10 DEF SessionStepOf
<1> QED
  BY <1>3, <1>4, HeardSteps

LEMMA DInvStep ==
    ASSUME Orderly, IInv, IInv', OInv, DInv, [Next]_vars
    PROVE  DInv'
<1> TypeOK /\ TypeOK' /\ SessionState /\ JobAudience /\ OwnNames /\ Seated
  BY DEF IInv, DInv
<1>1. (\A r \in Conns : Carried(r)) /\ \A d \in Conns : SessionStepOf(d)
  BY SessionSteps DEF OInv
<1>2. OwnNames'
  BY OwnNamesStep
<1>3. Seated'
  BY <1>1, <1>2, SeatedStep DEF Seated
<1>4. Told'
  BY <1>1, ToldStep DEF Told
<1> QED
  BY <1>2, <1>3, <1>4 DEF DInv

LEMMA InitDInv == Init => DInv
BY DEF Init, DInv, OwnNames, Seated, Told, Heard

\* Who was told that somebody came is told when that user leaves, whatever
\* the interleaving, as long as connections end by a shutdown, nobody sends
\* private messages, and no two clients ask for the same name. The code keeps
\* none of this without each of the three: what a reset leaves to be received
\* and a private message to a user who left end a session by an exception
\* (see PrivateReportsMissing), and a user whose name another one took is not
\* in the table that a departure is announced to (see UniqueNick).
THEOREM DeparturesAreTold ==
    ASSUME Orderly
    PROVE  Spec => []DepartureAnnounced
<1>1. IInv /\ OInv /\ DInv /\ [Next]_vars => DInv' \/ ~IInv'
  BY DInvStep
<1>2. DInv => DepartureAnnounced
  <2> SUFFICES ASSUME DInv, NEW c \in Conns, NEW r \in Conns, c # r, pc[c] = "done", pc[r] = "chat",
                      peer[r] = "open", Heard(r, c, "HI")
               PROVE  Heard(r, c, "LEFT")
    BY DEF DepartureAnnounced, Heard
  <2> QED
    BY DEF DInv, Told
<1> QED
  BY <1>1, <1>2, InitDInv, Invariance, OInvariance, PTL DEF Spec
=============================================================================
