-------------------------- MODULE PthreadOrderProofs --------------------------
(***************************************************************************)
(* What the clients of PthreadRoom hear of each other, for any number of   *)
(* connections, threads, names and messages: that a departure is told, and *)
(* that the order of a sender is kept.                                     *)
(***************************************************************************)
EXTENDS PthreadRoomProofs

\* What one user says to the others.
News == {"HI", "TEXT", "LEFT"}

\* Connections that nobody has been told of, or was let in.
Strangers == Queued \cup Pushed \cup {conn[w] : w \in {v \in Workers : pc[v] \in Greeting}}

\* A connection is let in or sent away, and both only after it was a stranger.
Apart ==
    /\ auth \cap shut = {}
    /\ Strangers \cap (auth \cup shut) = {}

\* Others are heard by those that were let in only.
InsideHears ==
    \A r \in Conns : \A i \in 1..Len(outbox[r]) : outbox[r][i].from # r => r \in auth

Heard(r, c, kind) == \E i \in 1..Len(outbox[r]) : outbox[r][i].from = c /\ outbox[r][i].kind = kind

\* The session w will still tell r that its client leaves.
WillTell(w, r) ==
    \/ pc[w] \in Inside
    \/ pc[w] = "send" /\ job[w].kind # "LEFT"
    \/ pc[w] = "send" /\ \E i \in 1..Len(cells) : pos[w] <= i /\ cells[i] = r

\* Whoever heard of c's coming will hear of its leaving, or has.
Due(r, c) ==
    /\ c # r
    /\ r \in Listed
    /\ peer[r] = "open"
    /\ Heard(r, c, "HI")
    => \/ Heard(r, c, "LEFT")
       \/ \E w \in Workers : conn[w] = c /\ WillTell(w, r)

DInv ==
    /\ InsideHears
    /\ ~raced => Apart /\ \A r, c \in Conns : Due(r, c)

-----------------------------------------------------------------------------
Known == {enqueued[i] : i \in 1..Len(enqueued)}

\* Connections become known by being enqueued, and one that is enqueued once is
\* served once.
KnownFirst ==
    /\ Queued \subseteq Known
    /\ \A w \in Workers : conn[w] # NULL => conn[w] \in Known

ServedOnce(c) ==
    /\ \A i, j \in 1..Len(queue) : queue[i] = c /\ queue[j] = c => i = j
    /\ \A w \in Workers : conn[w] = c => c \notin Queued
    /\ \A v, w \in Workers : conn[v] = c /\ conn[w] = c => v = w

\* A connection never is in two cells.
CellsOnce ==
    \A i, j \in 1..Len(cells) : cells[i] = cells[j] /\ cells[i] # NULL => i = j

\* m is something that c has said, and has a place in what c said.
SaidBy(m, c) == m.from = c /\ m.kind \in News /\ (m.kind = "TEXT" => m.n # 0)

Silent(c) == \A r \in Conns : \A i \in 1..Len(outbox[r]) : ~SaidBy(outbox[r][i], c)

SilentFirst(c) ==
    /\ c \notin Known => Silent(c)
    /\ EnqueuedOnce(c) =>
        /\ c \in Queued => Silent(c)
        /\ \A w \in Workers : pc[w] \in Greeting /\ conn[w] = c => Silent(c)

\* What a client sends is numbered, and the numbers increase.
InboxOrder ==
    \A c \in Conns : \A i \in 1..Len(inbox[c]) :
        /\ inbox[c][i].n <= said[c]
        /\ \A j \in 1..Len(inbox[c]) : i < j /\ inbox[c][j].n # 0 => inbox[c][i].n < inbox[c][j].n

\* The number n comes before all that c has not been heard of yet.
Before(n, c) ==
    /\ n <= said[c]
    /\ \A i \in 1..Len(inbox[c]) : inbox[c][i].n # 0 => n < inbox[c][i].n

JobOrder == \A w \in Workers : pc[w] = "send" => Before(job[w].n, conn[w])

Placed(w) == job[w].kind = "TEXT" => job[w].n # 0

\* How far w has got with what its client says, as far as r's message m tells.
Follows(w, r, m) ==
    /\ pc[w] \in Inside \/ (pc[w] = "send" /\ job[w].kind # "LEFT") => Before(Rank(m), conn[w])
    /\ pc[w] = "send" /\ Placed(w) =>
        /\ Rank(m) <= Rank(job[w])
        /\ pos[w] # 0 => \A i \in 1..Len(cells) : pos[w] <= i /\ cells[i] = r => Rank(m) < Rank(job[w])

Followed(c) ==
    \A w \in Workers, r \in Conns : conn[w] = c =>
        \A i \in 1..Len(outbox[r]) : SaidBy(outbox[r][i], c) => Follows(w, r, outbox[r][i])

InOrder(c) ==
    \A r \in Conns : \A i, j \in 1..Len(outbox[r]) :
        i < j /\ SaidBy(outbox[r][i], c) /\ SaidBy(outbox[r][j], c) => Rank(outbox[r][i]) < Rank(outbox[r][j])

OInv ==
    /\ KnownFirst
    /\ CellsOnce
    /\ InboxOrder
    /\ JobOrder
    /\ \A c \in Conns :
        /\ SilentFirst(c)
        /\ EnqueuedOnce(c) => ServedOnce(c) /\ Followed(c) /\ InOrder(c)

-----------------------------------------------------------------------------
(* A step as the connections and the other sessions see it. *)

\* A step of another session, or of none.
LEMMA OthersStay ==
    ASSUME TypeOK, Places, NEW v \in Workers, Session(v) \/ Dispatch(v), NEW w \in Workers \ {v}
    PROVE  /\ pc'[w] = pc[w] /\ conn'[w] = conn[w] /\ job'[w] = job[w]
           /\ pos'[w] = pos[w] \/ (Erase(v) /\ pos'[w] = 0)
<1> USE DEF sharedVars, mainVars, localVars, frameVars, walkVars, listVars, nameVars, TypeOK
<1>1. CASE RecvHello(v) \/ Refuse(v) \/ Count(v) \/ Used(v) \/ Insert(v) \/ Announce(v)
  BY <1>1 DEF RecvHello, Refuse, Count, Used, Insert, Announce, Answer, Broadcast, Goto
<1>2. CASE Greet(v) \/ Pong(v) \/ Goodbye(v) \/ Forget(v) \/ Dispatch(v)
  BY <1>2 DEF Greet, Pong, Goodbye, Forget, Dispatch, Answer, Broadcast, Goto
<1>3. CASE RecvChat(v)
  BY <1>3 DEF RecvChat, Broadcast, Goto
<1>4. CASE Send(v)
  BY <1>4 DEF Send, Die, Advance, Restart, Goto
<1>5. CASE Remove(v)
  BY <1>5 DEF Remove, Advance, Restart, Goto
<1>6. CASE Erase(v)
  <2>1. pc[v] = "erase" /\ conn' = conn /\ job' = job
    BY <1>6, EraseCases
  <2>2. CASE Restart(v, "forget")
    BY <2>1, <2>2 DEF Restart, Goto
  <2>3. CASE dst[v] # 0 /\ pos[v] # 0 /\ Cut(v)
    BY <1>6, <2>1, <2>3, CutFacts
  <2> QED
    BY <1>6, <2>2, <2>3, EraseCases
<1> QED
  BY <1>1, <1>2, <1>3, <1>4, <1>5, <1>6 DEF Session

LEMMA SessionSteps ==
    ASSUME TypeOK, [Next]_vars
    PROVE  \/ \E w \in Workers : Session(w) \/ Dispatch(w)
           \/ /\ UNCHANGED <<pc, conn, job, pos, dst, auth, shut, outbox>>
              /\ UNCHANGED <<inbox, said>> \/ \E c \in Conns : Client(c)
              /\ cells' = cells \/ Push
              /\ UNCHANGED <<queue, enqueued>> \/ Enqueue
<1> USE DEF serverVars, sharedVars, mainVars, localVars, frameVars, walkVars, listVars, nameVars, netVars, clientVars
<1>1. CASE UNCHANGED vars
  BY <1>1 DEF vars
<1>2. ASSUME NEW c \in Conns, Client(c) PROVE UNCHANGED <<serverVars, outbox>>
  <2>1. UNCHANGED serverVars
    BY <1>2, ClientType
  <2>2. outbox' = outbox
    BY <1>2 DEF Client, EnterName, ReadReply, Say, CloseSocket, Vanish
  <2> QED
    BY <2>1, <2>2
<1>3. CASE Accepting
  BY <1>3 DEF Accepting, Accept, Push, Enqueue, AcceptFails, Exit
<1> QED
  BY <1>1, <1>2, <1>3 DEF Next, Serve

\* The session w sends its job to r.
Tells(w, r) ==
    /\ Send(w)
    /\ pos[w] \in 1..Len(cells) /\ cells[pos[w]] = r
    /\ Hears(w, r)
    /\ Deliver(r, Reply(job[w].kind, conn[w], job[w].n))

LEMMA DeliverTo ==
    ASSUME TypeOK, NEW q \in Conns, NEW m, Deliver(q, m), NEW r \in Conns
    PROVE  outbox'[r] = outbox[r] \/ (r = q /\ outbox'[r] = Append(outbox[r], m))
BY DEF Deliver, TypeOK

LEMMA OutboxSteps ==
    ASSUME TypeOK, Places, [Next]_vars, NEW r \in Conns
    PROVE  \/ outbox'[r] = outbox[r]
           \/ \E m \in Replies :
                /\ outbox'[r] = Append(outbox[r], m)
                /\ \/ m.from = r /\ m.kind \notin News
                   \/ \E w \in Workers :
                        /\ Tells(w, r)
                        /\ m.from = conn[w] /\ m.kind = job[w].kind /\ m.n = job[w].n
<1> USE DEF serverVars, sharedVars, mainVars, localVars, frameVars, walkVars, listVars, nameVars, netVars, clientVars
<1>1. ASSUME NEW w \in Workers, pc[w] # "idle", NEW kind \in ReplyKinds \ News, Deliver(conn[w], Reply(kind, conn[w], 0))
      PROVE  \/ outbox'[r] = outbox[r]
             \/ \E m \in Replies : outbox'[r] = Append(outbox[r], m) /\ m.from = r /\ m.kind \notin News
  <2>1. conn[w] \in Conns
    BY <1>1 DEF Places, TypeOK
  <2>2. Reply(kind, conn[w], 0) \in Replies
    BY <2>1, PlainReply
  <2>3. Reply(kind, conn[w], 0).from = conn[w] /\ Reply(kind, conn[w], 0).kind = kind
    BY DEF Reply
  <2> QED
    BY <1>1, <2>1, <2>2, <2>3, DeliverTo
<1>2. {"BYE", "USED", "WELCOME", "PONG"} \subseteq ReplyKinds \ News
  BY DEF ReplyKinds, News
<1>3. ASSUME NEW w \in Workers, Refuse(w) \/ Used(w) \/ Greet(w) \/ Pong(w) \/ Goodbye(w)
      PROVE  \/ outbox'[r] = outbox[r]
             \/ \E m \in Replies : outbox'[r] = Append(outbox[r], m) /\ m.from = r /\ m.kind \notin News
  <2>1. pc[w] # "idle"
    BY <1>3 DEF Refuse, Used, Greet, Pong, Goodbye
  <2>2. \E kind \in {"BYE", "USED", "WELCOME", "PONG"} : Deliver(conn[w], Reply(kind, conn[w], 0))
    BY <1>3 DEF Refuse, Used, Greet, Pong, Goodbye, Answer
  <2> QED
    BY <1>1, <1>2, <2>1, <2>2
<1>4. ASSUME NEW w \in Workers, Send(w), outbox'[r] # outbox[r]
      PROVE  \E m \in Replies :
                /\ outbox'[r] = Append(outbox[r], m)
                /\ Tells(w, r)
                /\ m.from = conn[w] /\ m.kind = job[w].kind /\ m.n = job[w].n
  <2> DEFINE q == cells[pos[w]]
             m == Reply(job[w].kind, conn[w], job[w].n)
  <2>1. outbox' # outbox
    BY <1>4
  <2>2. pos[w] # 0 /\ cells # <<>> /\ q # NULL /\ Hears(w, q) /\ Deliver(q, m)
    BY <1>4, <2>1 DEF Send, Die
  <2>3. pos[w] \in 1..Len(cells) /\ q \in Conns
    BY <2>2, AtCell
  <2>4. conn[w] \in Conns
    BY <1>4 DEF Send, Places, TypeOK
  <2>5. m \in Replies /\ m.from = conn[w] /\ m.kind = job[w].kind /\ m.n = job[w].n
    BY <2>4 DEF Reply, Replies, TypeOK
  <2> HIDE DEF m, q
  <2>6. r = q /\ outbox'[r] = Append(outbox[r], m)
    BY <1>4, <2>2, <2>3, DeliverTo
  <2> QED
    BY <1>4, <2>2, <2>3, <2>5, <2>6 DEF Tells, m, q
<1>5. ASSUME NEW w \in Workers, Session(w) \/ Dispatch(w),
             ~(Refuse(w) \/ Used(w) \/ Greet(w) \/ Pong(w) \/ Goodbye(w) \/ Send(w))
      PROVE  outbox' = outbox
  <2>1. Erase(w) => outbox' = outbox
    BY EraseCases
  <2> QED
    BY <1>5, <2>1 DEF Session, Dispatch, RecvHello, Count, Insert, Announce, RecvChat, Remove, Forget
<1>6. CASE outbox' = outbox
  BY <1>6
<1> QED
  BY <1>3, <1>4, <1>5, <1>6, SessionSteps

LEMMA OpenStep ==
    ASSUME TypeOK, Places, [Next]_vars, NEW r \in Conns, peer'[r] = "open"
    PROVE  peer[r] = "open"
<1> USE DEF serverVars, sharedVars, mainVars, localVars, frameVars, walkVars, listVars, nameVars, netVars, clientVars
<1>1. CASE peer' = peer
  BY <1>1
<1>2. ASSUME NEW c \in Conns, Client(c) PROVE peer[r] = "open"
  <2>1. peer' = peer \/ \E fault \in {"fin", "abort"} : peer' = [peer EXCEPT ![c] = fault]
    BY <1>2, RoomAssumption DEF Client, EnterName, ReadReply, Say, CloseSocket, Vanish, Leave
  <2> QED
    BY <2>1 DEF TypeOK
<1>3. ASSUME NEW c, NEW m, Receive(c, m) PROVE peer[r] = "open"
  BY <1>3 DEF Receive, TypeOK
<1>4. ASSUME NEW c, NEW m, Deliver(c, m) PROVE peer[r] = "open"
  BY <1>4 DEF Deliver, TypeOK
<1>5. ASSUME NEW w \in Workers, Session(w) \/ Dispatch(w)
      PROVE  peer' = peer \/ (\E c, m : Receive(c, m)) \/ (\E c, m : Deliver(c, m))
  <2>1. CASE RecvHello(w) \/ RecvChat(w)
    BY <2>1 DEF RecvHello, RecvChat
  <2>2. CASE Refuse(w) \/ Used(w) \/ Greet(w) \/ Pong(w) \/ Goodbye(w)
    BY <2>2 DEF Refuse, Used, Greet, Pong, Goodbye, Answer
  <2>3. CASE Send(w)
    BY <2>3 DEF Send, Die
  <2>4. CASE Count(w) \/ Insert(w) \/ Announce(w) \/ Remove(w) \/ Erase(w) \/ Forget(w) \/ Dispatch(w)
    BY <2>4, EraseCases DEF Count, Insert, Announce, Remove, Forget, Dispatch
  <2> QED
    BY <1>5, <2>1, <2>2, <2>3, <2>4 DEF Session
<1>6. CASE Accepting
  BY <1>6 DEF Accepting, Accept, Push, Enqueue, AcceptFails, Exit
<1>7. CASE UNCHANGED vars
  BY <1>7 DEF vars
<1> QED
  BY <1>1, <1>2, <1>3, <1>4, <1>5, <1>6, <1>7 DEF Next, Serve

-----------------------------------------------------------------------------
(* Departures. *)

\* What a message adds to what r has heard.
LEMMA HeardStep ==
    ASSUME TypeOK, Places, [Next]_vars, NEW r \in Conns, NEW c \in Conns, NEW kind \in News, c # r
    PROVE  /\ Heard(r, c, kind) => Heard(r, c, kind)'
           /\ Heard(r, c, kind)' => \/ Heard(r, c, kind)
                                    \/ \E w \in Workers : Tells(w, r) /\ conn[w] = c /\ job[w].kind = kind
           /\ \A w \in Workers :
                Tells(w, r) /\ conn[w] = c /\ job[w].kind = kind /\ peer[r] = "open" /\ r \notin shut
                => Heard(r, c, kind)'
<1> DEFINE H(o) == \E i \in 1..Len(o) : o[i].from = c /\ o[i].kind = kind
<1>1. ASSUME NEW m \in Replies
      PROVE  H(Append(outbox[r], m)) <=> H(outbox[r]) \/ (m.from = c /\ m.kind = kind)
  <2> DEFINE o == outbox[r]
             p == Append(o, m)
  <2>1. o \in Seq(Replies)
    BY DEF TypeOK
  <2> HIDE DEF o
  <2>2. /\ Len(p) = Len(o) + 1 /\ Len(o) \in Nat /\ p[Len(o) + 1] = m
        /\ \A i \in 1..Len(o) : p[i] = o[i]
        /\ \A i \in 1..Len(p) : i \in 1..Len(o) \/ i = Len(o) + 1
    BY <2>1, AppendFacts
  <2>3. \A i \in 1..Len(o) : i \in 1..Len(p)
    BY <2>2
  <2>4. Len(o) + 1 \in 1..Len(p)
    BY <2>2
  <2> HIDE DEF p
  <2>5. H(p) <=> H(o) \/ (m.from = c /\ m.kind = kind)
    BY <2>2, <2>3, <2>4
  <2> QED
    BY <2>5 DEF o, p
<1>2. /\ Heard(r, c, kind) <=> H(outbox[r])
      /\ Heard(r, c, kind)' <=> H(outbox'[r])
  BY DEF Heard
<1> HIDE DEF H
<1>3. \/ outbox'[r] = outbox[r]
      \/ \E m \in Replies :
           /\ outbox'[r] = Append(outbox[r], m)
           /\ \/ m.from = r /\ m.kind \notin News
              \/ \E w \in Workers :
                   /\ Tells(w, r)
                   /\ m.from = conn[w] /\ m.kind = job[w].kind /\ m.n = job[w].n
  BY OutboxSteps
<1>4. ASSUME NEW w \in Workers, Tells(w, r), conn[w] = c, job[w].kind = kind, peer[r] = "open", r \notin shut
      PROVE  H(outbox'[r])
  <2> DEFINE m == Reply(job[w].kind, conn[w], job[w].n)
  <2>1. m \in Replies /\ m.from = c /\ m.kind = kind
    BY <1>4 DEF Reply, Replies, TypeOK
  <2>2. outbox'[r] = Append(outbox[r], m)
    BY <1>4 DEF Tells, Deliver, TypeOK
  <2> HIDE DEF m
  <2> QED
    BY <1>1, <2>1, <2>2
<1> QED
  BY <1>1, <1>2, <1>3, <1>4

LEMMA AuthSteps ==
    ASSUME TypeOK, [Next]_vars
    PROVE  /\ auth \subseteq auth'
           /\ \/ auth' = auth /\ shut' = shut
              \/ \E w \in Workers : Refuse(w) /\ auth' = auth /\ shut' = shut \cup {conn[w]}
              \/ \E w \in Workers : Announce(w) /\ auth' = auth \cup {conn[w]} /\ shut' = shut
<1> USE DEF sharedVars, nameVars
<1>1. ASSUME NEW w \in Workers, Session(w) \/ Dispatch(w)
      PROVE  \/ auth' = auth /\ shut' = shut
             \/ Refuse(w) /\ auth' = auth /\ shut' = shut \cup {conn[w]}
             \/ Announce(w) /\ auth' = auth \cup {conn[w]} /\ shut' = shut
  BY <1>1, EraseCases DEF Session, Dispatch, RecvHello, Refuse, Count, Used, Insert, Announce, Greet, RecvChat,
     Pong, Goodbye, Send, Remove, Forget
<1>2. CASE \E w \in Workers : Session(w) \/ Dispatch(w)
  BY <1>1, <1>2
<1> QED
  BY <1>2, SessionSteps

LEMMA InsideHearsStep ==
    ASSUME TypeOK, TypeOK', Places, InsideHears, [Next]_vars
    PROVE  InsideHears'
<1> SUFFICES ASSUME NEW r \in Conns, NEW i \in 1..Len(outbox'[r]), outbox'[r][i].from # r
             PROVE  r \in auth'
  BY DEF InsideHears
<1>1. auth \subseteq auth'
  BY AuthSteps
<1>2. CASE outbox'[r] = outbox[r]
  BY <1>1, <1>2 DEF InsideHears
<1>3. ASSUME NEW m \in Replies, outbox'[r] = Append(outbox[r], m), m.from = r \/ r \in auth
      PROVE  r \in auth'
  <2> DEFINE o == outbox[r]
  <2>1. o \in Seq(Replies)
    BY DEF TypeOK
  <2> HIDE DEF o
  <2>2. (i \in 1..Len(o) /\ Append(o, m)[i] = o[i]) \/ Append(o, m)[i] = m
    BY <1>3, <2>1, AppendFacts DEF o
  <2> QED
    BY <1>1, <1>3, <2>2 DEF InsideHears, o
<1> QED
  BY <1>2, <1>3, OutboxSteps DEF Tells, Hears

\* Only the accepting thread brings new connections.
LEMMA StrangersStep ==
    ASSUME TypeOK, Places, Jobs, Newcomers, Orderly, ~raced', [Next]_vars
    PROVE  Strangers' \subseteq Strangers \/ (Push /\ Strangers' \subseteq Strangers \cup {client})
<1> DEFINE G == {v \in Workers : pc[v] \in Greeting}
<1>1. ASSUME NEW w \in Workers, conn' = conn, queue' = queue, Pushed' \subseteq Pushed,
             \A v \in Workers \ {w} : pc'[v] = pc[v], pc'[w] \in Greeting => pc[w] \in Greeting
      PROVE  Strangers' \subseteq Strangers
  BY <1>1 DEF Strangers, Queued
<1>2. ASSUME UNCHANGED <<conn, queue, pc, cells>>, main' = "enqueue" => main = "enqueue"
      PROVE  Strangers' \subseteq Strangers
  BY <1>2 DEF Strangers, Queued, Pushed, Last
<1>3. CASE Still \/ \E c \in Conns : Accept(c)
  BY <1>2, <1>3 DEF Still, Accept, listView, localVars, frameVars, listVars
<1>4. CASE Push
  <2>1. cells' = Append(cells, client) /\ UNCHANGED <<conn, queue, pc>>
    BY <1>4, Alone DEF Push, localVars, frameVars
  <2>2. Last' = client
    <3> DEFINE S == Conns \cup {NULL}
    <3>1. cells \in Seq(S) /\ client \in S
      BY DEF TypeOK
    <3> HIDE DEF S
    <3>2. Append(cells, client)[Len(Append(cells, client))] = client
      BY <3>1, AppendFacts
    <3> QED
      BY <2>1, <3>2 DEF Last
  <2>3. Strangers' \subseteq Strangers \cup {client}
    BY <2>1, <2>2 DEF Strangers, Queued, Pushed
  <2> QED
    BY <1>4, <2>3
<1>5. CASE Enqueue
  <2>1. UNCHANGED <<conn, pc>> /\ main = "enqueue" /\ main' = "accept"
    BY <1>5 DEF Enqueue, localVars, frameVars
  <2>2. Pushed = {Last} /\ Pushed' = {}
    BY <2>1 DEF Pushed
  <2>3. Queued' \subseteq Queued \cup {Last}
    <3>1. queue' = queue \/ (cells # <<>> /\ queue' = Append(queue, Last))
      BY <1>5 DEF Enqueue
    <3> DEFINE S == Conns \cup {NULL}
    <3>2. queue \in Seq(S) /\ (cells # <<>> => Last \in S)
      BY DEF TypeOK, Last
    <3> HIDE DEF S
    <3>3. \A i \in 1..Len(queue') : (i \in 1..Len(queue) /\ queue'[i] = queue[i]) \/ queue'[i] = Last
      BY <3>1, <3>2, AppendFacts
    <3> QED
      BY <3>3 DEF Queued
  <2> QED
    BY <2>1, <2>2, <2>3 DEF Strangers
<1>6. ASSUME NEW w \in Workers, NEW next \in SessionPCs, Moved(w, next)
      PROVE  Strangers' \subseteq Strangers
  <2>1. /\ UNCHANGED <<conn, queue, cells, main>>
        /\ next \in Greeting => pc[w] \in Greeting
        /\ pc' = [pc EXCEPT ![w] = next]
    BY <1>6 DEF Moved, listView
  <2>2. Pushed' = Pushed
    BY <2>1 DEF Pushed, Last
  <2> QED
    BY <1>1, <2>1, <2>2 DEF TypeOK
<1>7. ASSUME NEW w \in Workers, Dispatch(w)
      PROVE  Strangers' \subseteq Strangers
  <2>1. /\ UNCHANGED <<cells, main>> /\ queue # <<>> /\ queue' = Tail(queue)
        /\ conn' = [conn EXCEPT ![w] = Head(queue)]
    BY <1>7 DEF Dispatch, listVars
  <2>2. Pushed' = Pushed
    BY <2>1 DEF Pushed, Last
  <2>3. Queued' \subseteq Queued
    BY <2>1 DEF Queued, TypeOK
  <2>4. Head(queue) \in Queued
    BY <2>1 DEF Queued, TypeOK
  <2>5. \A v \in Workers \ {w} : pc'[v] = pc[v] /\ conn'[v] = conn[v]
    BY <1>7, OthersStay
  <2>6. conn'[w] = Head(queue)
    BY <2>1 DEF TypeOK
  <2> QED
    BY <2>2, <2>3, <2>4, <2>5, <2>6 DEF Strangers
<1>8. ASSUME NEW w \in Workers, Send(w) \/ Remove(w) \/ Erase(w)
      PROVE  Strangers' \subseteq Strangers
  <2>1. UNCHANGED <<conn, queue, main>>
    BY <1>8, EraseCases DEF Send, Remove, mainVars, frameVars
  <2>2. cells' = cells \/ main \notin {"push", "enqueue"}
    BY <1>8, RemoveCells, EraseCases, Alone DEF Send
  <2>3. Pushed' \subseteq Pushed
    BY <2>1, <2>2 DEF Pushed, Last
  <2>4. \A v \in Workers \ {w} : pc'[v] = pc[v]
    BY <1>8, OthersStay DEF Session
  <2>5. pc'[w] \notin Greeting
    <3>1. job[w].then \in {"greet", "chat", "remove"}
      BY DEF Jobs
    <3>2. pc'[w] \in {"send", "remove", "greet", "chat", "erase", "forget"}
      <4>1. CASE Send(w)
        BY <3>1, <4>1 DEF Send, Die, Advance, Restart, Goto, TypeOK
      <4>2. CASE Remove(w)
        BY <4>2 DEF Remove, Advance, Restart, Goto, TypeOK
      <4>3. CASE Erase(w)
        BY <4>3, EraseCases DEF Restart, Cut, Goto, TypeOK
      <4> QED
        BY <1>8, <4>1, <4>2, <4>3
    <3> QED
      BY <3>2 DEF Greeting
  <2> QED
    BY <1>1, <2>1, <2>3, <2>4, <2>5
<1>9. ASSUME NEW w \in Workers, Forget(w)
      PROVE  Strangers' \subseteq Strangers
  <2>1. UNCHANGED <<queue, cells, main>> /\ pc' = [pc EXCEPT ![w] = "idle"]
    BY <1>9 DEF Forget, Goto, listVars, mainVars
  <2>2. Pushed' = Pushed /\ Queued' = Queued
    BY <2>1 DEF Pushed, Last, Queued
  <2>3. \A v \in Workers \ {w} : pc'[v] = pc[v] /\ conn'[v] = conn[v]
    BY <1>9, OthersStay DEF Session
  <2>4. pc'[w] \notin Greeting
    BY <2>1 DEF Greeting, TypeOK
  <2> QED
    BY <2>2, <2>3, <2>4 DEF Strangers
<1> QED
  BY <1>3, <1>4, <1>5, <1>6, <1>7, <1>8, <1>9, ListSteps

LEMMA ApartStep ==
    ASSUME TypeOK, Places, Jobs, Newcomers, Orderly, ~raced', Apart, [Next]_vars
    PROVE  Apart'
<1>1. CASE auth' = auth /\ shut' = shut
  <2>1. Push => client \notin auth \cup shut
    BY RoomAssumption DEF Push, Newcomers, Fresh
  <2> QED
    BY <1>1, <2>1, StrangersStep DEF Apart
<1>2. ASSUME NEW w \in Workers, Refuse(w) \/ Announce(w)
      PROVE  Strangers' \subseteq Strangers \ {conn[w]} /\ conn[w] \in Strangers
  <2>1. /\ UNCHANGED <<conn, queue, cells, main>>
        /\ pc[w] \in {"refuse", "announce"} /\ pc'[w] \in {"remove", "send"}
        /\ \A v \in Workers \ {w} : pc'[v] = pc[v]
    BY <1>2 DEF Refuse, Announce, Answer, Broadcast, Goto, listVars, mainVars, localVars, frameVars, TypeOK
  <2>2. w \in Busy
    BY <2>1 DEF Busy
  <2>3. conn[w] \notin Queued /\ conn[w] \notin Pushed /\ \A v \in Busy : conn[v] = conn[w] => v = w
    BY <2>2 DEF Orderly, OnePlace, Pushed
  <2>4. Queued' = Queued /\ Pushed' = Pushed
    BY <2>1 DEF Queued, Pushed, Last
  <2>5. pc'[w] \notin Greeting /\ pc[w] \in Greeting
    BY <2>1 DEF Greeting
  <2>6. \A v \in Workers : pc[v] \in Greeting => v \in Busy
    BY DEF Greeting, Busy
  <2> QED
    BY <2>1, <2>3, <2>4, <2>5, <2>6 DEF Strangers
<1>3. ASSUME NEW w \in Workers, Refuse(w), auth' = auth, shut' = shut \cup {conn[w]} PROVE Apart'
  BY <1>2, <1>3 DEF Apart
<1>4. ASSUME NEW w \in Workers, Announce(w), auth' = auth \cup {conn[w]}, shut' = shut PROVE Apart'
  BY <1>2, <1>4 DEF Apart
<1> QED
  BY <1>1, <1>3, <1>4, AuthSteps

\* What a session in the room does next.
LEMMA InsideSteps ==
    ASSUME TypeOK, Places, NEW w \in Workers, Session(w), pc[w] \in Inside
    PROVE  /\ UNCHANGED <<cells, conn, pos, raced>> /\ pos[w] = 1
           /\ \/ pc'[w] \in Inside /\ job' = job
              \/ pc'[w] = "send" /\ job'[w].kind \in {"TEXT", "LEFT"}
<1> USE DEF sharedVars, localVars, frameVars, walkVars, listVars
<1>1. pos[w] = 1
  BY DEF Places, Inside, InList
<1>2. CASE Greet(w) \/ Pong(w)
  BY <1>1, <1>2 DEF Greet, Pong, Answer, Goto, Inside, TypeOK
<1>3. CASE Goodbye(w)
  BY <1>1, <1>3 DEF Goodbye, Broadcast, Goto, TypeOK
<1>4. CASE RecvChat(w)
  <2>1. UNCHANGED <<cells, conn, pos, raced>>
    BY <1>4 DEF RecvChat
  <2>2. \/ pc' = pc /\ job' = job
        \/ pc' = [pc EXCEPT ![w] = "pong"] /\ job' = job
        \/ pc' = [pc EXCEPT ![w] = "goodbye"] /\ job' = job
        \/ /\ pc' = [pc EXCEPT ![w] = "send"]
           /\ \E n : job' = [job EXCEPT ![w] = [kind |-> "TEXT", n |-> n, then |-> "chat"]]
    BY <1>4 DEF RecvChat, Broadcast, Goto
  <2> QED
    BY <1>1, <1>4, <2>1, <2>2 DEF Inside, TypeOK
<1>5. ~(\/ RecvHello(w) \/ Refuse(w) \/ Count(w) \/ Used(w) \/ Insert(w) \/ Announce(w)
        \/ Send(w) \/ Remove(w) \/ Erase(w) \/ Forget(w))
  BY EraseCases DEF RecvHello, Refuse, Count, Used, Insert, Announce, Send, Remove, Forget, Inside
<1> QED
  BY <1>2, <1>3, <1>4, <1>5 DEF Session

\* And one that sends.
LEMMA SendSteps ==
    ASSUME TypeOK, Places, NEW w \in Workers, Session(w), pc[w] = "send"
    PROVE  /\ Send(w) /\ UNCHANGED <<cells, conn, job>>
           /\ \/ pc'[w] = "send" /\ pos'[w] = pos[w]
              \/ pc'[w] = "send" /\ pos[w] # 0 /\ pos[w] < Len(cells) /\ pos'[w] = pos[w] + 1
              \/ pc'[w] = job[w].then /\ pos'[w] = 1 /\ (pos[w] = 0 \/ ~(pos[w] < Len(cells)))
<1>1. Send(w)
  BY EraseCases DEF Session, RecvHello, Refuse, Count, Used, Insert, Announce, Greet, RecvChat, Pong, Goodbye,
     Remove, Forget
<1>2. job[w].then \in SessionPCs
  BY DEF TypeOK
<1>3. UNCHANGED <<cells, conn, job>>
  BY <1>1 DEF Send, frameVars
<1>4. \/ pc' = pc /\ pos' = pos
      \/ pos[w] = 0 /\ Restart(w, job[w].then)
      \/ pos[w] # 0 /\ Advance(w, job[w].then)
  BY <1>1 DEF Send, Die
<1>5. CASE pos[w] # 0 /\ Advance(w, job[w].then)
  BY <1>1, <1>2, <1>3, <1>5, AdvanceFacts
<1>6. CASE ~(pos[w] # 0 /\ Advance(w, job[w].then))
  BY <1>1, <1>3, <1>4, <1>6 DEF Restart, Goto, TypeOK
<1> QED
  BY <1>5, <1>6

\* A session that is still to tell r of its client's end will do so, unless
\* it has just done it.
LEMMA WillTellKept ==
    ASSUME TypeOK, Places, Jobs, Orderly, ~raced', [Next]_vars, NEW w \in Workers, NEW r \in Conns,
           WillTell(w, r), r \in Listed
    PROVE  \/ WillTell(w, r)' /\ conn'[w] = conn[w]
           \/ /\ Send(w) /\ pos[w] \in 1..Len(cells) /\ cells[pos[w]] = r
              /\ job[w].kind = "LEFT"
<1>1. pc[w] \in Inside \cup {"send"}
  BY DEF WillTell
<1>2. ASSUME pc'[w] = pc[w], conn'[w] = conn[w], job'[w] = job[w],
             pc[w] = "send" =>
                /\ pos'[w] = pos[w]
                /\ \A i \in 1..Len(cells) : i \in 1..Len(cells') /\ cells'[i] = cells[i]
      PROVE  WillTell(w, r)' /\ conn'[w] = conn[w]
  BY <1>2 DEF WillTell, Inside
<1>3. ASSUME NEW v \in Workers \ {w}, Session(v) \/ Dispatch(v)
      PROVE  WillTell(w, r)' /\ conn'[w] = conn[w]
  <2>1. /\ pc'[w] = pc[w] /\ conn'[w] = conn[w] /\ job'[w] = job[w]
        /\ pos'[w] = pos[w] \/ Erase(v)
    BY <1>3, OthersStay
  <2>2. pc[w] = "send" => w \in Workers \ {v} /\ pc[w] \in InList
    BY DEF InList
  <2>3. pc[w] = "send" => ~WritesList(v)
    BY <2>2, Alone
  <2>4. pc[w] = "send" => ~Erase(v)
    <3>1. ASSUME Erase(v), ~WritesList(v) PROVE FALSE
      <4>1. pc[v] = "erase" /\ dst[v] = 0
        BY <3>1, EraseCases
      <4> QED
        BY <4>1 DEF Orderly, Removals
    <3> QED
      BY <2>3, <3>1
  <2>5. pc[w] = "send" => cells' = cells
    <3>1. cells' = cells \/ WritesList(v)
      BY <1>3, RemoveCells, EraseCases DEF Session, RecvHello, Refuse, Count, Used, Insert, Announce, Greet,
         RecvChat, Pong, Goodbye, Send, Forget, Dispatch, sharedVars, listVars
    <3> QED
      BY <2>3, <3>1
  <2>6. pc[w] = "send" =>
          /\ pos'[w] = pos[w]
          /\ \A i \in 1..Len(cells) : i \in 1..Len(cells') /\ cells'[i] = cells[i]
    BY <2>1, <2>4, <2>5
  <2> QED
    BY <1>2, <2>1, <2>6
<1>4. CASE /\ UNCHANGED <<pc, conn, job, pos>>
           /\ cells' = cells \/ Push
  <2>1. Push => cells' = Append(cells, client)
    BY Alone
  <2> DEFINE S == Conns \cup {NULL}
  <2>2. cells \in Seq(S) /\ client \in S
    BY DEF TypeOK
  <2> HIDE DEF S
  <2>3. \A i \in 1..Len(cells) : i \in 1..Len(cells') /\ cells'[i] = cells[i]
    BY <1>4, <2>1, <2>2, AppendFacts
  <2> QED
    BY <1>2, <1>4, <2>3
<1>5. CASE Session(w) /\ pc[w] \in Inside
  <2>1. /\ UNCHANGED <<cells, conn, pos>> /\ pos[w] = 1
        /\ \/ pc'[w] \in Inside /\ job' = job
           \/ pc'[w] = "send" /\ job'[w].kind \in {"TEXT", "LEFT"}
    BY <1>5, InsideSteps
  <2>2. \E i \in 1..Len(cells') : pos'[w] <= i /\ cells'[i] = r
    <3>1. PICK i \in 1..Len(cells) : cells[i] = r
      BY DEF Listed
    <3> QED
      BY <2>1, <3>1
  <2> QED
    BY <2>1, <2>2 DEF WillTell
<1>6. CASE Session(w) /\ pc[w] = "send"
  <2>1. /\ Send(w) /\ UNCHANGED <<cells, conn, job>>
        /\ \/ pc'[w] = "send" /\ pos'[w] = pos[w]
           \/ pc'[w] = "send" /\ pos[w] # 0 /\ pos[w] < Len(cells) /\ pos'[w] = pos[w] + 1
           \/ pc'[w] = job[w].then /\ pos'[w] = 1 /\ (pos[w] = 0 \/ ~(pos[w] < Len(cells)))
    BY <1>6, SendSteps
  <2>2. CASE job[w].kind # "LEFT"
    <3>1. job[w].then \in Inside
      BY <2>2 DEF Jobs, Inside
    <3> QED
      BY <2>1, <2>2, <3>1 DEF WillTell
  <2>3. CASE job[w].kind = "LEFT"
    <3>1. PICK i \in 1..Len(cells) : pos[w] <= i /\ cells[i] = r
      BY <1>6, <2>3 DEF WillTell, Inside
    <3>2. pos[w] # 0 /\ pos[w] \in Nat /\ Len(cells) \in Nat
      BY <1>6 DEF Orderly, Removals, InList, TypeOK
    <3>3. CASE pos[w] = i
      BY <2>1, <2>3, <3>1, <3>3
    <3>4. CASE pos[w] # i
      <4>1. pos[w] < Len(cells) /\ pos[w] + 1 <= i
        BY <3>1, <3>2, <3>4
      <4> QED
        BY <2>1, <3>1, <3>2, <4>1 DEF WillTell
    <3> QED
      BY <3>3, <3>4
  <2> QED
    BY <2>2, <2>3
<1>7. ASSUME Dispatch(w) PROVE FALSE
  BY <1>1, <1>7 DEF Dispatch, Inside
<1> QED
  BY <1>1, <1>3, <1>4, <1>5, <1>6, <1>7, SessionSteps

LEMMA DueStep ==
    ASSUME TypeOK, Places, Jobs, Newcomers, Orderly, Apart, InsideHears, ~raced', [Next]_vars,
           NEW r \in Conns, NEW c \in Conns, Due(r, c)
    PROVE  Due(r, c)'
<1> SUFFICES ASSUME c # r, r \in Listed', peer'[r] = "open", Heard(r, c, "HI")'
             PROVE  \/ Heard(r, c, "LEFT")'
                    \/ \E w \in Workers : conn'[w] = c /\ WillTell(w, r)'
  BY DEF Due
<1>1. {"HI", "LEFT"} \subseteq News
  BY DEF News
<1>2. peer[r] = "open"
  BY OpenStep
<1>3. r \in Listed
  <2>1. CASE Push /\ r = client
    <3>1. outbox[r] = <<>> /\ outbox' = outbox
      BY <2>1, RoomAssumption DEF Push, Newcomers, Fresh, netVars
    <3> QED
      BY <3>1 DEF Heard
  <2> QED
    BY <2>1, ListedStep
<1>4. CASE Heard(r, c, "HI") /\ ~Heard(r, c, "LEFT")
  <2>1. PICK w \in Workers : conn[w] = c /\ WillTell(w, r)
    BY <1>2, <1>3, <1>4 DEF Due
  <2>2. CASE Send(w) /\ pos[w] \in 1..Len(cells) /\ cells[pos[w]] = r /\ job[w].kind = "LEFT"
    <3>1. r \in auth
      BY <1>4 DEF Heard, InsideHears
    <3>2. r \notin shut /\ Hears(w, r)
      BY <2>1, <3>1 DEF Apart, Hears
    <3>3. Tells(w, r)
      <4>1. r # NULL /\ cells # <<>> /\ pos[w] # 0
        BY <2>2, RoomAssumption
      <4>2. Deliver(r, Reply(job[w].kind, conn[w], job[w].n))
        BY <2>2, <3>2, <4>1 DEF Send
      <4> QED
        BY <2>2, <3>2, <4>2 DEF Tells
    <3> QED
      BY <1>1, <1>2, <2>1, <2>2, <3>2, <3>3, HeardStep
  <2> QED
    BY <1>3, <2>1, <2>2, WillTellKept
<1>5. CASE Heard(r, c, "LEFT")
  BY <1>1, <1>5, HeardStep
<1>6. ASSUME NEW w \in Workers, Tells(w, r), conn[w] = c, job[w].kind = "HI"
      PROVE  conn'[w] = c /\ WillTell(w, r)'
  <2>1. Session(w) /\ pc[w] = "send" /\ job[w].then = "greet"
    BY <1>6 DEF Tells, Send, Session, Jobs
  <2>2. conn' = conn /\ job' = job /\ pc'[w] \in {"send", "greet"}
    BY <2>1, SendSteps
  <2> QED
    BY <1>6, <2>2 DEF WillTell, Inside
<1> QED
  BY <1>1, <1>4, <1>5, <1>6, HeardStep

LEMMA DeparturesInvariant == Spec => [](IInv /\ DInv)
<1>1. Init => DInv
  <2> SUFFICES ASSUME Init PROVE DInv
    OBVIOUS
  <2>1. \A r \in Conns : outbox[r] = <<>>
    BY DEF Init
  <2>2. auth = {} /\ shut = {}
    BY DEF Init
  <2> QED
    BY <2>1, <2>2 DEF DInv, InsideHears, Apart, Due, Heard
<1>2. ASSUME IInv, IInv', DInv, [Next]_vars PROVE DInv'
  <2>1. InsideHears'
    BY <1>2, InsideHearsStep DEF IInv, DInv
  <2>2. ASSUME ~raced' PROVE Apart' /\ \A r, c \in Conns : Due(r, c)'
    <3>1. ~raced
      BY <1>2, <2>2, RacesStay DEF IInv
    <3>2. Orderly /\ Apart /\ \A r, c \in Conns : Due(r, c)
      BY <1>2, <3>1 DEF IInv, LInv, DInv
    <3> QED
      BY <1>2, <2>2, <3>2, ApartStep, DueStep DEF IInv, DInv
  <2> QED
    BY <2>1, <2>2 DEF DInv
<1> QED
  BY <1>1, <1>2, Invariance, PTL DEF Spec

\* Whoever was told that a user came is told that it left, however it left, for
\* any number of sessions that come and go, as long as no two threads were in
\* the list at once.
THEOREM DeparturesAreTold == Spec => []DepartureAnnounced
<1>1. IInv /\ DInv => DepartureAnnounced
  <2> SUFFICES ASSUME IInv, DInv, NEW c \in Conns, NEW r \in Conns, ~raced, c # r, c \notin Listed,
                      Heard(r, c, "HI"), r \in Listed, peer[r] = "open"
               PROVE  Heard(r, c, "LEFT")
    BY DEF DepartureAnnounced, Heard
  <2>1. Orderly /\ Due(r, c) /\ TypeOK
    BY DEF IInv, LInv, DInv
  <2>2. ASSUME NEW w \in Workers, conn[w] = c, WillTell(w, r) PROVE FALSE
    <3>1. w \in Busy /\ w \notin Changers
      BY <2>2 DEF WillTell, Busy, Changers, Inside
    <3>2. PICK i \in (1..Len(cells)) \ Gaps : cells[i] = c
      BY <2>1, <2>2, <3>1, OwnCell
    <3> QED
      BY <3>2, RoomAssumption DEF Listed
  <2> QED
    BY <2>1, <2>2 DEF Due
<1> QED
  BY DeparturesInvariant, <1>1, PTL

-----------------------------------------------------------------------------
(* The order of a sender: the requests under way, and what is sent of them. *)

\* What a step does to the requests of a client.
LEMMA InboxSteps ==
    ASSUME TypeOK, Places, [Next]_vars, NEW c \in Conns
    PROVE  \/ inbox'[c] = inbox[c] /\ said'[c] = said[c]
           \/ inbox[c] # <<>> /\ inbox'[c] = Tail(inbox[c]) /\ said'[c] = said[c]
           \/ \E m \in Requests :
                /\ inbox'[c] = Append(inbox[c], m) /\ m.n \in {0, said[c] + 1}
                /\ said'[c] = said[c] + 1
<1> USE DEF serverVars, sharedVars, mainVars, localVars, frameVars, walkVars, listVars, nameVars, netVars, clientVars
<1>1. CASE UNCHANGED <<inbox, said>>
  BY <1>1
<1>2. ASSUME NEW d \in Conns, NEW m \in Requests, SendRequest(d, m), m.n \in {0, said[d] + 1}
      PROVE  \/ inbox'[c] = inbox[c] /\ said'[c] = said[c]
             \/ /\ inbox'[c] = Append(inbox[c], m) /\ m.n \in {0, said[c] + 1}
                /\ said'[c] = said[c] + 1
  BY <1>2 DEF SendRequest, TypeOK
<1>3. ASSUME NEW d \in Conns, Client(d), ~(UNCHANGED <<inbox, said>>)
      PROVE  \E m \in Requests : SendRequest(d, m) /\ m.n \in {0, said[d] + 1}
  <2>1. ASSUME NEW n \in Choices[d], EnterName(d, n)
        PROVE  \E m \in Requests : SendRequest(d, m) /\ m.n \in {0, said[d] + 1}
    <3> DEFINE m == Request("HELLO", n, 0)
    <3>1. m \in Requests /\ m.n = 0
      BY RoomAssumption DEF Request, Requests, RequestKinds
    <3>2. SendRequest(d, m)
      BY <2>1 DEF EnterName
    <3> HIDE DEF m
    <3> QED
      BY <3>1, <3>2
  <2>2. ASSUME NEW kind \in Kinds[d], Say(d, kind)
        PROVE  \E m \in Requests : SendRequest(d, m) /\ m.n \in {0, said[d] + 1}
    <3> DEFINE m == Request(kind, EmptyNick, said[d] + 1)
    <3>1. said[d] + 1 \in 0..MaxSays
      BY <2>2, RoomAssumption DEF Say, SendRequest, TypeOK
    <3>2. m \in Requests /\ m.n = said[d] + 1
      BY <3>1, RoomAssumption DEF Request, Requests, RequestKinds
    <3>3. SendRequest(d, m)
      BY <2>2 DEF Say
    <3> HIDE DEF m
    <3> QED
      BY <3>2, <3>3
  <2>3. ReadReply(d) \/ CloseSocket(d) \/ (\E fault \in Faults[d] : Vanish(d, fault)) => UNCHANGED <<inbox, said>>
    BY DEF ReadReply, CloseSocket, Vanish
  <2> QED
    BY <1>3, <2>1, <2>2, <2>3 DEF Client
<1>4. ASSUME NEW d \in Conns, NEW m, Receive(d, m), said' = said
      PROVE  \/ inbox'[c] = inbox[c] /\ said'[c] = said[c]
             \/ inbox[c] # <<>> /\ inbox'[c] = Tail(inbox[c]) /\ said'[c] = said[c]
  BY <1>4 DEF Receive, TypeOK
<1>5. ASSUME NEW w \in Workers, RecvHello(w) \/ RecvChat(w)
      PROVE  conn[w] \in Conns /\ said' = said /\ \E m : Receive(conn[w], m)
  BY <1>5 DEF RecvHello, RecvChat, Places, TypeOK
<1>6. ASSUME NEW w \in Workers, Session(w) \/ Dispatch(w), ~(RecvHello(w) \/ RecvChat(w))
      PROVE  UNCHANGED <<inbox, said>>
  <2>1. Erase(w) => UNCHANGED <<inbox, said>>
    BY EraseCases
  <2> QED
    BY <1>6, <2>1 DEF Session, Dispatch, Refuse, Count, Used, Insert, Announce, Greet, Pong, Goodbye, Send, Remove, Forget
<1> QED
  BY <1>1, <1>2, <1>3, <1>4, <1>5, <1>6, SessionSteps

LEMMA RequestNumbers ==
    ASSUME NEW q \in Seq(Requests), NEW i \in 1..Len(q)
    PROVE  q[i] \in Requests /\ q[i].n \in Nat
<1>1. q[i] \in Requests
  OBVIOUS
<1>2. q[i].n \in 0..MaxSays
  BY <1>1 DEF Requests
<1> QED
  BY <1>1, <1>2, RoomAssumption

LEMMA TailFacts ==
    ASSUME NEW S, NEW s \in Seq(S), s # <<>>
    PROVE  /\ Head(s) = s[1] /\ 1 \in 1..Len(s) /\ Tail(s) \in Seq(S)
           /\ \A i \in 1..Len(Tail(s)) : Tail(s)[i] = s[i + 1] /\ i + 1 \in 1..Len(s) /\ 1 < i + 1
<1>1. /\ Head(s) = s[1] /\ Tail(s) \in Seq(S) /\ Len(Tail(s)) = Len(s) - 1 /\ Len(s) \in Nat \ {0}
      /\ \A i \in 1..Len(Tail(s)) : Tail(s)[i] = s[i + 1]
  OBVIOUS
<1>2. \A n \in Nat \ {0} : 1 \in 1..n /\ \A i \in 1..(n - 1) : i + 1 \in 1..n /\ 1 < i + 1
  OBVIOUS
<1> QED
  BY <1>1, <1>2

\* Whatever comes before the requests under way stays before them.
LEMMA BeforeStep ==
    ASSUME TypeOK, Places, [Next]_vars, NEW c \in Conns, NEW n \in Nat, Before(n, c)
    PROVE  Before(n, c)'
<1> DEFINE q == inbox[c]
           q1 == inbox'[c]
           s == said[c]
<1>1. q \in Seq(Requests) /\ s \in Nat
  BY RoomAssumption DEF TypeOK
<1>2. n <= s /\ \A i \in 1..Len(q) : q[i].n # 0 => n < q[i].n
  BY DEF Before
<1>3. \/ q1 = q /\ said'[c] = s
      \/ q # <<>> /\ q1 = Tail(q) /\ said'[c] = s
      \/ \E m \in Requests : q1 = Append(q, m) /\ m.n \in {0, s + 1} /\ said'[c] = s + 1
  BY InboxSteps
<1> SUFFICES n <= said'[c] /\ \A i \in 1..Len(q1) : q1[i].n # 0 => n < q1[i].n
  BY DEF Before
<1> HIDE DEF q, q1, s
<1>4. CASE q1 = q /\ said'[c] = s
  BY <1>2, <1>4
<1>5. CASE q # <<>> /\ q1 = Tail(q) /\ said'[c] = s
  BY <1>1, <1>2, <1>5, TailFacts
<1>6. ASSUME NEW m \in Requests, q1 = Append(q, m), m.n \in {0, s + 1}, said'[c] = s + 1
      PROVE  n <= said'[c] /\ \A i \in 1..Len(q1) : q1[i].n # 0 => n < q1[i].n
  <2>1. \A i \in 1..Len(q1) : (i \in 1..Len(q) /\ q1[i] = q[i]) \/ q1[i] = m
    BY <1>1, <1>6, AppendFacts
  <2>2. n < s + 1 /\ n <= s + 1
    BY <1>1, <1>2
  <2> QED
    BY <1>2, <1>6, <2>1, <2>2
<1> QED
  BY <1>3, <1>4, <1>5, <1>6

LEMMA InboxOrderStep ==
    ASSUME TypeOK, Places, InboxOrder, [Next]_vars
    PROVE  InboxOrder'
<1> SUFFICES ASSUME NEW c \in Conns
             PROVE  \A i \in 1..Len(inbox'[c]) :
                        /\ inbox'[c][i].n <= said'[c]
                        /\ \A j \in 1..Len(inbox'[c]) :
                              i < j /\ inbox'[c][j].n # 0 => inbox'[c][i].n < inbox'[c][j].n
  BY DEF InboxOrder
<1> DEFINE q == inbox[c]
           q1 == inbox'[c]
           s == said[c]
           P(t, l) == \A i \in 1..Len(t) :
                        t[i].n <= l /\ \A j \in 1..Len(t) : i < j /\ t[j].n # 0 => t[i].n < t[j].n
<1>1. q \in Seq(Requests) /\ s \in Nat
  BY RoomAssumption DEF TypeOK
<1>2. P(q, s)
  BY DEF InboxOrder
<1>3. \/ q1 = q /\ said'[c] = s
      \/ q # <<>> /\ q1 = Tail(q) /\ said'[c] = s
      \/ \E m \in Requests : q1 = Append(q, m) /\ m.n \in {0, s + 1} /\ said'[c] = s + 1
  BY InboxSteps
<1> SUFFICES P(q1, said'[c])
  OBVIOUS
<1> HIDE DEF q, q1, s
<1>4. CASE q1 = q /\ said'[c] = s
  BY <1>2, <1>4
<1>5. CASE q # <<>> /\ q1 = Tail(q) /\ said'[c] = s
  <2>1. \A i \in 1..Len(q1) : q1[i] = q[i + 1] /\ i + 1 \in 1..Len(q)
    BY <1>1, <1>5, TailFacts
  <2>2. \A i, j \in 1..Len(q1) : i < j => i + 1 < j + 1
    OBVIOUS
  <2> QED
    BY <1>2, <1>5, <2>1, <2>2
<1>6. ASSUME NEW m \in Requests, q1 = Append(q, m), m.n \in {0, s + 1}, said'[c] = s + 1
      PROVE  P(q1, said'[c])
  <2>1. /\ Len(q1) = Len(q) + 1 /\ Len(q) \in Nat /\ q1[Len(q) + 1] = m
        /\ \A i \in 1..Len(q) : q1[i] = q[i]
        /\ \A i \in 1..Len(q1) : i \in 1..Len(q) \/ i = Len(q) + 1
    BY <1>1, <1>6, AppendFacts
  <2>2. \A i \in 1..Len(q) : q[i].n \in Nat
    BY <1>1, RequestNumbers
  <2>3. \A i \in 1..Len(q) : q[i].n <= s + 1 /\ q[i].n < s + 1
    BY <1>1, <1>2, <2>2
  <2>4. ASSUME NEW i \in 1..Len(q1) PROVE q1[i].n <= s + 1
    BY <1>1, <1>6, <2>1, <2>3
  <2>5. ASSUME NEW i \in 1..Len(q1), NEW j \in 1..Len(q1), i < j, q1[j].n # 0
        PROVE  q1[i].n < q1[j].n
    <3>1. i \in 1..Len(q)
      BY <2>1, <2>5
    <3>2. CASE j \in 1..Len(q)
      BY <1>2, <2>1, <2>5, <3>1, <3>2
    <3>3. CASE j = Len(q) + 1
      BY <1>6, <2>1, <2>3, <2>5, <3>1, <3>3
    <3> QED
      BY <2>1, <3>2, <3>3
  <2> QED
    BY <1>6, <2>4, <2>5
<1> QED
  BY <1>3, <1>4, <1>5, <1>6

\* A message that is received has no number, or comes before the rest.
LEMMA ReceivedBefore ==
    ASSUME TypeOK, TypeOK', InboxOrder, NEW c \in Conns, NEW m, Receive(c, m), said' = said
    PROVE  /\ m.n \in Nat /\ Before(m.n, c)'
           /\ m.n # 0 => \A n \in Nat : Before(n, c) => n < m.n
<1> DEFINE q == inbox[c]
<1>1. m \in Requests /\ m.n \in 0..MaxSays
  BY ReceiveType
<1>2. q \in Seq(Requests) /\ inbox'[c] = IF q = <<>> THEN q ELSE Tail(q)
  BY DEF Receive, TypeOK
<1>3. m.n = 0 \/ (q # <<>> /\ m = Head(q))
  BY DEF Receive, Incoming, Noise, Request
<1>4. \A i \in 1..Len(inbox'[c]) : inbox'[c][i].n \in Nat
  BY RequestNumbers DEF TypeOK
<1>5. said[c] \in Nat /\ said'[c] \in Nat
  BY RoomAssumption DEF TypeOK
<1>6. CASE m.n = 0
  <2>1. Before(0, c)'
    BY <1>4, <1>5 DEF Before
  <2> QED
    BY <1>6, <2>1
<1>7. CASE q # <<>> /\ m = Head(q)
  <2>1. m = q[1] /\ 1 \in 1..Len(q)
        /\ \A i \in 1..Len(Tail(q)) : Tail(q)[i] = q[i + 1] /\ i + 1 \in 1..Len(q) /\ 1 < i + 1
    <3> HIDE DEF q
    <3> QED
      BY <1>2, <1>7, TailFacts
  <2>2. m.n <= said[c]
    BY <2>1 DEF InboxOrder
  <2>3. \A i \in 1..Len(inbox'[c]) : inbox'[c][i].n # 0 => m.n < inbox'[c][i].n
    BY <1>2, <1>7, <2>1 DEF InboxOrder
  <2>4. Before(m.n, c)'
    BY <2>2, <2>3 DEF Before
  <2>5. m.n # 0 => \A n \in Nat : Before(n, c) => n < m.n
    BY <2>1 DEF Before
  <2> QED
    BY <1>1, <2>4, <2>5, RoomAssumption
<1> QED
  BY <1>3, <1>6, <1>7

-----------------------------------------------------------------------------
(* The order of a sender: sessions and the list. *)

\* How a session comes to send something.
LEMMA JobSteps ==
    ASSUME TypeOK, Places, [Next]_vars, NEW w \in Workers, pc'[w] = "send"
    PROVE  /\ conn'[w] = conn[w]
           /\ \/ pc[w] = "send" /\ job'[w] = job[w]
              \/ /\ pc[w] \in Greeting /\ outbox' = outbox
                 /\ job'[w].kind = "HI" /\ job'[w].n = 0
              \/ pc[w] \in Inside /\ job'[w].kind = "LEFT" /\ job'[w].n = 0
              \/ /\ pc[w] \in Inside /\ job'[w].kind = "TEXT" /\ said' = said
                 /\ \E m : Receive(conn[w], m) /\ job'[w].n = m.n
<1> USE DEF sharedVars, localVars, mainVars, frameVars, walkVars, listVars, nameVars, netVars, clientVars
<1>1. ASSUME pc'[w] = pc[w], conn'[w] = conn[w], job'[w] = job[w]
      PROVE  conn'[w] = conn[w] /\ pc[w] = "send" /\ job'[w] = job[w]
  BY <1>1
<1>2. CASE Announce(w)
  BY <1>2 DEF Announce, Broadcast, Goto, Greeting, TypeOK
<1>3. CASE Goodbye(w)
  BY <1>3 DEF Goodbye, Broadcast, Goto, Inside, TypeOK
<1>4. CASE RecvChat(w)
  <2>1. pc[w] = "chat" /\ conn' = conn /\ said' = said
    BY <1>4 DEF RecvChat
  <2>2. PICK m :
          /\ Receive(conn[w], m)
          /\ \/ pc' = pc
             \/ \E next \in {"pong", "goodbye"} : pc' = [pc EXCEPT ![w] = next]
             \/ job' = [job EXCEPT ![w] = [kind |-> "TEXT", n |-> m.n, then |-> "chat"]]
    BY <1>4 DEF RecvChat, Broadcast, Goto
  <2>3. job' = [job EXCEPT ![w] = [kind |-> "TEXT", n |-> m.n, then |-> "chat"]]
    BY <2>1, <2>2 DEF TypeOK
  <2>4. job'[w].kind = "TEXT" /\ job'[w].n = m.n
    BY <2>3 DEF TypeOK
  <2> QED
    BY <2>1, <2>2, <2>4 DEF Inside
<1>5. CASE RecvHello(w) \/ Refuse(w) \/ Count(w) \/ Used(w) \/ Insert(w) \/ Greet(w) \/ Pong(w)
  BY <1>5 DEF RecvHello, Refuse, Count, Used, Insert, Greet, Pong, Answer, Goto, TypeOK
<1>6. CASE Send(w)
  BY <1>6 DEF Send
<1>7. CASE Remove(w)
  BY <1>7 DEF Remove, Advance, Restart, Goto, TypeOK
<1>8. CASE Erase(w)
  BY <1>8, EraseCases DEF Restart, Cut, Goto, TypeOK
<1>9. CASE Forget(w) \/ Dispatch(w)
  BY <1>9 DEF Forget, Dispatch, Goto, TypeOK
<1>10. CASE Session(w) \/ Dispatch(w)
  BY <1>2, <1>3, <1>4, <1>5, <1>6, <1>7, <1>8, <1>9, <1>10 DEF Session
<1>11. ASSUME NEW v \in Workers \ {w}, Session(v) \/ Dispatch(v)
       PROVE  pc'[w] = pc[w] /\ conn'[w] = conn[w] /\ job'[w] = job[w]
  BY <1>11, OthersStay
<1> QED
  BY <1>1, <1>10, <1>11, SessionSteps

LEMMA JobOrderStep ==
    ASSUME TypeOK, TypeOK', Places, InboxOrder, JobOrder, [Next]_vars
    PROVE  JobOrder'
<1> SUFFICES ASSUME NEW w \in Workers, pc'[w] = "send"
             PROVE  /\ job'[w].n <= said'[conn'[w]]
                    /\ \A i \in 1..Len(inbox'[conn'[w]]) :
                          inbox'[conn'[w]][i].n # 0 => job'[w].n < inbox'[conn'[w]][i].n
  BY DEF JobOrder, Before
<1>1. conn'[w] = conn[w] /\ conn[w] \in Conns
  <2>1. conn'[w] = conn[w] /\ (pc[w] \in {"send"} \cup Greeting \cup Inside)
    BY JobSteps
  <2>2. pc[w] # "idle"
    BY <2>1 DEF Greeting, Inside
  <2> QED
    BY <2>1, <2>2 DEF Places, TypeOK
<1>2. PICK c \in Conns : c = conn[w]
  BY <1>1
<1>3. job'[w].n \in Nat /\ job[w].n \in Nat
  <2>1. job'[w].n \in 0..MaxSays /\ job[w].n \in 0..MaxSays
    BY DEF TypeOK
  <2> QED
    BY <2>1, RoomAssumption
<1> SUFFICES /\ job'[w].n <= said'[c]
             /\ \A i \in 1..Len(inbox'[c]) : inbox'[c][i].n # 0 => job'[w].n < inbox'[c][i].n
  BY <1>1, <1>2
<1>4. CASE pc[w] = "send" /\ job'[w] = job[w]
  <2>1. Before(job[w].n, c)
    BY <1>2, <1>4 DEF JobOrder
  <2>2. \A n \in Nat : Before(n, c) => Before(n, c)'
    BY BeforeStep
  <2>3. \A n \in Nat : Before(n, c) =>
          n <= said'[c] /\ \A i \in 1..Len(inbox'[c]) : inbox'[c][i].n # 0 => n < inbox'[c][i].n
    BY <2>2 DEF Before
  <2> QED
    BY <1>3, <1>4, <2>1, <2>3
<1>5. CASE job'[w].n = 0
  <2>1. \A i \in 1..Len(inbox'[c]) : inbox'[c][i].n \in Nat
    BY RequestNumbers DEF TypeOK
  <2>2. said'[c] \in Nat
    BY RoomAssumption DEF TypeOK
  <2> QED
    BY <1>5, <2>1, <2>2
<1>6. ASSUME NEW m, Receive(c, m), job'[w].n = m.n, said' = said
      PROVE  /\ job'[w].n <= said'[c]
             /\ \A i \in 1..Len(inbox'[c]) : inbox'[c][i].n # 0 => job'[w].n < inbox'[c][i].n
  BY <1>6, ReceivedBefore DEF Before
<1> QED
  BY <1>2, <1>4, <1>5, <1>6, JobSteps

\* Where connections go on their way to a session and from it.
LEMMA QueueSteps ==
    ASSUME TypeOK, [Next]_vars
    PROVE  \/ /\ queue' = queue /\ enqueued' = enqueued
              /\ conn' = conn \/ \E w \in Workers : Forget(w) /\ conn' = [conn EXCEPT ![w] = NULL]
           \/ /\ Enqueue /\ conn' = conn /\ cells # <<>> /\ outbox' = outbox /\ pc' = pc
              /\ queue' = Append(queue, Last) /\ enqueued' = Append(enqueued, Last)
           \/ \E w \in Workers :
                /\ Dispatch(w)
                /\ enqueued' = enqueued /\ queue # <<>> /\ queue' = Tail(queue) /\ outbox' = outbox
                /\ conn' = [conn EXCEPT ![w] = Head(queue)]
<1> USE DEF serverVars, sharedVars, mainVars, localVars, frameVars, walkVars, listVars, nameVars, netVars, clientVars
<1>1. ASSUME NEW w \in Workers, Session(w)
      PROVE  /\ queue' = queue /\ enqueued' = enqueued
             /\ conn' = conn \/ (Forget(w) /\ conn' = [conn EXCEPT ![w] = NULL])
  <2>1. Erase(w) => UNCHANGED <<queue, enqueued, conn>>
    BY EraseCases
  <2> QED
    BY <1>1, <2>1 DEF Session, RecvHello, Refuse, Count, Used, Insert, Announce, Greet, RecvChat, Pong, Goodbye,
       Send, Remove, Forget
<1>2. ASSUME NEW w \in Workers, Dispatch(w)
      PROVE  /\ enqueued' = enqueued /\ queue # <<>> /\ queue' = Tail(queue) /\ outbox' = outbox
             /\ conn' = [conn EXCEPT ![w] = Head(queue)]
  BY <1>2 DEF Dispatch
<1>3. CASE Enqueue
  <2>1. UNCHANGED <<conn, outbox, pc>>
    BY <1>3 DEF Enqueue
  <2> QED
    BY <1>3, <2>1 DEF Enqueue
<1> QED
  BY <1>1, <1>2, <1>3, SessionSteps

LEMMA SeqRange ==
    ASSUME NEW S, NEW s \in Seq(S), NEW x \in S
    PROVE  {Append(s, x)[i] : i \in 1..Len(Append(s, x))} = {s[i] : i \in 1..Len(s)} \cup {x}
<1> DEFINE t == Append(s, x)
<1>1. /\ Len(t) = Len(s) + 1 /\ Len(s) \in Nat /\ t[Len(s) + 1] = x
      /\ \A i \in 1..Len(s) : t[i] = s[i]
      /\ \A i \in 1..Len(t) : i \in 1..Len(s) \/ i = Len(s) + 1
  BY AppendFacts
<1>2. Len(s) + 1 \in 1..Len(t) /\ \A i \in 1..Len(s) : i \in 1..Len(t)
  BY <1>1
<1> HIDE DEF t
<1>3. {t[i] : i \in 1..Len(t)} = {s[i] : i \in 1..Len(s)} \cup {x}
  BY <1>1, <1>2
<1> QED
  BY <1>3 DEF t

\* What enqueuing the last cell does.
LEMMA EnqueueFacts ==
    ASSUME TypeOK, cells # <<>>, queue' = Append(queue, Last), enqueued' = Append(enqueued, Last)
    PROVE  /\ Queued' = Queued \cup {Last} /\ Known' = Known \cup {Last}
           /\ \A c \in Conns : EnqueuedOnce(c)' => EnqueuedOnce(c) /\ (c = Last => c \notin Known)
           /\ \A i \in 1..Len(queue') : (i \in 1..Len(queue) /\ queue'[i] = queue[i]) \/ (i = Len(queue') /\ queue'[i] = Last)
<1> DEFINE S == Conns \cup {NULL}
<1>1. queue \in Seq(S) /\ enqueued \in Seq(S) /\ Last \in S
  BY DEF TypeOK, Last
<1> HIDE DEF S
<1>2. Queued' = Queued \cup {Last} /\ Known' = Known \cup {Last}
  BY <1>1, SeqRange DEF Queued, Known
<1>3. /\ Len(enqueued') = Len(enqueued) + 1 /\ Len(enqueued) \in Nat /\ enqueued'[Len(enqueued) + 1] = Last
      /\ \A i \in 1..Len(enqueued) : enqueued'[i] = enqueued[i]
  BY <1>1, AppendFacts
<1>4. /\ Len(enqueued) + 1 \in 1..Len(enqueued')
      /\ \A i \in 1..Len(enqueued) : i \in 1..Len(enqueued') /\ i # Len(enqueued) + 1
  BY <1>3
<1>5. \A c \in Conns : EnqueuedOnce(c)' => EnqueuedOnce(c) /\ (c = Last => c \notin Known)
  BY <1>3, <1>4 DEF EnqueuedOnce, Known
<1>6. \A i \in 1..Len(queue') : (i \in 1..Len(queue) /\ queue'[i] = queue[i]) \/ (i = Len(queue') /\ queue'[i] = Last)
  BY <1>1, AppendFacts
<1> QED
  BY <1>2, <1>5, <1>6

\* And what taking the first of the queue does.
LEMMA DequeueFacts ==
    ASSUME TypeOK, queue # <<>>, queue' = Tail(queue)
    PROVE  /\ Queued' \subseteq Queued /\ Head(queue) \in Queued /\ Head(queue) \in Conns \cup {NULL}
           /\ \A c : (\A i, j \in 1..Len(queue) : queue[i] = c /\ queue[j] = c => i = j) =>
                /\ \A i, j \in 1..Len(queue') : queue'[i] = c /\ queue'[j] = c => i = j
                /\ c = Head(queue) => c \notin Queued'
<1> DEFINE S == Conns \cup {NULL}
<1>1. queue \in Seq(S)
  BY DEF TypeOK
<1> HIDE DEF S
<1>2. /\ Head(queue) = queue[1] /\ 1 \in 1..Len(queue)
      /\ \A i \in 1..Len(queue') : queue'[i] = queue[i + 1] /\ i + 1 \in 1..Len(queue) /\ 1 < i + 1
  BY <1>1, TailFacts
<1>3. Queued' \subseteq Queued /\ Head(queue) \in Queued /\ Head(queue) \in S
  BY <1>1, <1>2 DEF Queued
<1>4. ASSUME NEW c, \A i, j \in 1..Len(queue) : queue[i] = c /\ queue[j] = c => i = j
      PROVE  /\ \A i, j \in 1..Len(queue') : queue'[i] = c /\ queue'[j] = c => i = j
             /\ c = Head(queue) => c \notin Queued'
  <2>1. \A i, j \in Int : i + 1 = j + 1 => i = j
    OBVIOUS
  <2>2. \A i \in 1..Len(queue') : 1 # i + 1
    OBVIOUS
  <2> QED
    BY <1>2, <1>4, <2>1, <2>2 DEF Queued
<1> QED
  BY <1>3, <1>4 DEF S

LEMMA KnownStep ==
    ASSUME TypeOK, KnownFirst, [Next]_vars
    PROVE  /\ KnownFirst' /\ Known \subseteq Known'
           /\ \A c \in Conns : EnqueuedOnce(c)' => EnqueuedOnce(c)
<1>1. CASE /\ queue' = queue /\ enqueued' = enqueued
           /\ conn' = conn \/ \E w \in Workers : Forget(w) /\ conn' = [conn EXCEPT ![w] = NULL]
  <2>1. Queued' = Queued /\ Known' = Known /\ \A c \in Conns : EnqueuedOnce(c)' => EnqueuedOnce(c)
    BY <1>1 DEF Queued, Known, EnqueuedOnce
  <2>2. \A w \in Workers : conn'[w] \in {conn[w], NULL}
    BY <1>1 DEF TypeOK
  <2> QED
    BY <2>1, <2>2 DEF KnownFirst
<1>2. CASE /\ conn' = conn /\ cells # <<>>
           /\ queue' = Append(queue, Last) /\ enqueued' = Append(enqueued, Last)
  BY <1>2, EnqueueFacts DEF KnownFirst
<1>3. ASSUME NEW w \in Workers, enqueued' = enqueued, queue # <<>>, queue' = Tail(queue),
             conn' = [conn EXCEPT ![w] = Head(queue)]
      PROVE  KnownFirst' /\ Known \subseteq Known' /\ \A c \in Conns : EnqueuedOnce(c)' => EnqueuedOnce(c)
  <2>1. Known' = Known /\ \A c \in Conns : EnqueuedOnce(c)' => EnqueuedOnce(c)
    BY <1>3 DEF Known, EnqueuedOnce
  <2>2. \A v \in Workers : conn'[v] \in {conn[v], Head(queue)}
    BY <1>3 DEF TypeOK
  <2> QED
    BY <1>3, <2>1, <2>2, DequeueFacts DEF KnownFirst
<1> QED
  BY <1>1, <1>2, <1>3, QueueSteps

LEMMA ServedOnceStep ==
    ASSUME TypeOK, KnownFirst, [Next]_vars, NEW c \in Conns, ServedOnce(c), EnqueuedOnce(c)'
    PROVE  ServedOnce(c)'
<1>1. CASE /\ queue' = queue /\ enqueued' = enqueued
           /\ conn' = conn \/ \E w \in Workers : Forget(w) /\ conn' = [conn EXCEPT ![w] = NULL]
  <2>1. Queued' = Queued
    BY <1>1 DEF Queued
  <2>2. \A w \in Workers : conn'[w] \in {conn[w], NULL}
    BY <1>1 DEF TypeOK
  <2> QED
    BY <1>1, <2>1, <2>2, RoomAssumption DEF ServedOnce
<1>2. CASE /\ conn' = conn /\ cells # <<>>
           /\ queue' = Append(queue, Last) /\ enqueued' = Append(enqueued, Last)
  <2>1. /\ Queued' = Queued \cup {Last} /\ (c = Last => c \notin Known)
        /\ \A i \in 1..Len(queue') : (i \in 1..Len(queue) /\ queue'[i] = queue[i]) \/ (i = Len(queue') /\ queue'[i] = Last)
    BY <1>2, EnqueueFacts
  <2>2. c = Last => \A i \in 1..Len(queue) : queue[i] # c
    BY <2>1 DEF KnownFirst, Queued
  <2>3. c = Last => \A w \in Workers : conn[w] # c
    BY <2>1, RoomAssumption DEF KnownFirst
  <2>4. \A i, j \in 1..Len(queue') : queue'[i] = c /\ queue'[j] = c => i = j
    BY <2>1, <2>2 DEF ServedOnce
  <2> QED
    BY <1>2, <2>1, <2>3, <2>4 DEF ServedOnce
<1>3. ASSUME NEW w \in Workers, queue # <<>>, queue' = Tail(queue), conn' = [conn EXCEPT ![w] = Head(queue)]
      PROVE  ServedOnce(c)'
  <2>1. /\ Queued' \subseteq Queued /\ Head(queue) \in Queued
        /\ \A i, j \in 1..Len(queue') : queue'[i] = c /\ queue'[j] = c => i = j
        /\ c = Head(queue) => c \notin Queued'
    BY <1>3, DequeueFacts DEF ServedOnce
  <2>2. conn'[w] = Head(queue) /\ \A v \in Workers \ {w} : conn'[v] = conn[v]
    BY <1>3 DEF TypeOK
  <2>3. \A v \in Workers : conn'[v] = c => c \notin Queued'
    BY <2>1, <2>2 DEF ServedOnce
  <2>4. \A u, v \in Workers : conn'[u] = c /\ conn'[v] = c => u = v
    BY <2>1, <2>2 DEF ServedOnce
  <2> QED
    BY <2>1, <2>3, <2>4 DEF ServedOnce
<1> QED
  BY <1>1, <1>2, <1>3, QueueSteps

\* What changes the list, and how.
LEMMA CellSteps ==
    ASSUME TypeOK, Places, Newcomers, [Next]_vars
    PROVE  \/ cells' = cells
           \/ /\ Len(cells') = Len(cells) + 1 /\ cells'[Len(cells')] = client
              /\ client # NULL /\ client \notin Listed /\ outbox[client] = <<>> /\ outbox' = outbox
              /\ \A i \in 1..Len(cells') : (i \in 1..Len(cells) /\ cells'[i] = cells[i]) \/ i = Len(cells')
           \/ \E w \in Workers :
              /\ pos[w] \in 1..Len(cells) /\ dst[w] \in 1..Len(cells) /\ dst[w] < pos[w]
              /\ Len(cells') = Len(cells)
              /\ \A k \in 1..Len(cells) :
                    cells'[k] = IF k = pos[w] THEN NULL ELSE IF k = dst[w] THEN cells[pos[w]] ELSE cells[k]
           \/ \A i \in 1..Len(cells') : cells'[i] = cells[i] /\ i \in 1..Len(cells)
<1>1. CASE Push
  <2>1. cells' = cells \/ cells' = Append(cells, client)
    BY <1>1 DEF Push
  <2>2. client # NULL /\ client \notin Listed /\ outbox[client] = <<>> /\ outbox' = outbox
    BY <1>1 DEF Push, Newcomers, Fresh, netVars
  <2> DEFINE S == Conns \cup {NULL}
  <2>3. cells \in Seq(S) /\ client \in S
    BY DEF TypeOK
  <2> HIDE DEF S
  <2>4. CASE cells' = Append(cells, client)
    <3>1. /\ Len(cells') = Len(cells) + 1 /\ cells'[Len(cells')] = client
          /\ \A i \in 1..Len(cells') : (i \in 1..Len(cells) /\ cells'[i] = cells[i]) \/ i = Len(cells')
      BY <2>3, <2>4, AppendFacts
    <3> QED
      BY <2>2, <3>1
  <2> QED
    BY <2>1, <2>4
<1>2. ASSUME NEW w \in Workers, Remove(w), cells' # cells
      PROVE  /\ pos[w] \in 1..Len(cells) /\ dst[w] \in 1..Len(cells) /\ dst[w] < pos[w]
             /\ Len(cells') = Len(cells)
             /\ \A k \in 1..Len(cells) :
                   cells'[k] = IF k = pos[w] THEN NULL ELSE IF k = dst[w] THEN cells[pos[w]] ELSE cells[k]
  BY <1>2, RemoveCells, AtCell
<1>3. ASSUME NEW w \in Workers, Erase(w)
      PROVE  cells' = cells \/ \A i \in 1..Len(cells') : cells'[i] = cells[i] /\ i \in 1..Len(cells)
  <2>1. CASE Cut(w) /\ dst[w] # 0 /\ pos[w] # 0
    BY <1>3, <2>1, CutFacts, EraseCases
  <2> QED
    BY <1>3, <2>1, EraseCases
<1>4. ASSUME NEW w \in Workers, Dispatch(w) \/ Send(w) \/ Forget(w) PROVE cells' = cells
  BY <1>4 DEF Dispatch, Send, Forget, listVars
<1>5. (\E c \in Conns : Accept(c)) \/ Enqueue => cells' = cells
  BY DEF Accept, Enqueue, listVars
<1> QED
  BY <1>1, <1>2, <1>3, <1>4, <1>5, ListSteps DEF Still, Moved, listView

LEMMA CellsOnceStep ==
    ASSUME TypeOK, Places, Newcomers, CellsOnce, [Next]_vars
    PROVE  CellsOnce'
<1>1. CASE cells' = cells \/ \A i \in 1..Len(cells') : cells'[i] = cells[i] /\ i \in 1..Len(cells)
  BY <1>1 DEF CellsOnce
<1>2. CASE /\ cells'[Len(cells')] = client /\ client # NULL /\ client \notin Listed
           /\ \A i \in 1..Len(cells') : (i \in 1..Len(cells) /\ cells'[i] = cells[i]) \/ i = Len(cells')
  <2>1. \A i \in 1..Len(cells) : cells[i] # client
    BY <1>2 DEF Listed
  <2> QED
    BY <1>2, <2>1 DEF CellsOnce
<1>3. ASSUME NEW w \in Workers, pos[w] \in 1..Len(cells), dst[w] \in 1..Len(cells), dst[w] < pos[w],
             Len(cells') = Len(cells),
             \A k \in 1..Len(cells) :
                cells'[k] = IF k = pos[w] THEN NULL ELSE IF k = dst[w] THEN cells[pos[w]] ELSE cells[k]
      PROVE  CellsOnce'
  BY <1>3 DEF CellsOnce
<1> QED
  BY <1>1, <1>2, <1>3, CellSteps

\* The cells before a loop's place get no connection that is behind it.
LEMMA AheadStep ==
    ASSUME TypeOK, Places, Newcomers, [Next]_vars, NEW p \in Nat, NEW r \in Conns, outbox[r] # <<>>,
           NEW i \in 1..Len(cells'), p <= i, cells'[i] = r
    PROVE  \E j \in 1..Len(cells) : p <= j /\ cells[j] = r
<1>1. CASE cells' = cells \/ \A k \in 1..Len(cells') : cells'[k] = cells[k] /\ k \in 1..Len(cells)
  BY <1>1
<1>2. CASE /\ cells'[Len(cells')] = client /\ outbox[client] = <<>>
           /\ \A k \in 1..Len(cells') : (k \in 1..Len(cells) /\ cells'[k] = cells[k]) \/ k = Len(cells')
  BY <1>2
<1>3. ASSUME NEW w \in Workers, pos[w] \in 1..Len(cells), dst[w] \in 1..Len(cells), dst[w] < pos[w],
             Len(cells') = Len(cells),
             \A k \in 1..Len(cells) :
                cells'[k] = IF k = pos[w] THEN NULL ELSE IF k = dst[w] THEN cells[pos[w]] ELSE cells[k]
      PROVE  \E j \in 1..Len(cells) : p <= j /\ cells[j] = r
  <2>1. i # pos[w]
    BY <1>3, RoomAssumption
  <2>2. CASE i = dst[w]
    <3>1. p <= pos[w] /\ cells[pos[w]] = r
      BY <1>3, <2>1, <2>2
    <3> QED
      BY <1>3, <3>1
  <2> QED
    BY <1>3, <2>1, <2>2
<1> QED
  BY <1>1, <1>2, <1>3, CellSteps

-----------------------------------------------------------------------------
(* The order of a sender: what has been sent. *)

\* Where a message in an outbox comes from.
LEMMA MessageSteps ==
    ASSUME TypeOK, Places, [Next]_vars, NEW r \in Conns, NEW i \in 1..Len(outbox'[r])
    PROVE  \/ i \in 1..Len(outbox[r]) /\ outbox'[r][i] = outbox[r][i]
           \/ /\ i = Len(outbox[r]) + 1
              /\ outbox'[r][i].kind \in News =>
                   \E w \in Workers :
                      /\ Tells(w, r)
                      /\ outbox'[r][i].from = conn[w]
                      /\ outbox'[r][i].kind = job[w].kind /\ outbox'[r][i].n = job[w].n
<1> DEFINE o == outbox[r]
<1>1. o \in Seq(Replies)
  BY DEF TypeOK
<1>2. CASE outbox'[r] = o
  BY <1>2
<1>3. ASSUME NEW m \in Replies, outbox'[r] = Append(o, m)
      PROVE  (i \in 1..Len(o) /\ outbox'[r][i] = o[i]) \/ (i = Len(o) + 1 /\ outbox'[r][i] = m)
  <2> HIDE DEF o
  <2> QED
    BY <1>1, <1>3, AppendFacts
<1> QED
  BY <1>2, <1>3, OutboxSteps

LEMMA RankType ==
    ASSUME NEW m, m.n \in 0..MaxSays
    PROVE  Rank(m) \in Nat /\ MaxSays \in Nat
BY RoomAssumption DEF Rank

\* A connection stays silent until its session sends.
LEMMA SilentStep ==
    ASSUME TypeOK, Places, [Next]_vars, NEW c, Silent(c),
           \A w \in Workers : pc[w] = "send" => conn[w] # c
    PROVE  \A r \in Conns : \A i \in 1..Len(outbox'[r]) : ~SaidBy(outbox'[r][i], c)
<1> SUFFICES ASSUME NEW r \in Conns, NEW i \in 1..Len(outbox'[r]), SaidBy(outbox'[r][i], c)
             PROVE  FALSE
  OBVIOUS
<1>1. CASE i \in 1..Len(outbox[r]) /\ outbox'[r][i] = outbox[r][i]
  BY <1>1 DEF Silent
<1>2. ASSUME NEW w \in Workers, Tells(w, r), outbox'[r][i].from = conn[w] PROVE FALSE
  BY <1>2 DEF Tells, Send, SaidBy
<1> QED
  BY <1>1, <1>2, MessageSteps DEF SaidBy

LEMMA GreetingSteps ==
    ASSUME TypeOK, Places, Jobs, [Next]_vars, NEW w \in Workers, pc'[w] \in Greeting
    PROVE  Dispatch(w) \/ (pc[w] \in Greeting /\ conn'[w] = conn[w])
<1> USE DEF sharedVars, localVars, mainVars, frameVars, walkVars, listVars, nameVars, netVars, clientVars
<1>1. CASE RecvHello(w) \/ Refuse(w) \/ Count(w) \/ Used(w) \/ Insert(w)
  BY <1>1 DEF RecvHello, Refuse, Count, Used, Insert, Answer, Goto, Greeting, TypeOK
<1>2. CASE Announce(w) \/ Greet(w) \/ Pong(w) \/ Goodbye(w) \/ Forget(w)
  BY <1>2 DEF Announce, Greet, Pong, Goodbye, Forget, Answer, Broadcast, Goto, Greeting, TypeOK
<1>3. CASE RecvChat(w)
  <2>1. pc' = pc \/ \E next \in {"pong", "goodbye", "send"} : pc' = [pc EXCEPT ![w] = next]
    BY <1>3 DEF RecvChat, Broadcast, Goto
  <2> QED
    BY <1>3, <2>1 DEF RecvChat, Greeting, TypeOK
<1>4. CASE Send(w)
  <2>1. pc'[w] \in {"send", job[w].then}
    BY <1>4, SendSteps DEF Session, Send
  <2>2. job[w].then \notin Greeting
    BY DEF Jobs, Greeting
  <2> QED
    BY <2>1, <2>2 DEF Greeting
<1>5. CASE Remove(w)
  BY <1>5 DEF Remove, Advance, Restart, Goto, Greeting, TypeOK
<1>6. CASE Erase(w)
  BY <1>6, EraseCases DEF Restart, Cut, Goto, Greeting, TypeOK
<1>7. CASE Session(w)
  BY <1>1, <1>2, <1>3, <1>4, <1>5, <1>6, <1>7 DEF Session
<1>8. ASSUME NEW v \in Workers \ {w}, Session(v) \/ Dispatch(v)
      PROVE  pc'[w] = pc[w] /\ conn'[w] = conn[w]
  BY <1>8, OthersStay
<1> QED
  BY <1>7, <1>8, SessionSteps

LEMMA SilentFirstStep ==
    ASSUME TypeOK, Places, Jobs, KnownFirst, [Next]_vars,
           NEW c \in Conns, SilentFirst(c), EnqueuedOnce(c) => ServedOnce(c)
    PROVE  SilentFirst(c)'
<1>1. Known \subseteq Known' /\ (EnqueuedOnce(c)' => EnqueuedOnce(c))
  BY KnownStep
<1>2. \A w \in Workers : pc[w] = "send" => conn[w] # NULL /\ conn[w] \in Known
  BY DEF KnownFirst, Places
<1>3. ASSUME c \notin Known' PROVE Silent(c)'
  BY <1>1, <1>2, <1>3, SilentStep DEF SilentFirst, Silent
<1>4. ASSUME EnqueuedOnce(c)', c \in Queued' PROVE Silent(c)'
  <2>1. EnqueuedOnce(c) /\ ServedOnce(c)
    BY <1>1, <1>4
  <2>2. CASE queue' = queue
    <3>1. c \in Queued
      BY <2>2, <1>4 DEF Queued
    <3>2. \A w \in Workers : conn[w] # c
      BY <2>1, <3>1 DEF ServedOnce
    <3> QED
      BY <2>1, <3>1, <3>2, SilentStep DEF SilentFirst, Silent
  <2>3. CASE cells # <<>> /\ outbox' = outbox /\ queue' = Append(queue, Last) /\ enqueued' = Append(enqueued, Last)
    <3>1. Queued' = Queued \cup {Last} /\ (c = Last => c \notin Known)
      BY <1>4, <2>3, EnqueueFacts
    <3>2. Silent(c)
      BY <1>4, <2>1, <3>1 DEF SilentFirst
    <3> QED
      BY <2>3, <3>2 DEF Silent
  <2>4. CASE queue # <<>> /\ queue' = Tail(queue) /\ outbox' = outbox
    <3>1. Silent(c)
      BY <1>4, <2>1, <2>4, DequeueFacts DEF SilentFirst
    <3> QED
      BY <2>4, <3>1 DEF Silent
  <2> QED
    BY <2>2, <2>3, <2>4, QueueSteps
<1>5. ASSUME EnqueuedOnce(c)', NEW w \in Workers, pc'[w] \in Greeting, conn'[w] = c PROVE Silent(c)'
  <2>1. EnqueuedOnce(c) /\ ServedOnce(c)
    BY <1>1, <1>5
  <2>2. CASE Dispatch(w)
    <3>1. /\ queue # <<>> /\ queue' = Tail(queue) /\ outbox' = outbox
          /\ conn'[w] = Head(queue)
      BY <2>2 DEF Dispatch, TypeOK
    <3>2. Silent(c)
      BY <1>5, <2>1, <3>1, DequeueFacts DEF SilentFirst
    <3> QED
      BY <3>1, <3>2 DEF Silent
  <2>3. CASE pc[w] \in Greeting /\ conn'[w] = conn[w]
    <3>1. \A v \in Workers : pc[v] = "send" => conn[v] # c
      BY <1>5, <2>1, <2>3 DEF ServedOnce, Greeting
    <3>2. Silent(c)
      BY <1>5, <2>1, <2>3 DEF SilentFirst
    <3> QED
      BY <3>1, <3>2, SilentStep DEF Silent
  <2> QED
    BY <1>5, <2>2, <2>3, GreetingSteps
<1> QED
  BY <1>3, <1>4, <1>5 DEF SilentFirst

\* Where a session's end leads.
LEMMA LastSteps ==
    ASSUME TypeOK, Places, NEW w \in Workers, Session(w), pc[w] \notin Greeting \cup Inside \cup {"send"}
    PROVE  pc'[w] \notin Inside \cup {"send"}
<1> USE DEF Greeting, Inside
<1>1. Remove(w) \/ Erase(w) \/ Forget(w)
  BY DEF Session, RecvHello, Refuse, Count, Used, Insert, Announce, Greet, RecvChat, Pong, Goodbye, Send
<1>2. CASE Remove(w)
  BY <1>2 DEF Remove, Advance, Restart, Goto, TypeOK
<1>3. CASE Erase(w)
  BY <1>3, EraseCases DEF Restart, Cut, Goto, TypeOK
<1>4. CASE Forget(w)
  BY <1>4 DEF Forget, Goto, TypeOK
<1> QED
  BY <1>1, <1>2, <1>3, <1>4

\* A message that was followed before the step, by the same session.
LEMMA FollowsKept ==
    ASSUME TypeOK, TypeOK', Places, Jobs, Newcomers, InboxOrder, [Next]_vars,
           NEW w \in Workers, NEW c \in Conns, conn[w] = c, conn'[w] = c,
           NEW r \in Conns, outbox[r] # <<>>, NEW m \in Replies, Follows(w, r, m),
           pc[w] \notin Greeting
    PROVE  Follows(w, r, m)'
<1>1. Rank(m) \in Nat /\ MaxSays \in Nat
  BY RankType DEF Replies
<1>2. PICK k \in Nat : k = Rank(m)
  BY <1>1
<1>3. Before(k, c) => k <= said'[c] /\ \A i \in 1..Len(inbox'[c]) : inbox'[c][i].n # 0 => k < inbox'[c][i].n
  BY BeforeStep DEF Before
<1>4. Before(k, c) => k <= MaxSays
  <2>1. said[c] \in 0..MaxSays
    BY DEF TypeOK
  <2>2. \A s \in 0..MaxSays : k <= s => k <= MaxSays
    BY <1>1
  <2> QED
    BY <2>1, <2>2 DEF Before
<1>5. \A p \in Nat : \A i \in 1..Len(cells') : p <= i /\ cells'[i] = r => \E j \in 1..Len(cells) : p <= j /\ cells[j] = r
  BY AheadStep
<1>6. pos[w] \in Nat
  BY DEF TypeOK
<1> DEFINE later == pc[w] \in Inside \/ (pc[w] = "send" /\ job[w].kind # "LEFT")
           later1 == pc'[w] \in Inside \/ (pc'[w] = "send" /\ job'[w].kind # "LEFT")
           placed1 == job'[w].kind = "TEXT" => job'[w].n # 0
<1>7. later => Before(k, c)
  BY <1>2 DEF Follows
<1>8. pc[w] = "send" /\ Placed(w) =>
        /\ k <= Rank(job[w])
        /\ pos[w] # 0 => \A i \in 1..Len(cells) : pos[w] <= i /\ cells[i] = r => k < Rank(job[w])
  BY <1>2 DEF Follows
<1> SUFFICES /\ later1 => Before(k, c)
             /\ pc'[w] = "send" /\ placed1 =>
                  /\ k <= Rank(job'[w])
                  /\ pos'[w] # 0 => \A i \in 1..Len(cells') : pos'[w] <= i /\ cells'[i] = r => k < Rank(job'[w])
  BY <1>2, <1>3 DEF Follows, Before, Placed
<1>9. CASE pc'[w] = pc[w] /\ job'[w] = job[w] /\ (pos'[w] = pos[w] \/ pos'[w] = 0)
  BY <1>5, <1>6, <1>7, <1>8, <1>9 DEF Placed
<1>10. CASE Session(w) /\ pc[w] \in Inside
  <2>1. Before(k, c)
    BY <1>7, <1>10
  <2>2. CASE pc'[w] # "send"
    BY <2>1, <2>2
  <2>3. ASSUME pc'[w] = "send", placed1 PROVE k < Rank(job'[w])
    <3>1. \/ job'[w].kind = "LEFT"
          \/ job'[w].kind = "TEXT" /\ said' = said /\ \E q : Receive(c, q) /\ job'[w].n = q.n
      BY <1>10, <2>3, JobSteps DEF Inside, Greeting
    <3>2. CASE job'[w].kind = "LEFT"
      <4>1. Rank(job'[w]) = MaxSays + 1
        BY <3>2 DEF Rank
      <4> QED
        BY <1>1, <1>4, <2>1, <4>1
    <3>3. ASSUME NEW q, Receive(c, q), job'[w].n = q.n, job'[w].kind = "TEXT", said' = said
          PROVE  k < Rank(job'[w])
      <4>1. Rank(job'[w]) = q.n
        BY <3>3 DEF Rank
      <4>2. q.n # 0
        BY <2>3, <3>3
      <4>3. k < q.n
        BY <2>1, <3>3, <4>2, ReceivedBefore
      <4> QED
        BY <4>1, <4>3
    <3> QED
      BY <3>1, <3>2, <3>3
  <2>4. pc'[w] = "send" => Rank(job'[w]) \in Nat
    <3>1. job'[w].n \in 0..MaxSays
      BY DEF TypeOK
    <3> QED
      BY <3>1, RankType
  <2> QED
    BY <2>1, <2>2, <2>3, <2>4
<1>11. CASE Session(w) /\ pc[w] = "send"
  <2>1. /\ UNCHANGED <<cells, job>>
        /\ \/ pc'[w] = "send" /\ pos'[w] = pos[w]
           \/ pc'[w] = "send" /\ pos[w] # 0 /\ pos'[w] = pos[w] + 1
           \/ pc'[w] = job[w].then
    BY <1>11, SendSteps
  <2>2. CASE pc'[w] = "send"
    <3>1. /\ job'[w] = job[w] /\ (placed1 <=> Placed(w))
          /\ pos'[w] = pos[w] \/ (pos[w] # 0 /\ pos'[w] = pos[w] + 1)
      BY <1>11, <2>1, <2>2 DEF Jobs, Placed
    <3>2. \A i \in 1..Len(cells) : pos[w] + 1 <= i => pos[w] <= i
      BY <1>6
    <3>3. later1 => Before(k, c)
      BY <1>7, <1>11, <2>2, <3>1 DEF Inside
    <3>4. placed1 /\ pos'[w] # 0 =>
            \A i \in 1..Len(cells) : pos'[w] <= i /\ cells[i] = r => k < Rank(job[w])
      BY <1>8, <1>11, <3>1, <3>2
    <3> QED
      BY <1>8, <1>11, <2>1, <3>1, <3>3, <3>4
  <2>3. CASE pc'[w] = job[w].then /\ pc'[w] # "send"
    <3>1. pc'[w] \in Inside => job[w].kind # "LEFT"
      BY <2>3 DEF Jobs, Inside
    <3> QED
      BY <1>7, <1>11, <2>3, <3>1
  <2> QED
    BY <2>1, <2>2, <2>3
<1>12. CASE Session(w) /\ pc[w] \notin Greeting \cup Inside \cup {"send"}
  BY <1>12, LastSteps
<1>13. CASE Dispatch(w)
  <2>1. pc[w] = "idle" /\ pc'[w] \in {"idle", "hello"}
    BY <1>13 DEF Dispatch, Goto, TypeOK
  <2> QED
    BY <2>1 DEF Inside
<1>14. ASSUME NEW v \in Workers \ {w}, Session(v) \/ Dispatch(v)
       PROVE  pc'[w] = pc[w] /\ job'[w] = job[w] /\ (pos'[w] = pos[w] \/ pos'[w] = 0)
  BY <1>14, OthersStay
<1> QED
  BY <1>9, <1>10, <1>11, <1>12, <1>13, <1>14, SessionSteps

\* The message that a session sends is followed by the session.
LEMMA ToldFollows ==
    ASSUME TypeOK, TypeOK', Places, Jobs, CellsOnce, JobOrder, [Next]_vars,
           NEW w \in Workers, NEW c \in Conns, conn[w] = c, NEW r \in Conns, Tells(w, r),
           NEW m \in Replies, m.kind = job[w].kind, m.n = job[w].n
    PROVE  conn'[w] = c /\ Follows(w, r, m)'
<1>1. pc[w] = "send" /\ Session(w) /\ pos[w] # 0 /\ pos[w] \in 1..Len(cells) /\ cells[pos[w]] = r
  BY DEF Tells, Send, Session
<1>2. Rank(m) \in Nat /\ Rank(m) = Rank(job[w])
  BY RankType DEF Replies, Rank
<1>3. PICK k \in Nat : k = Rank(m)
  BY <1>2
<1>4. job[w].kind # "LEFT" => Before(k, c)
  <2>1. Before(m.n, c)
    BY <1>1 DEF JobOrder
  <2>2. \A i \in 1..Len(inbox[c]) : inbox[c][i].n \in Nat
    BY RequestNumbers DEF TypeOK
  <2>3. said[c] \in Nat
    BY RoomAssumption DEF TypeOK
  <2>4. Before(0, c)
    BY <2>2, <2>3 DEF Before
  <2>5. job[w].kind # "LEFT" => k \in {0, m.n}
    BY <1>3 DEF Rank
  <2> QED
    BY <2>1, <2>4, <2>5
<1>5. Before(k, c) => k <= said'[c] /\ \A i \in 1..Len(inbox'[c]) : inbox'[c][i].n # 0 => k < inbox'[c][i].n
  BY BeforeStep DEF Before
<1>6. /\ UNCHANGED <<cells, conn, job>>
      /\ \/ pc'[w] = "send" /\ pos'[w] = pos[w] + 1
         \/ pc'[w] = job[w].then /\ pc'[w] # "send"
  <2>1. UNCHANGED <<cells, conn, job>>
    BY <1>1, SendSteps
  <2>2. r # NULL /\ cells # <<>>
    BY <1>1, RoomAssumption
  <2>3. Advance(w, job[w].then)
    BY <1>1, <2>2 DEF Tells, Send
  <2>4. job[w].then \in SessionPCs /\ job[w].then # "send"
    BY DEF TypeOK, Jobs
  <2> QED
    BY <1>1, <2>1, <2>3, <2>4 DEF Advance, Restart, Goto, TypeOK
<1>7. conn'[w] = c /\ job'[w] = job[w]
  BY <1>6
<1>8. \A i \in 1..Len(cells) : pos[w] + 1 <= i => cells[i] # r
  <2>1. \A i \in 1..Len(cells) : cells[i] = r => i = pos[w]
    BY <1>1, RoomAssumption DEF CellsOnce
  <2>2. pos[w] \in Nat
    BY DEF TypeOK
  <2>3. ~(pos[w] + 1 <= pos[w])
    BY <2>2
  <2> QED
    BY <2>1, <2>3
<1>9. pc'[w] \in Inside => job[w].kind # "LEFT"
  <2>1. "send" \notin Inside
    BY DEF Inside
  <2> QED
    BY <1>6, <2>1 DEF Jobs, Inside
<1>10. pc'[w] \in Inside \/ (pc'[w] = "send" /\ job'[w].kind # "LEFT") => Before(k, c)
  BY <1>4, <1>7, <1>9
<1>11. pc'[w] = "send" =>
         /\ k <= Rank(job'[w])
         /\ \A i \in 1..Len(cells') : pos'[w] <= i /\ cells'[i] = r => k < Rank(job'[w])
  BY <1>2, <1>3, <1>6, <1>7, <1>8
<1> QED
  BY <1>3, <1>5, <1>7, <1>10, <1>11 DEF Follows, Before

LEMMA FollowedStep ==
    ASSUME TypeOK, TypeOK', Places, Jobs, Newcomers, CellsOnce, InboxOrder, JobOrder, [Next]_vars,
           NEW c \in Conns, SilentFirst(c), EnqueuedOnce(c), ServedOnce(c), Followed(c)
    PROVE  Followed(c)'
<1> SUFFICES ASSUME NEW w \in Workers, NEW r \in Conns, conn'[w] = c,
                    NEW i \in 1..Len(outbox'[r]), NEW m \in Replies, m = outbox'[r][i], SaidBy(m, c)
             PROVE  Follows(w, r, m)'
  <2>1. ASSUME NEW r \in Conns PROVE \A i \in 1..Len(outbox'[r]) : outbox'[r][i] \in Replies
    <3>1. outbox'[r] \in Seq(Replies)
      BY DEF TypeOK
    <3> QED
      BY <3>1
  <2> QED
    BY <2>1 DEF Followed
<1>1. CASE i \in 1..Len(outbox[r]) /\ outbox'[r][i] = outbox[r][i]
  <2>1. outbox[r] # <<>>
    BY <1>1
  <2>2. CASE conn[w] = c
    <3>1. Follows(w, r, m)
      BY <1>1, <2>2, RoomAssumption DEF Followed
    <3>2. pc[w] \notin Greeting
      BY <1>1, <2>2 DEF SilentFirst, Silent
    <3> QED
      BY <2>1, <2>2, <3>1, <3>2, FollowsKept
  <2>3. CASE conn[w] # c
    <3>1. Dispatch(w)
      <4>1. conn'[w] # conn[w] /\ conn'[w] # NULL
        BY <2>3, RoomAssumption
      <4> QED
        BY <4>1, QueueSteps DEF TypeOK
    <3>2. pc'[w] \in {"idle", "hello"}
      BY <3>1 DEF Dispatch, Goto, TypeOK
    <3> QED
      BY <3>2 DEF Follows, Inside
  <2> QED
    BY <2>2, <2>3
<1>2. ASSUME NEW v \in Workers, Tells(v, r), m.from = conn[v], m.kind = job[v].kind, m.n = job[v].n
      PROVE  Follows(w, r, m)'
  <2>1. conn[v] = c
    BY <1>2 DEF SaidBy
  <2>2. conn'[v] = c /\ Follows(v, r, m)'
    BY <1>2, <2>1, ToldFollows
  <2>3. conn' = conn
    BY <1>2 DEF Tells, Send, frameVars
  <2>4. v = w
    BY <2>1, <2>3, RoomAssumption DEF ServedOnce
  <2> QED
    BY <2>2, <2>4
<1> QED
  BY <1>1, <1>2, MessageSteps DEF SaidBy

LEMMA InOrderStep ==
    ASSUME TypeOK, Places, [Next]_vars, NEW c \in Conns, Followed(c), InOrder(c)
    PROVE  InOrder(c)'
<1> SUFFICES ASSUME NEW r \in Conns, NEW i \in 1..Len(outbox'[r]), NEW j \in 1..Len(outbox'[r]),
                    i < j, SaidBy(outbox'[r][i], c), SaidBy(outbox'[r][j], c)
             PROVE  Rank(outbox'[r][i]) < Rank(outbox'[r][j])
  BY DEF InOrder
<1>1. i \in 1..Len(outbox[r]) /\ outbox'[r][i] = outbox[r][i]
  <2>1. j \in 1..Len(outbox[r]) \/ j = Len(outbox[r]) + 1
    BY MessageSteps
  <2>2. Len(outbox[r]) \in Nat
    BY DEF TypeOK
  <2>3. i # Len(outbox[r]) + 1
    BY <2>1, <2>2
  <2> QED
    BY <2>3, MessageSteps
<1>2. CASE j \in 1..Len(outbox[r]) /\ outbox'[r][j] = outbox[r][j]
  BY <1>1, <1>2 DEF InOrder
<1>3. ASSUME NEW w \in Workers, Tells(w, r), outbox'[r][j].from = conn[w],
             outbox'[r][j].kind = job[w].kind, outbox'[r][j].n = job[w].n
      PROVE  Rank(outbox'[r][i]) < Rank(outbox'[r][j])
  <2>1. conn[w] = c /\ pc[w] = "send" /\ pos[w] # 0 /\ pos[w] \in 1..Len(cells) /\ cells[pos[w]] = r
    BY <1>3 DEF SaidBy, Tells, Send
  <2>2. Placed(w)
    BY <1>3 DEF SaidBy, Placed
  <2>3. Follows(w, r, outbox[r][i])
    BY <1>1, <2>1, RoomAssumption DEF Followed
  <2>4. Rank(outbox[r][i]) < Rank(job[w])
    BY <2>1, <2>2, <2>3 DEF Follows, TypeOK
  <2>5. Rank(job[w]) = Rank(outbox'[r][j])
    BY <1>3 DEF Rank
  <2> QED
    BY <1>1, <2>4, <2>5
<1> QED
  BY <1>2, <1>3, MessageSteps DEF SaidBy

LEMMA OrderInvariant == Spec => [](IInv /\ OInv)
<1>1. Init => OInv
  <2> SUFFICES ASSUME Init PROVE OInv
    OBVIOUS
  <2>1. queue = <<>> /\ cells = <<>>
    BY DEF Init
  <2>2. \A c \in Conns : outbox[c] = <<>> /\ inbox[c] = <<>>
    BY DEF Init
  <2>3. \A w \in Workers : conn[w] = NULL /\ pc[w] = "idle"
    BY DEF Init
  <2>4. Queued = {}
    BY <2>1 DEF Queued
  <2>5. KnownFirst /\ JobOrder /\ \A c \in Conns : ServedOnce(c)
    BY <2>1, <2>3, <2>4, RoomAssumption DEF KnownFirst, ServedOnce, JobOrder
  <2>6. CellsOnce
    BY <2>1 DEF CellsOnce
  <2>7. InboxOrder /\ \A c \in Conns : SilentFirst(c)
    BY <2>2, <2>3, <2>4 DEF SilentFirst, Silent, InboxOrder, Greeting
  <2>8. \A c \in Conns : Followed(c) /\ InOrder(c)
    BY <2>2, <2>3, RoomAssumption DEF Followed, InOrder
  <2> QED
    BY <2>5, <2>6, <2>7, <2>8 DEF OInv
<1>2. ASSUME IInv, IInv', OInv, [Next]_vars PROVE OInv'
  <2> USE DEF IInv, OInv
  <2>1. KnownFirst' /\ CellsOnce' /\ InboxOrder' /\ JobOrder'
    BY <1>2, KnownStep, CellsOnceStep, InboxOrderStep, JobOrderStep
  <2>2. ASSUME NEW c \in Conns
        PROVE  /\ SilentFirst(c)'
               /\ EnqueuedOnce(c)' => ServedOnce(c)' /\ Followed(c)' /\ InOrder(c)'
    BY <1>2, KnownStep, SilentFirstStep, ServedOnceStep, FollowedStep, InOrderStep
  <2> QED
    BY <2>1, <2>2
<1> QED
  BY <1>1, <1>2, Invariance, PTL DEF Spec

\* What a user says reaches every other user in order and once at most, after
\* the news of its coming and before that of its leaving, for any number of
\* users, even while threads move the cells that the broadcasts walk, unless
\* a race made two sessions of that user's connection.
THEOREM OrderIsKept == Spec => []SenderOrder
<1>1. IInv /\ OInv => SenderOrder
  <2> SUFFICES ASSUME IInv, OInv,
                      NEW r \in Conns, NEW i \in 1..Len(outbox[r]), NEW j \in 1..Len(outbox[r]), i < j,
                      outbox[r][i].from = outbox[r][j].from, EnqueuedOnce(outbox[r][i].from),
                      {outbox[r][i].kind, outbox[r][j].kind} \subseteq {"HI", "TEXT", "LEFT"},
                      \A m \in {outbox[r][i], outbox[r][j]} : m.kind = "TEXT" => m.n # 0
               PROVE  Rank(outbox[r][i]) < Rank(outbox[r][j])
    BY DEF SenderOrder
  <2>1. outbox[r][i].from \in Conns
    <3>1. outbox[r][i] \in Replies
      BY DEF IInv, TypeOK
    <3> QED
      BY <3>1 DEF Replies
  <2>2. SaidBy(outbox[r][i], outbox[r][i].from) /\ SaidBy(outbox[r][j], outbox[r][i].from)
    BY DEF SaidBy, News
  <2> QED
    BY <2>1, <2>2 DEF OInv, InOrder
<1> QED
  BY OrderInvariant, <1>1, PTL

=============================================================================
