--------------------------- MODULE TcpChatProofs ---------------------------
(***************************************************************************)
(* The safety of TcpChat: its types for any CONSTANTS, and, when recv()    *)
(* returns whole messages, that the two ends take turns, that the client   *)
(* gets the answer to what it asked last, and that the server's console    *)
(* shows what was entered.                                                 *)
(***************************************************************************)
EXTENDS TcpChat, TLAPS

\* The client's process and the server's, each at some place.
Places == {"connect", "failed", "nick", "wait", "input", "accept", "hello",
           "chat", "answer", "leave", "down"}

TInv ==
    /\ TypeOK
    /\ pc \in [Ends -> Places]

Idle == \A e \in Ends : stream[e] = <<>>

Answered == Msg(AnswerKind(asked.kind), asked.n)

\* The user's turn: a name, or a line, is to be entered.
UserTurn ==
    /\ Idle
    /\ \/ pc["client"] \in {"connect", "failed", "nick"} /\ pc["server"] \in {"accept", "hello"}
       \/ pc["client"] = "input" /\ pc["server"] = "chat"

\* The server's turn: the request is to be received.
ServerTurn ==
    /\ pc["client"] = "wait"
    /\ pc["server"] \in IF asked.kind = "HELLO" THEN {"accept", "hello"} ELSE {"chat"}
    /\ stream["server"] = Pieces(asked)
    /\ stream["client"] = <<>>

\* The server's turn: the answer is to be sent.
AnswerTurn ==
    /\ pc["client"] = "wait"
    /\ pc["server"] = "answer"
    /\ Idle
    /\ answer = [msg |-> Answered, then |-> IF asked.kind = "BYE" THEN "leave" ELSE "chat"]

\* The client's turn: the answer is to be received.
ClientTurn ==
    /\ pc["client"] = "wait"
    /\ pc["server"] = IF asked.kind = "BYE" THEN "leave" ELSE "chat"
    /\ stream["server"] = <<>>
    /\ stream["client"] = Pieces(Answered)

\* Both ends are about to close.
LastTurn ==
    /\ pc["client"] = "leave"
    /\ pc["server"] = "leave"
    /\ Idle

Turn == UserTurn \/ ServerTurn \/ AnswerTurn \/ ClientTurn \/ LastTurn

\* Only the dead have closed their sockets.
Fates == \A e \in Ends : fate[e] = "open" <=> pc[e] # "down"

\* A dead end's last message outlives it, and is what it would have been.
LastRequest ==
    fate["server"] = "open" /\ stream["server"] # <<>> =>
        /\ pc["client"] \in {"wait", "down"}
        /\ pc["server"] \in IF asked.kind = "HELLO" THEN {"accept", "hello"} ELSE {"chat"}
        /\ stream["server"] = Pieces(asked)
        /\ stream["client"] = <<>>

LastAnswer ==
    stream["client"] # <<>> =>
        /\ pc["client"] \in {"wait", "down"}
        /\ stream["client"] = Pieces(Answered)

Requests == {"HELLO", "TEXT", "PING", "BYE"}

\* The console of a living server: all that was entered but the text on its way.
Console ==
    /\ \A i \in 1..Len(printed) :
        printed[i] # 0 => i <= Len(entered) /\ printed[i] = entered[i]
    /\ fate["server"] = "open" /\ stream["server"] # <<>> =>
        entered = IF asked.kind = "TEXT" THEN Append(printed, asked.n) ELSE printed
    /\ fate["server"] = "open" /\ fate["client"] = "open" /\ stream["server"] = <<>> =>
        entered = printed

Whole ==
    /\ asked.kind \in Requests
    /\ Fates
    /\ fate["client"] = "open" /\ fate["server"] = "open" => Turn
    /\ LastRequest
    /\ LastAnswer
    /\ Console

IInv ==
    /\ TInv
    /\ Whole

-----------------------------------------------------------------------------
(* Types, whatever the pieces recv() returns. *)

LEMMA AppendType ==
    ASSUME NEW S, NEW s \in Seq(S), NEW x \in S
    PROVE  Append(s, x) \in Seq(S)
OBVIOUS

LEMMA PiecesType ==
    ASSUME NEW m \in Messages
    PROVE  Pieces(m) \in Seq(Parts)
BY DEF Pieces, Parts

LEMMA NoiseType == Noise \subseteq Messages /\ Msg("BYE", 0) \in Messages /\ Msg("OTHER", 0) \in Messages
BY TcpAssumption DEF Noise, Messages, MsgKinds, Msg

LEMMA MsgType ==
    ASSUME NEW kind \in MsgKinds, NEW n \in 0..MaxLines
    PROVE  Msg(kind, n) \in Messages
BY DEF Msg, Messages

LEMMA ParseType ==
    ASSUME NEW s \in Seq(Parts), NEW k \in 1..2, k <= Len(s)
    PROVE  Parse(s, k) \subseteq Messages
<1>1. s[1] \in Parts
  OBVIOUS
<1>2. s[1].msg \in Messages
  BY <1>1 DEF Parts
<1> QED
  BY <1>2, NoiseType DEF Parse

LEMMA ReceiveType ==
    ASSUME TInv, NEW e \in Ends, NEW m, Receive(e, m)
    PROVE  /\ m \in Messages
           /\ stream' \in [Ends -> Seq(Parts)]
           /\ fate' \in [Ends -> {"open", "fin", "abort", "rst"}]
<1> TypeOK
  BY DEF TInv
<1>1. CASE \E k \in 1..2 :
            /\ k <= Len(stream[e])
            /\ m \in Parse(stream[e], k)
            /\ stream' = [stream EXCEPT ![e] = SubSeq(@, k + 1, Len(@))]
            /\ UNCHANGED fate
  <2>1. PICK k \in 1..2 :
            /\ k <= Len(stream[e])
            /\ m \in Parse(stream[e], k)
            /\ stream' = [stream EXCEPT ![e] = SubSeq(@, k + 1, Len(@))]
            /\ UNCHANGED fate
    BY <1>1
  <2>2. stream[e] \in Seq(Parts)
    BY DEF TypeOK
  <2>3. SubSeq(stream[e], k + 1, Len(stream[e])) \in Seq(Parts)
    BY <2>2
  <2>4. m \in Messages
    BY <2>1, <2>2, ParseType
  <2> QED
    BY <2>1, <2>3, <2>4 DEF TypeOK
<1>2. CASE m \in Noise \cup {Msg("BYE", 0)} /\ UNCHANGED stream
           /\ (UNCHANGED fate \/ fate' = [fate EXCEPT ![Opposite(e)] = "rst"])
  BY <1>2, NoiseType DEF TypeOK
<1> QED
  BY <1>1, <1>2 DEF Receive

LEMMA SendType ==
    ASSUME TInv, NEW e \in Ends, NEW m \in Messages, NEW next \in Places, Send(e, m, next)
    PROVE  /\ stream' \in [Ends -> Seq(Parts)]
           /\ fate' \in [Ends -> {"open", "fin", "abort", "rst"}]
           /\ pc' \in [Ends -> Places]
           /\ pc' = [pc EXCEPT ![e] = next] \/ pc' = [pc EXCEPT ![e] = "down"]
<1> TypeOK /\ pc \in [Ends -> Places]
  BY DEF TInv
<1> DEFINE o == Opposite(e)
<1>1. o \in Ends /\ stream[o] \in Seq(Parts)
  BY DEF Opposite, Ends, TypeOK
<1>2. stream[o] \o Pieces(m) \in Seq(Parts)
  BY <1>1, PiecesType
<1>3. stream' = stream \/ stream' = [stream EXCEPT ![o] = @ \o Pieces(m)]
  BY DEF Send
<1>4. pc' = [pc EXCEPT ![e] = next] \/ pc' = [pc EXCEPT ![e] = "down"]
  BY DEF Send, Goto, End
<1>5. \/ fate' = fate
      \/ fate' = [fate EXCEPT ![o] = fate[o]] \/ fate' = [fate EXCEPT ![o] = "rst"]
      \/ fate' = [fate EXCEPT ![e] = "fin"]
  BY DEF Send, End
<1>6. stream' \in [Ends -> Seq(Parts)]
  BY <1>1, <1>2, <1>3 DEF TypeOK
<1>7. fate' \in [Ends -> {"open", "fin", "abort", "rst"}]
  BY <1>5 DEF TypeOK
<1>8. pc' \in [Ends -> Places]
  BY <1>4 DEF Places
<1> QED
  BY <1>4, <1>6, <1>7, <1>8

LEMMA InitTInv == Init => TInv
<1> SUFFICES ASSUME Init PROVE TInv
  OBVIOUS
<1>1. asked \in Messages /\ answer \in [msg : Messages, then : {"chat", "leave"}]
  BY TcpAssumption DEF Init, Msg, Messages, MsgKinds
<1>2. pc \in [Ends -> Places] /\ pc["client"] = "connect" /\ pc["server"] = "accept"
  BY DEF Init, Ends, Places
<1>3. entered \in Seq(1..MaxLines) /\ printed \in Seq(0..MaxLines) /\ lines \in 0..MaxLines
  BY TcpAssumption DEF Init
<1> QED
  BY <1>1, <1>2, <1>3 DEF Init, TInv, TypeOK

LEMMA EndType ==
    ASSUME TInv, NEW e \in Ends, NEW how \in {"fin", "abort"}, End(e, how),
           UNCHANGED <<stream, asked, lines, answer, entered, printed>>
    PROVE  TInv'
BY DEF TInv, TypeOK, End, Goto, Ends, Places

\* A step of the client's or of the server's that moves no data.
LEMMA MoveType ==
    ASSUME TInv, NEW e \in Ends, NEW next, Goto(e, next),
           next \in IF e = "client" THEN {"failed", "nick"} ELSE {"hello"},
           UNCHANGED <<stream, fate, asked, lines, answer, entered, printed>>
    PROVE  TInv'
BY DEF TInv, TypeOK, Goto, Ends, Places

LEMMA EnterType ==
    ASSUME TInv, NEW kind \in Kinds, Enter(kind)
    PROVE  TInv'
<1> TypeOK /\ pc \in [Ends -> Places]
  BY DEF TInv
<1>1. lines' \in 1..MaxLines /\ lines' \in 0..MaxLines
  BY TcpAssumption DEF TypeOK, Enter
<1>2. asked' \in Messages
  BY <1>1, TcpAssumption, MsgType DEF Enter, MsgKinds
<1>3. entered' \in Seq(1..MaxLines)
  <2>1. entered \in Seq(1..MaxLines) /\ entered' \in {entered, Append(entered, lines')}
    BY DEF TypeOK, Enter
  <2> QED
    BY <1>1, <2>1, AppendType
<1>4. Send("client", asked', "wait") /\ UNCHANGED <<answer, printed>>
  BY DEF Enter
<1>5. /\ stream' \in [Ends -> Seq(Parts)]
      /\ fate' \in [Ends -> {"open", "fin", "abort", "rst"}]
      /\ pc' \in [Ends -> Places]
      /\ pc' = [pc EXCEPT !["client"] = "wait"] \/ pc' = [pc EXCEPT !["client"] = "down"]
  BY <1>2, <1>4, SendType DEF Ends, Places
<1> QED
  BY <1>1, <1>2, <1>3, <1>4, <1>5 DEF TypeOK, TInv, Ends

LEMMA NickType ==
    ASSUME TInv, Nick
    PROVE  TInv'
<1> TypeOK /\ pc \in [Ends -> Places]
  BY DEF TInv
<1>1. asked' \in Messages
  BY TcpAssumption, MsgType DEF Nick, MsgKinds
<1>2. Send("client", asked', "wait") /\ UNCHANGED <<lines, answer, entered, printed>>
  BY DEF Nick
<1>3. /\ stream' \in [Ends -> Seq(Parts)]
      /\ fate' \in [Ends -> {"open", "fin", "abort", "rst"}]
      /\ pc' \in [Ends -> Places]
      /\ pc' = [pc EXCEPT !["client"] = "wait"] \/ pc' = [pc EXCEPT !["client"] = "down"]
  BY <1>1, <1>2, SendType DEF Ends, Places
<1> QED
  BY <1>1, <1>2, <1>3 DEF TypeOK, TInv, Ends

LEMMA ClientReceiveType ==
    ASSUME TInv, ClientReceive
    PROVE  TInv'
<1>1. PICK m \in Messages : /\ Receive("client", m)
                            /\ Goto("client", IF m.kind = "BYE" THEN "leave" ELSE "input")
  BY DEF ClientReceive
<1>2. /\ stream' \in [Ends -> Seq(Parts)]
      /\ fate' \in [Ends -> {"open", "fin", "abort", "rst"}]
  BY <1>1, ReceiveType DEF Ends
<1>3. UNCHANGED <<asked, lines, answer, entered, printed>>
  BY DEF ClientReceive
<1> QED
  BY <1>1, <1>2, <1>3 DEF TInv, TypeOK, Goto, Ends, Places

LEMMA AnswerType ==
    ASSUME TInv, NEW kind \in MsgKinds, NEW n \in 0..MaxLines, NEW next \in {"chat", "leave"},
           Answer(kind, n, next)
    PROVE  /\ answer' \in [msg : Messages, then : {"chat", "leave"}]
           /\ pc' = [pc EXCEPT !["server"] = "answer"]
BY MsgType DEF Answer, Goto

\* What the server does with a message it received.
LEMMA ServerReceiveType ==
    ASSUME TInv, NEW m, Receive("server", m),
           UNCHANGED <<asked, lines, entered>>,
           printed' = printed \/ printed' = Append(printed, m.n),
           \/ UNCHANGED <<pc, answer>>
           \/ Goto("server", "leave") /\ UNCHANGED answer
           \/ \E kind \in MsgKinds, next \in {"chat", "leave"} : Answer(kind, m.n, next)
    PROVE  TInv'
<1> TypeOK /\ pc \in [Ends -> Places]
  BY DEF TInv
<1>1. /\ m \in Messages
      /\ stream' \in [Ends -> Seq(Parts)]
      /\ fate' \in [Ends -> {"open", "fin", "abort", "rst"}]
  BY ReceiveType DEF Ends
<1>2. m.n \in 0..MaxLines
  BY <1>1 DEF Messages
<1>3. printed' \in Seq(0..MaxLines)
  <2>1. printed \in Seq(0..MaxLines)
    BY DEF TypeOK
  <2> QED
    BY <1>2, <2>1, AppendType
<1>4. /\ answer' \in [msg : Messages, then : {"chat", "leave"}]
      /\ \/ pc' = pc
         \/ pc' = [pc EXCEPT !["server"] = "leave"]
         \/ pc' = [pc EXCEPT !["server"] = "answer"]
  BY <1>2, AnswerType DEF Goto, TypeOK
<1>5. pc' \in [Ends -> Places] /\ pc'["client"] = pc["client"]
      /\ pc'["server"] \in {pc["server"], "leave", "answer"}
  BY <1>4 DEF Places, Ends
<1> QED
  BY <1>1, <1>3, <1>4, <1>5 DEF TypeOK, TInv

LEMMA TypeStep ==
    ASSUME TInv, [Next]_vars
    PROVE  TInv'
<1>1. CASE UNCHANGED vars
  BY <1>1 DEF vars, TInv, TypeOK
<1>2. CASE Client
  <2>1. CASE Connect \/ ConnectFails
    BY <2>1, MoveType DEF Connect, ConnectFails, Ends
  <2>2. CASE Leave("client")
    BY <2>2, EndType DEF Leave, Ends
  <2> QED
    BY <1>2, <2>1, <2>2, NickType, EnterType, ClientReceiveType DEF Client
<1>3. CASE Server
  <2>1. CASE Accept
    BY <2>1, MoveType DEF Accept, Ends
  <2>2. CASE RecvHello
    BY <2>2, ServerReceiveType DEF RecvHello, MsgKinds
  <2>3. CASE RecvText
    BY <2>3, ServerReceiveType DEF RecvText, Chat, MsgKinds
  <2>4. CASE RecvPing
    BY <2>4, ServerReceiveType DEF RecvPing, Chat, MsgKinds
  <2>5. CASE RecvBye
    BY <2>5, ServerReceiveType DEF RecvBye, Chat, MsgKinds
  <2>6. CASE RecvOther
    BY <2>6, ServerReceiveType DEF RecvOther, Chat
  <2>7. CASE SendAnswer
    <3>1. answer.msg \in Messages /\ answer.then \in {"chat", "leave"}
      BY DEF TInv, TypeOK
    <3>2. answer.then \in Places
      BY <3>1 DEF Places
    <3>3. Send("server", answer.msg, answer.then)
          /\ UNCHANGED <<asked, lines, answer, entered, printed>>
      BY <2>7 DEF SendAnswer
    <3>4. /\ stream' \in [Ends -> Seq(Parts)]
          /\ fate' \in [Ends -> {"open", "fin", "abort", "rst"}]
          /\ pc' \in [Ends -> Places]
          /\ pc' = [pc EXCEPT !["server"] = answer.then] \/ pc' = [pc EXCEPT !["server"] = "down"]
      BY <3>1, <3>2, <3>3, SendType DEF Ends
    <3> QED
      BY <3>1, <3>3, <3>4 DEF TInv, TypeOK, Ends
  <2>8. CASE Leave("server")
    BY <2>8, EndType DEF Leave, Ends
  <2> QED
    BY <1>3, <2>1, <2>2, <2>3, <2>4, <2>5, <2>6, <2>7, <2>8 DEF Server
<1>4. ASSUME NEW e \in Ends, NEW how \in Faults[e], Die(e, how) PROVE TInv'
  BY <1>4, EndType, TcpAssumption DEF Die
<1> QED
  BY <1>1, <1>2, <1>3, <1>4 DEF Next

\* Every variable stays in its set, whatever is entered, however recv() cuts the
\* stream and whoever dies: in particular the server answers with nothing but
\* messages, though it may have made them of pieces of two.
THEOREM TypeCorrect == Spec => []TypeOK
<1>1. TInv => TypeOK
  BY DEF TInv
<1> QED
  BY InitTInv, TypeStep, <1>1, PTL DEF Spec

-----------------------------------------------------------------------------
(* When recv() returns whole messages. *)

LEMMA PiecesFacts ==
    ASSUME NEW m
    PROVE  /\ Pieces(m) # <<>>
           /\ Len(Pieces(m)) = 2
           /\ Pieces(m)[1].msg = m /\ Pieces(m)[1].part = 1
           /\ Pieces(m)[2].msg = m
           /\ SubSeq(Pieces(m), 3, 2) = <<>>
           /\ <<>> \o Pieces(m) = Pieces(m)
BY DEF Pieces

LEMMA EndsFacts ==
    /\ Ends = {"client", "server"}
    /\ Opposite("client") = "server"
    /\ Opposite("server") = "client"
BY DEF Ends, Opposite

\* A message on its way is received as it was sent.
LEMMA ReceiveWhole ==
    ASSUME Splits = FALSE, TInv, NEW e \in Ends, NEW m, NEW x,
           Receive(e, m), stream[e] = Pieces(x)
    PROVE  m = x /\ stream' = [stream EXCEPT ![e] = <<>>] /\ UNCHANGED fate
<1>1. stream[e] # <<>>
  BY PiecesFacts
<1>2. PICK k \in 1..2 : /\ k = 1 => Splits
                        /\ m \in Parse(stream[e], k)
                        /\ stream' = [stream EXCEPT ![e] = SubSeq(@, k + 1, Len(@))]
                        /\ UNCHANGED fate
  BY <1>1 DEF Receive
<1>3. k = 2
  BY <1>2
<1>4. Parse(stream[e], 2) = {x}
  <2>1. stream[e][1].msg = x /\ stream[e][1].part = 1
    BY PiecesFacts
  <2> QED
    BY <2>1 DEF Parse
<1>5. SubSeq(stream[e], 2 + 1, Len(stream[e])) = <<>>
  <2>1. Len(stream[e]) = 2 /\ SubSeq(stream[e], 3, 2) = <<>>
    BY PiecesFacts
  <2> QED
    BY <2>1
<1> QED
  BY <1>2, <1>3, <1>4, <1>5

\* Anything else that is received was made up for a dead peer.
LEMMA ReceiveLate ==
    ASSUME TInv, NEW e \in Ends, NEW m, Receive(e, m), stream[e] = <<>>
    PROVE  /\ fate[Opposite(e)] # "open" /\ fate'[Opposite(e)] # "open"
           /\ fate'[e] = fate[e]
           /\ m.n = 0
           /\ UNCHANGED stream
<1> TypeOK
  BY DEF TInv
<1>1. Opposite(e) # e /\ Opposite(e) \in Ends
  BY DEF Opposite, Ends
<1>2. ~ \E k \in 1..2 : k <= Len(stream[e])
  OBVIOUS
<1>3. CASE /\ fate[Opposite(e)] = "abort"
           /\ m \in Noise
           /\ fate' = [fate EXCEPT ![Opposite(e)] = "rst"]
           /\ UNCHANGED stream
  BY <1>1, <1>3 DEF Noise, TypeOK
<1>4. CASE /\ fate[Opposite(e)] \in {"fin", "rst"}
           /\ m = Msg("BYE", 0)
           /\ UNCHANGED <<stream, fate>>
  BY <1>4 DEF Msg
<1> QED
  BY <1>2, <1>3, <1>4 DEF Receive

\* What is sent to a living peer is on its way, what is sent to a dead one is
\* lost, and may kill the sender.
LEMMA SendOpen ==
    ASSUME TInv, NEW e \in Ends, NEW m, NEW next, Send(e, m, next), fate[Opposite(e)] = "open"
    PROVE  /\ stream' = [stream EXCEPT ![Opposite(e)] = @ \o Pieces(m)]
           /\ pc' = [pc EXCEPT ![e] = next]
           /\ UNCHANGED fate
BY DEF Send, Goto

LEMMA SendLost ==
    ASSUME TInv, NEW e \in Ends, NEW m, NEW next, Send(e, m, next), fate[Opposite(e)] # "open"
    PROVE  /\ UNCHANGED stream
           /\ fate'[Opposite(e)] # "open"
           /\ \/ fate'[e] = fate[e] /\ pc' = [pc EXCEPT ![e] = next]
              \/ fate'[e] # "open" /\ pc' = [pc EXCEPT ![e] = "down"]
<1> TypeOK
  BY DEF TInv
<1>1. Opposite(e) # e /\ Opposite(e) \in Ends
  BY DEF Opposite, Ends
<1> QED
  BY <1>1 DEF Send, End, Goto, TypeOK

LEMMA InitWhole == Init => Whole
<1> SUFFICES ASSUME Init PROVE Whole
  OBVIOUS
<1>1. asked.kind \in Requests /\ Fates /\ Console
  BY DEF Init, Msg, Requests, Fates, Ends, Console
<1>2. UserTurn /\ LastRequest /\ LastAnswer
  BY DEF Init, UserTurn, Idle, LastRequest, LastAnswer, Ends
<1> QED
  BY <1>1, <1>2 DEF Whole, Turn

\* A process ends.
LEMMA EndWhole ==
    ASSUME IInv, NEW e \in Ends, NEW how \in {"fin", "abort"}, End(e, how),
           UNCHANGED <<stream, asked, lines, answer, entered, printed>>
    PROVE  Whole'
<1> TypeOK /\ pc \in [Ends -> Places] /\ Whole
  BY DEF IInv, TInv
<1>1. /\ fate' = [fate EXCEPT ![e] = how] /\ pc' = [pc EXCEPT ![e] = "down"]
      /\ fate'[e] # "open" /\ pc'[e] = "down"
      /\ \A o \in Ends \ {e} : fate'[o] = fate[o] /\ pc'[o] = pc[o]
  BY DEF End, Goto, TypeOK
<1>2. Fates'
  BY <1>1 DEF Whole, Fates
<1>3. LastRequest' /\ LastAnswer'
  BY <1>1, EndsFacts DEF Whole, LastRequest, LastAnswer, Answered
<1>4. Console'
  BY <1>1, EndsFacts DEF Whole, Console
<1>5. asked'.kind \in Requests
  BY DEF Whole
<1> QED
  BY <1>1, <1>2, <1>3, <1>4, <1>5, EndsFacts DEF Whole

\* The client, or the server, moves on before the first message.
LEMMA MoveWhole ==
    ASSUME IInv, Connect \/ ConnectFails \/ Accept
    PROVE  Whole'
<1> TypeOK /\ pc \in [Ends -> Places] /\ Whole
  BY DEF IInv, TInv
<1>1. UNCHANGED <<stream, fate, asked, lines, answer, entered, printed>>
  BY DEF Connect, ConnectFails, Accept
<1>2. \/ pc["client"] = "connect" /\ pc'["client"] \in {"nick", "failed"} /\ pc'["server"] = pc["server"]
      \/ pc["server"] = "accept" /\ pc'["server"] = "hello" /\ pc'["client"] = pc["client"]
  BY EndsFacts DEF Connect, ConnectFails, Accept, Goto
<1>3. asked'.kind \in Requests /\ Fates' /\ Console'
  BY <1>1, <1>2, EndsFacts DEF Whole, Fates, Console
<1>4. LastRequest' /\ LastAnswer'
  BY <1>1, <1>2, EndsFacts DEF Whole, LastRequest, LastAnswer, Answered
<1>5. ASSUME fate["client"] = "open", fate["server"] = "open" PROVE Turn'
  <2>1. Turn
    BY <1>5 DEF Whole
  <2> QED
    BY <1>1, <1>2, <2>1 DEF Turn, UserTurn, ServerTurn, AnswerTurn, ClientTurn, LastTurn, Idle, Answered
<1> QED
  BY <1>1, <1>3, <1>4, <1>5 DEF Whole

\* The client sends a request when it is its user's turn.
LEMMA RequestWhole ==
    ASSUME IInv, TInv', NEW kind \in Requests, NEW n \in 0..MaxLines,
           pc["client"] = IF kind = "HELLO" THEN "nick" ELSE "input",
           asked' = Msg(kind, n), Send("client", asked', "wait"),
           entered' = IF kind = "TEXT" THEN Append(entered, n) ELSE entered,
           UNCHANGED <<answer, printed>>
    PROVE  Whole'
<1> TypeOK /\ pc \in [Ends -> Places] /\ Whole
  BY DEF IInv, TInv
<1>1. asked'.kind = kind /\ asked'.n = n /\ asked'.kind \in Requests
  BY DEF Msg
<1>2. fate["client"] = "open"
  BY EndsFacts DEF Whole, Fates
<1>3. \A i \in 1..Len(printed') :
        printed'[i] # 0 => i <= Len(entered') /\ printed'[i] = entered'[i]
  <2>1. \A i \in 1..Len(entered) : i <= Len(entered') /\ entered'[i] = entered[i]
    BY DEF TypeOK
  <2>2. \A i \in 1..Len(printed) : i \in Nat /\ (i <= Len(entered) => i \in 1..Len(entered))
    BY DEF TypeOK
  <2> QED
    BY <2>1, <2>2 DEF Whole, Console
<1>4. CASE fate["server"] = "open"
  <2>1. UserTurn
    BY <1>2, <1>4 DEF Whole, Turn, ServerTurn, AnswerTurn, ClientTurn, LastTurn
  <2>2. stream["client"] = <<>> /\ stream["server"] = <<>> /\ entered = printed
    BY <1>2, <1>4, <2>1, EndsFacts DEF UserTurn, Idle, Whole, Console
  <2>3. stream'["server"] = Pieces(asked') /\ stream'["client"] = <<>>
        /\ pc'["client"] = "wait" /\ pc'["server"] = pc["server"] /\ UNCHANGED fate
    <3>1. /\ stream' = [stream EXCEPT !["server"] = @ \o Pieces(asked')]
          /\ pc' = [pc EXCEPT !["client"] = "wait"]
          /\ UNCHANGED fate
      BY <1>4, SendOpen, EndsFacts DEF IInv
    <3>2. stream'["server"] = <<>> \o Pieces(asked')
      BY <2>2, <3>1, EndsFacts DEF TypeOK
    <3> QED
      BY <2>2, <3>1, <3>2, PiecesFacts, EndsFacts DEF TypeOK
  <2>4. pc["server"] \in IF kind = "HELLO" THEN {"accept", "hello"} ELSE {"chat"}
    BY <2>1 DEF UserTurn
  <2>5. ServerTurn'
    BY <1>1, <2>3, <2>4 DEF ServerTurn
  <2>6. LastRequest' /\ LastAnswer'
    BY <1>1, <2>3, <2>4 DEF LastRequest, LastAnswer
  <2>7. Fates'
    BY <2>3, EndsFacts, <1>2 DEF Whole, Fates
  <2>8. Console'
    BY <1>1, <1>3, <2>2, <2>3, PiecesFacts DEF Console
  <2> QED
    BY <1>1, <2>5, <2>6, <2>7, <2>8 DEF Whole, Turn
<1>5. CASE fate["server"] # "open"
  <2>1. /\ UNCHANGED stream /\ fate'["server"] # "open"
        /\ \/ fate'["client"] = fate["client"] /\ pc' = [pc EXCEPT !["client"] = "wait"]
           \/ fate'["client"] # "open" /\ pc' = [pc EXCEPT !["client"] = "down"]
    BY <1>5, SendLost, EndsFacts DEF IInv
  <2>2. stream'["client"] = <<>>
    BY <2>1 DEF Whole, LastAnswer
  <2>3. Fates'
    BY <1>2, <1>5, <2>1, EndsFacts DEF Whole, Fates
  <2> QED
    BY <1>1, <1>3, <2>1, <2>2, <2>3 DEF Whole, LastRequest, LastAnswer, Console
<1> QED
  BY <1>4, <1>5

\* The client receives the answer.
LEMMA ClientReceiveWhole ==
    ASSUME Splits = FALSE, IInv, ClientReceive
    PROVE  Whole'
<1> TypeOK /\ pc \in [Ends -> Places] /\ Whole /\ TInv
  BY DEF IInv, TInv
<1>1. PICK m \in Messages : /\ Receive("client", m)
                            /\ Goto("client", IF m.kind = "BYE" THEN "leave" ELSE "input")
  BY DEF ClientReceive
<1>2. /\ UNCHANGED <<asked, lines, answer, entered, printed>>
      /\ pc["client"] = "wait" /\ pc'["server"] = pc["server"]
      /\ pc'["client"] = IF m.kind = "BYE" THEN "leave" ELSE "input"
  BY <1>1, EndsFacts DEF ClientReceive, Goto
<1>3. fate["client"] = "open"
  BY <1>2, EndsFacts DEF Whole, Fates
<1>4. CASE stream["client"] = <<>>
  <2>1. fate["server"] # "open" /\ fate'["server"] # "open" /\ fate'["client"] = "open" /\ UNCHANGED stream
    BY <1>1, <1>3, <1>4, ReceiveLate, EndsFacts
  <2>2. Fates'
    BY <1>2, <2>1, EndsFacts DEF Whole, Fates
  <2> QED
    BY <1>2, <1>4, <2>1, <2>2 DEF Whole, LastRequest, LastAnswer, Console
<1>5. CASE stream["client"] # <<>>
  <2>1. stream["client"] = Pieces(Answered)
    BY <1>5 DEF Whole, LastAnswer
  <2>2. m = Answered /\ stream' = [stream EXCEPT !["client"] = <<>>] /\ UNCHANGED fate
    BY <1>1, <2>1, ReceiveWhole, EndsFacts
  <2>3. stream'["client"] = <<>> /\ stream'["server"] = stream["server"]
    BY <2>2, EndsFacts DEF TypeOK
  <2>4. m.kind = "BYE" <=> asked.kind = "BYE"
    BY <2>2 DEF Whole, Requests, Answered, AnswerKind, Msg
  <2>5. ASSUME fate["server"] = "open" PROVE Turn' /\ stream["server"] = <<>>
    <3>1. ClientTurn
      BY <1>2, <1>3, <1>5, <2>5, EndsFacts
         DEF Whole, Turn, UserTurn, ServerTurn, AnswerTurn, LastTurn, Idle
    <3>2. Idle' /\ stream["server"] = <<>>
      BY <2>3, <3>1, EndsFacts DEF ClientTurn, Idle
    <3> QED
      BY <1>2, <2>4, <3>1, <3>2 DEF ClientTurn, Turn, UserTurn, LastTurn
  <2>6. Fates'
    BY <1>2, <2>2, EndsFacts DEF Whole, Fates
  <2> QED
    BY <1>2, <2>2, <2>3, <2>5, <2>6 DEF Whole, LastRequest, LastAnswer, Console
<1> QED
  BY <1>4, <1>5

\* The server receives what the client asked for, once: the request that Turn
\* and LastRequest speak of.
LEMMA ServerReceiveFacts ==
    ASSUME Splits = FALSE, IInv, NEW m, Receive("server", m),
           pc["server"] \in {"hello", "chat"}, UNCHANGED <<asked, lines, entered>>,
           pc'["client"] = pc["client"], pc'["server"] # "down"
    PROVE  /\ fate["server"] = "open" /\ fate'["server"] = "open" /\ Fates'
           /\ stream'["server"] = <<>> /\ stream'["client"] = stream["client"]
           /\ fate'["client"] = "open" <=> fate["client"] = "open"
           /\ \/ /\ stream["server"] = <<>> /\ fate["client"] # "open" /\ m.n = 0
              \/ /\ m = asked /\ stream["server"] # <<>> /\ stream["client"] = <<>>
                 /\ pc["server"] = IF asked.kind = "HELLO" THEN "hello" ELSE "chat"
                 /\ fate["client"] = "open" => pc["client"] = "wait"
<1> TypeOK /\ pc \in [Ends -> Places] /\ Whole /\ TInv
  BY DEF IInv, TInv
<1>1. fate["server"] = "open"
  BY EndsFacts DEF Whole, Fates
<1>2. CASE stream["server"] = <<>>
  <2>1. /\ fate["client"] # "open" /\ fate'["client"] # "open" /\ fate'["server"] = "open"
        /\ m.n = 0 /\ UNCHANGED stream
    BY <1>1, <1>2, ReceiveLate, EndsFacts
  <2>2. Fates'
    BY <1>1, <2>1, EndsFacts DEF Whole, Fates
  <2> QED
    BY <1>1, <1>2, <2>1, <2>2
<1>3. CASE stream["server"] # <<>>
  <2>1. /\ pc["client"] \in {"wait", "down"}
        /\ pc["server"] \in IF asked.kind = "HELLO" THEN {"accept", "hello"} ELSE {"chat"}
        /\ stream["server"] = Pieces(asked)
        /\ stream["client"] = <<>>
    BY <1>1, <1>3 DEF Whole, LastRequest
  <2>2. m = asked /\ stream' = [stream EXCEPT !["server"] = <<>>] /\ UNCHANGED fate
    BY <2>1, ReceiveWhole, EndsFacts
  <2>3. stream'["server"] = <<>> /\ stream'["client"] = stream["client"]
    BY <2>2, EndsFacts DEF TypeOK
  <2>4. fate["client"] = "open" => pc["client"] = "wait"
    BY <2>1, EndsFacts DEF Whole, Fates
  <2>5. Fates'
    BY <1>1, <2>2, EndsFacts DEF Whole, Fates
  <2> QED
    BY <1>1, <1>3, <2>1, <2>2, <2>3, <2>4, <2>5
<1> QED
  BY <1>2, <1>3

\* What the server makes of a request: it prints a text, and answers.
LEMMA ServeWhole ==
    ASSUME Splits = FALSE, IInv, NEW m \in Messages, Receive("server", m),
           pc["server"] \in {"hello", "chat"}, UNCHANGED <<asked, lines, entered>>,
           IF m.kind = "TEXT" /\ pc["server"] = "chat"
           THEN printed' = Append(printed, m.n) ELSE UNCHANGED printed,
           pc'["client"] = pc["client"], pc'["server"] # "down",
           \/ /\ m.kind \in IF pc["server"] = "hello" THEN {"HELLO"} ELSE {"TEXT", "PING", "BYE"}
              /\ pc'["server"] = "answer"
              /\ answer' = [msg |-> Msg(AnswerKind(m.kind), m.n),
                            then |-> IF m.kind = "BYE" THEN "leave" ELSE "chat"]
           \/ m.kind \notin IF pc["server"] = "hello" THEN {"HELLO"} ELSE {"TEXT", "PING", "BYE"}
    PROVE  Whole'
<1> TypeOK /\ pc \in [Ends -> Places] /\ Whole /\ TInv
  BY DEF IInv, TInv
<1>1. /\ fate["server"] = "open" /\ fate'["server"] = "open" /\ Fates'
      /\ stream'["server"] = <<>> /\ stream'["client"] = stream["client"]
      /\ fate'["client"] = "open" <=> fate["client"] = "open"
      /\ \/ /\ stream["server"] = <<>> /\ fate["client"] # "open" /\ m.n = 0
         \/ /\ m = asked /\ stream["server"] # <<>> /\ stream["client"] = <<>>
            /\ pc["server"] = IF asked.kind = "HELLO" THEN "hello" ELSE "chat"
            /\ fate["client"] = "open" => pc["client"] = "wait"
  BY ServerReceiveFacts
<1>2. LastRequest' /\ LastAnswer' /\ asked'.kind \in Requests
  BY <1>1 DEF Whole, LastRequest, LastAnswer, Answered
<1>3. fate["client"] = "open" => AnswerTurn'
  BY <1>1, EndsFacts DEF Whole, Requests, AnswerTurn, Idle, Answered
<1>4. Console'
  <2>1. CASE printed' = printed /\ ~(m = asked /\ asked.kind = "TEXT" /\ stream["server"] # <<>>)
    BY <1>1, <2>1 DEF Whole, Console
  <2>2. CASE printed' = Append(printed, m.n)
    <3>1. /\ Len(printed') = Len(printed) + 1 /\ printed'[Len(printed) + 1] = m.n
          /\ \A i \in 1..Len(printed) : printed'[i] = printed[i]
      BY <2>2 DEF TypeOK
    <3>2. CASE m.n = 0 /\ fate["client"] # "open"
      <4>1. \A i \in 1..Len(printed') : i \in 1..Len(printed) \/ i = Len(printed) + 1
        BY <3>1 DEF TypeOK
      <4>2. \A i \in 1..Len(printed') :
                printed'[i] # 0 => i <= Len(entered) /\ printed'[i] = entered[i]
        BY <3>1, <3>2, <4>1 DEF Whole, Console
      <4> QED
        BY <1>1, <3>2, <4>2 DEF Console
    <3>3. CASE m = asked /\ stream["server"] # <<>>
      <4>1. asked.kind = "TEXT"
        BY <1>1, <2>2, <3>3, <3>1 DEF TypeOK
      <4>2. entered = printed'
        BY <1>1, <2>2, <3>3, <4>1 DEF Whole, Console
      <4>3. \A i \in 1..Len(printed') : i <= Len(printed')
        BY <2>2 DEF TypeOK
      <4> QED
        BY <1>1, <4>2, <4>3 DEF Console
    <3> QED
      BY <1>1, <3>2, <3>3
  <2> QED
    BY <1>1, <2>1, <2>2
<1> QED
  BY <1>1, <1>2, <1>3, <1>4 DEF Whole, Turn

LEMMA ServerReceiveWhole ==
    ASSUME Splits = FALSE, IInv, RecvHello \/ RecvText \/ RecvPing \/ RecvBye \/ RecvOther
    PROVE  Whole'
<1> TypeOK /\ pc \in [Ends -> Places]
  BY DEF IInv, TInv
<1>1. CASE RecvHello
  <2>1. PICK m \in Messages : /\ Receive("server", m)
                              /\ IF m.kind = "HELLO" THEN Answer("WELCOME", m.n, "chat")
                                 ELSE Goto("server", "leave") /\ UNCHANGED answer
    BY <1>1 DEF RecvHello
  <2>2. UNCHANGED <<asked, lines, entered, printed>> /\ pc["server"] = "hello"
    BY <1>1 DEF RecvHello
  <2>3. pc'["client"] = pc["client"] /\ pc'["server"] = IF m.kind = "HELLO" THEN "answer" ELSE "leave"
    BY <2>1, EndsFacts DEF Answer, Goto
  <2>4. m.kind = "HELLO" => answer' = [msg |-> Msg(AnswerKind(m.kind), m.n),
                                       then |-> IF m.kind = "BYE" THEN "leave" ELSE "chat"]
    BY <2>1 DEF Answer, AnswerKind
  <2> QED
    BY <2>1, <2>2, <2>3, <2>4, ServeWhole
<1>2. CASE RecvText \/ RecvPing \/ RecvBye \/ RecvOther
  <2>1. PICK m \in Messages :
            /\ Chat(m)
            /\ IF m.kind = "TEXT" THEN printed' = Append(printed, m.n) ELSE UNCHANGED printed
            /\ \/ m.kind = "TEXT" /\ Answer("TEXT", m.n, "chat")
               \/ m.kind = "PING" /\ Answer("PONG", m.n, "chat")
               \/ m.kind = "BYE" /\ Answer("BYE", m.n, "leave")
               \/ m.kind \notin {"TEXT", "PING", "BYE"} /\ UNCHANGED <<pc, answer>>
    <3>1. CASE RecvText
      BY <3>1 DEF RecvText
    <3>2. CASE RecvPing
      BY <3>2 DEF RecvPing
    <3>3. CASE RecvBye
      BY <3>3 DEF RecvBye
    <3>4. CASE RecvOther
      BY <3>4 DEF RecvOther
    <3> QED
      BY <1>2, <3>1, <3>2, <3>3, <3>4
  <2>2. Receive("server", m) /\ pc["server"] = "chat" /\ UNCHANGED <<asked, lines, entered>>
    BY <2>1 DEF Chat
  <2>3. /\ pc'["client"] = pc["client"] /\ pc'["server"] # "down"
        /\ m.kind \in {"TEXT", "PING", "BYE"} =>
            /\ pc'["server"] = "answer"
            /\ answer' = [msg |-> Msg(AnswerKind(m.kind), m.n),
                          then |-> IF m.kind = "BYE" THEN "leave" ELSE "chat"]
    BY <2>1, <2>2, EndsFacts DEF Answer, Goto, AnswerKind
  <2> QED
    BY <2>1, <2>2, <2>3, ServeWhole
<1> QED
  BY <1>1, <1>2

\* The server sends the answer.
LEMMA SendAnswerWhole ==
    ASSUME IInv, SendAnswer
    PROVE  Whole'
<1> TypeOK /\ pc \in [Ends -> Places] /\ Whole /\ TInv
  BY DEF IInv, TInv
<1>1. /\ Send("server", answer.msg, answer.then) /\ pc["server"] = "answer"
      /\ UNCHANGED <<asked, lines, answer, entered, printed>>
  BY DEF SendAnswer
<1>2. fate["server"] = "open" /\ stream["server"] = <<>>
  BY <1>1, EndsFacts DEF Whole, Fates, LastRequest
<1>3. answer.then \in {"chat", "leave"}
  BY DEF TypeOK
<1>4. CASE fate["client"] = "open"
  <2>1. AnswerTurn
    BY <1>1, <1>2, <1>4 DEF Whole, Turn, UserTurn, ServerTurn, ClientTurn, LastTurn
  <2>2. stream["client"] = <<>> /\ stream["server"] = <<>> /\ pc["client"] = "wait"
        /\ answer.msg = Answered /\ answer.then = IF asked.kind = "BYE" THEN "leave" ELSE "chat"
    BY <2>1, EndsFacts DEF AnswerTurn, Idle
  <2>3. /\ stream' = [stream EXCEPT !["client"] = @ \o Pieces(answer.msg)]
        /\ pc' = [pc EXCEPT !["server"] = answer.then]
        /\ UNCHANGED fate
    BY <1>1, <1>4, SendOpen, EndsFacts
  <2>4. stream'["client"] = Pieces(Answered) /\ stream'["server"] = <<>>
        /\ pc'["client"] = "wait" /\ pc'["server"] = answer.then
    <3>1. stream'["client"] = <<>> \o Pieces(answer.msg)
      BY <2>2, <2>3, EndsFacts DEF TypeOK
    <3> QED
      BY <2>2, <2>3, <3>1, PiecesFacts, EndsFacts DEF TypeOK
  <2>5. ClientTurn' /\ LastAnswer' /\ LastRequest'
    BY <1>1, <2>2, <2>4 DEF ClientTurn, LastAnswer, LastRequest, Answered
  <2>6. Fates'
    BY <1>2, <1>4, <2>2, <2>3, <2>4, <1>3, EndsFacts DEF Fates
  <2>7. Console'
    BY <1>1, <1>2, <2>3, <2>4 DEF Whole, Console
  <2> QED
    BY <1>1, <2>5, <2>6, <2>7 DEF Whole, Turn
<1>5. CASE fate["client"] # "open"
  <2>1. /\ UNCHANGED stream /\ fate'["client"] # "open"
        /\ \/ fate'["server"] = fate["server"] /\ pc' = [pc EXCEPT !["server"] = answer.then]
           \/ fate'["server"] # "open" /\ pc' = [pc EXCEPT !["server"] = "down"]
    BY <1>1, <1>5, SendLost, EndsFacts
  <2>2. pc'["client"] = pc["client"] /\ pc["client"] = "down"
    BY <1>5, <2>1, EndsFacts DEF Whole, Fates
  <2>3. Fates'
    BY <1>2, <1>3, <2>1, <2>2, EndsFacts DEF Fates
  <2>4. LastAnswer' /\ LastRequest' /\ Console'
    BY <1>1, <1>2, <2>1, <2>2 DEF Whole, LastAnswer, LastRequest, Console, Answered
  <2> QED
    BY <1>1, <2>1, <2>3, <2>4 DEF Whole
<1> QED
  BY <1>4, <1>5

LEMMA WholeStep ==
    ASSUME Splits = FALSE, IInv, [Next]_vars
    PROVE  IInv'
<1>1. TInv'
  BY TypeStep DEF IInv
<1>2. Whole'
  <2>1. CASE UNCHANGED vars
    BY <2>1 DEF vars, IInv, Whole, Fates, Turn, UserTurn, ServerTurn, AnswerTurn, ClientTurn,
                LastTurn, Idle, Answered, LastRequest, LastAnswer, Console
  <2>2. CASE Nick
    <3>1. 0 \in 0..MaxLines /\ "HELLO" \in Requests
      BY TcpAssumption DEF Requests
    <3> QED
      BY <1>1, <2>2, <3>1, RequestWhole DEF Nick
  <2>3. ASSUME NEW kind \in Kinds, Enter(kind) PROVE Whole'
    <3>1. kind \in Requests /\ kind # "HELLO"
      BY TcpAssumption DEF Requests
    <3>2. lines' \in 0..MaxLines
      BY <1>1 DEF TInv, TypeOK
    <3> QED
      BY <1>1, <2>3, <3>1, <3>2, RequestWhole DEF Enter
  <2>4. ASSUME NEW e \in Ends, Leave(e) PROVE Whole'
    BY <2>4, EndWhole DEF Leave
  <2>5. ASSUME NEW e \in Ends, NEW how \in Faults[e], Die(e, how) PROVE Whole'
    BY <2>5, EndWhole, TcpAssumption DEF Die
  <2>6. CASE Client
    BY <2>2, <2>3, <2>4, <2>6, MoveWhole, ClientReceiveWhole, EndsFacts DEF Client
  <2>7. CASE Server
    BY <2>4, <2>7, MoveWhole, ServerReceiveWhole, SendAnswerWhole, EndsFacts DEF Server
  <2> QED
    BY <2>1, <2>5, <2>6, <2>7 DEF Next
<1> QED
  BY <1>1, <1>2 DEF IInv

LEMMA WholeInvariance ==
    ASSUME Splits = FALSE
    PROVE  Spec => []IInv
<1>1. Init => IInv
  BY InitTInv, InitWhole DEF IInv
<1>2. IInv /\ [Next]_vars => IInv'
  BY WholeStep
<1> QED
  BY <1>1, <1>2, PTL DEF Spec

-----------------------------------------------------------------------------
\* As long as recv() returns whole messages the two ends of tcp/ take turns,
\* whatever the user enters and whoever dies: there is always one thing to be
\* done next, and one message at most is under way.
THEOREM TurnsAreTaken ==
    ASSUME Splits = FALSE
    PROVE  Spec => []Turns
<1>1. IInv => Turns
  <2> SUFFICES ASSUME Whole, fate["client"] = "open", fate["server"] = "open" PROVE Turns
    BY EndsFacts DEF IInv, Turns
  <2>1. Turn
    BY DEF Whole
  <2>3. CASE UserTurn \/ LastTurn
    BY <2>3, EndsFacts DEF UserTurn, LastTurn, Idle, Turns
  <2>4. CASE ServerTurn \/ ClientTurn
    <3>1. \/ Len(stream["server"]) = 2 /\ stream["client"] = <<>>
          \/ Len(stream["client"]) = 2 /\ stream["server"] = <<>>
      BY <2>4, PiecesFacts DEF ServerTurn, ClientTurn
    <3>2. Len(<<>>) = 0
      OBVIOUS
    <3>3. Len(stream["client"]) + Len(stream["server"]) = 2
      <4>1. CASE Len(stream["server"]) = 2 /\ stream["client"] = <<>>
        BY <3>2, <4>1
      <4>2. CASE Len(stream["client"]) = 2 /\ stream["server"] = <<>>
        BY <3>2, <4>2
      <4> QED
        BY <3>1, <4>1, <4>2
    <3>4. pc["client"] = "wait" /\ pc["server"] # "answer"
      BY <2>4 DEF ServerTurn, ClientTurn
    <3> QED
      BY <3>3, <3>4 DEF Turns
  <2>5. CASE AnswerTurn
    <3>1. stream["server"] = <<>> /\ stream["client"] = <<>>
      BY <2>5, EndsFacts DEF AnswerTurn, Idle
    <3>2. Len(stream["client"]) + Len(stream["server"]) = 0
      BY <3>1
    <3>3. pc["client"] = "wait" /\ pc["server"] = "answer"
      BY <2>5 DEF AnswerTurn
    <3> QED
      BY <3>2, <3>3 DEF Turns
  <2> QED
    BY <2>1, <2>3, <2>4, <2>5 DEF Turn
<1> QED
  BY WholeInvariance, <1>1, PTL

\* Under the same condition, what is on its way to the client is the answer to
\* its latest request, also after the server's or the client's end.
THEOREM AnswerIsRight ==
    ASSUME Splits = FALSE
    PROVE  Spec => []RightAnswer
<1>1. IInv => RightAnswer
  <2> SUFFICES ASSUME Whole, NEW i \in 1..Len(stream["client"])
               PROVE  stream["client"][i].msg = Answered
    BY DEF IInv, RightAnswer, Answered
  <2>1. CASE stream["client"] = <<>>
    BY <2>1
  <2>2. CASE stream["client"] = Pieces(Answered)
    <3>1. Len(stream["client"]) = 2
      BY <2>2, PiecesFacts
    <3>2. i = 1 \/ i = 2
      BY <3>1
    <3> QED
      BY <2>2, <3>2, PiecesFacts
  <2> QED
    BY <2>1, <2>2 DEF Whole, LastAnswer
<1> QED
  BY WholeInvariance, <1>1, PTL

\* Under the same condition, the server's console shows the texts that were
\* entered, in that order, and all of them when the next line can be entered.
THEOREM ConsoleIsRight ==
    ASSUME Splits = FALSE
    PROVE  Spec => []PrintedAsEntered
<1>1. IInv => PrintedAsEntered
  <2> SUFFICES ASSUME IInv PROVE PrintedAsEntered
    OBVIOUS
  <2>1. ASSUME pc["client"] = "input", fate["server"] = "open" PROVE printed = entered
    <3>1. fate["client"] = "open"
      BY <2>1, EndsFacts DEF IInv, Whole, Fates
    <3>2. stream["server"] = <<>>
      BY <2>1 DEF IInv, Whole, LastRequest
    <3> QED
      BY <2>1, <3>1, <3>2 DEF IInv, Whole, Console
  <2> QED
    BY <2>1 DEF IInv, Whole, Console, PrintedAsEntered
<1> QED
  BY WholeInvariance, <1>1, PTL
=============================================================================
