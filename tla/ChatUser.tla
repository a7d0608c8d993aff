------------------------------ MODULE ChatUser ------------------------------
(***************************************************************************)
(* What the two chat rooms take a client to do: the order in which it      *)
(* greets, names itself, talks and leaves. ChatServer (osi) and PthreadRoom*)
(* (tcp_pthread) put such clients at the other end of their connections.   *)
(***************************************************************************)
EXTENDS Sequences

CONSTANT ChatKinds  \* what it may say in the room, but "BYE"

VARIABLES
    program,  \* which of the two clients it is
    phase,    \* where the dialogue is
    sent      \* the kinds of the requests it has put on the connection

Init ==
    /\ program \in {"osi", "tcp_pthread"}
    /\ phase = IF program = "osi" THEN "off" ELSE "name"
    /\ sent = <<>>

\* The dialogue goes from one phase to the next, with a request or without.
Go(from, to) == phase = from /\ phase' = to
With(kind) == sent' = Append(sent, kind) /\ UNCHANGED program
Quietly == UNCHANGED <<sent, program>>

Greet == program = "osi" /\ Go("off", "hello") /\ With("HELLO")

EnterName ==
    \/ program = "osi" /\ Go("hello", "auth") /\ With("AUTH")
    \/ program = "tcp_pthread" /\ Go("name", "auth") /\ With("HELLO")

\* A name was refused, and only the older client asks for another one.
AskAgain == program = "tcp_pthread" /\ Go("auth", "name") /\ Quietly

EnterRoom == Go("auth", "chat") /\ Quietly

Say == \E kind \in ChatKinds : Go("chat", "chat") /\ With(kind)

Quit == Go("chat", "quit") /\ With("BYE")

\* The connection is closed, or the process ends.
Leave == phase # "gone" /\ phase' = "gone" /\ Quietly

Next == Greet \/ EnterName \/ AskAgain \/ EnterRoom \/ Say \/ Quit \/ Leave

UserSpec == Init /\ [][Next]_<<program, phase, sent>>
=============================================================================
