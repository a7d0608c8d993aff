---------------------------- MODULE MCChatServer ----------------------------
(* Model values for the runs of ChatServer. *)
EXTENDS ChatServer, TLC

CONSTANTS c1, c2, c3, n1, n2, n3

TwoConns == {c1, c2}
ThreeConns == {c1, c2, c3}
OneNick == {n1}
ThreeNicks == {n1, n2, n3}
TwoNicks == {n1, n2}

\* Every client may ask for any name.
AnyName == [c \in Conns |-> Names]

\* Every client may ask for any name that fits.
AnyNick == [c \in Conns |-> Nicks]

\* Every client has a name of its own.
OwnNick == [c \in Conns |-> CASE c = c1 -> {n1} [] c = c2 -> {n2} [] OTHER -> {n3}]

\* What the clients say.
Silent == [c \in Conns |-> {}]
TextsAndPings == [c \in Conns |-> {"TEXT", "PING", "BYE"}]
PrivatesAndByes == [c \in Conns |-> {"PRIVATE", "BYE"}]

\* One client talks and whispers, the other one talks and leaves.
OneWhispers == [c \in Conns |-> IF c = c1 THEN {"TEXT", "PRIVATE"} ELSE {"TEXT", "BYE"}]

Symmetry == Permutations(Conns) \cup Permutations(Nicks)
=============================================================================
