---------------------------- MODULE MCPthreadRoom ----------------------------
(***************************************************************************)
(* PthreadRoom on small instances.                                         *)
(***************************************************************************)
EXTENDS PthreadRoom

CONSTANTS c1, c2, w1, w2, w3, ann, noname

TwoConns == {c1, c2}
ThreeWorkers == {w1, w2, w3}
TwoNames == {ann, noname}

\* Both want the same name; c1 may try the empty one as well.
OneRival == [c \in Conns |-> IF c = c1 THEN TwoNames ELSE {ann}]

\* c1 talks until its connection breaks, c2 leaves politely.
Talker == [c \in Conns |-> IF c = c1 THEN {"TEXT"} ELSE {"PING", "BYE"}]
OneBreaks == [c \in Conns |-> IF c = c1 THEN {"abort"} ELSE {}]

Polite == [c \in Conns |-> {"TEXT", "BYE"}]
NoneBreaks == [c \in Conns |-> {}]
=============================================================================
