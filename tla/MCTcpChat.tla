----------------------------- MODULE MCTcpChat ------------------------------
(* Values for the runs of TcpChat. *)
EXTENDS TcpChat

Unharmed == [e \in Ends |-> {}]
AnyDeath == [e \in Ends |-> {"fin", "abort"}]
=============================================================================
