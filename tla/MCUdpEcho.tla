----------------------------- MODULE MCUdpEcho ------------------------------
(* Model values for the runs of UdpEcho. *)
EXTENDS UdpEcho

CONSTANTS h1, h2

TwoHosts == {h1, h2}
=============================================================================
