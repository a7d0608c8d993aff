---------------------------- MODULE MCThreadPool ----------------------------
(* Model values for the run of ThreadPool. *)
EXTENDS ThreadPool

CONSTANTS w1, w2, w3, s1, s2, s3

ThreeWorkers == {w1, w2, w3}
ThreeSockets == {s1, s2, s3}
=============================================================================
