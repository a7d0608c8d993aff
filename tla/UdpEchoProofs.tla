--------------------------- MODULE UdpEchoProofs ---------------------------
(***************************************************************************)
(* The safety of UdpEcho for any hosts, lines and faults: as long as one   *)
(* client is alone and no datagram was doubled, there is one datagram      *)
(* under way at most, and it repeats the line entered last (Single).       *)
(***************************************************************************)
EXTENDS UdpEcho, TLAPS

\* Nobody but h has sent anything, and every datagram arrived once at most.
Undisturbed(h) ==
    /\ copies = 0
    /\ \A g \in Hosts \ {h} : sent[g] = 0

\* What is under way then, by the place of h.
Single(h) ==
    /\ client_ret \in {NoHost, h}
    /\ \A g \in Hosts \ {h} : toHost[g] = {}
    /\ pc[h] \in {"off", "input"} =>
        /\ toServer = {} /\ toHost[h] = {}
        /\ got[h] = Line(h, sent[h], FALSE)
    /\ pc[h] = "wait" =>
        /\ toServer \cup toHost[h] \subseteq {Line(h, sent[h], FALSE)}
        /\ toServer = {} \/ toHost[h] = {}
    /\ \A d \in toServer : d.from = h

IInv ==
    /\ TypeOK
    /\ \A h \in Hosts : \A d \in toHost[h] : ~d.exit
    /\ \A h \in Hosts : Undisturbed(h) => Single(h)

-----------------------------------------------------------------------------
LEMMA LineType ==
    ASSUME NEW h \in Hosts, NEW n \in 1..MaxSends, NEW exit \in BOOLEAN
    PROVE  Line(h, n, exit) \in Datagrams
BY DEF Line, Datagrams

LEMMA InitIInv == Init => IInv
<1> SUFFICES ASSUME Init PROVE IInv
  OBVIOUS
<1>1. TypeOK
  BY EchoAssumption DEF Init, TypeOK, Line, Datagrams
<1>2. \A h \in Hosts : \A d \in toHost[h] : ~d.exit
  BY DEF Init
<1>3. \A h \in Hosts : Undisturbed(h) => Single(h)
  BY DEF Init, Single
<1> QED
  BY <1>1, <1>2, <1>3 DEF IInv

\* Each line is sent from "input", and gets a number of its own.
LEMMA SendType ==
    ASSUME TypeOK, NEW h \in Hosts, NEW exit \in BOOLEAN, sent[h] < MaxSends,
           sent' = [sent EXCEPT ![h] = @ + 1],
           toServer' = toServer \cup {NextLine(h, exit)}
    PROVE  /\ sent' \in [Hosts -> 0..MaxSends]
           /\ toServer' \in SUBSET Datagrams
<1>1. sent[h] + 1 \in 1..MaxSends /\ sent[h] + 1 \in 0..MaxSends
  BY EchoAssumption DEF TypeOK
<1>2. NextLine(h, exit) \in Datagrams
  BY <1>1, LineType DEF NextLine
<1> QED
  BY <1>1, <1>2 DEF TypeOK

LEMMA TakeType ==
    ASSUME TypeOK, NEW net, NEW d, NEW rest, Take(net, d, rest)
    PROVE  copies' \in 0..MaxFaults /\ (copies' = 0 => copies = 0 /\ (rest = net \ {d}))
BY EchoAssumption DEF TypeOK, Take

LEMMA TypeStep ==
    ASSUME IInv, [Next]_vars
    PROVE  TypeOK'
<1> TypeOK
  BY DEF IInv
<1>1. CASE UNCHANGED vars
  BY <1>1 DEF vars, TypeOK
<1>2. ASSUME NEW h \in Hosts, Start(h) PROVE TypeOK'
  BY <1>2 DEF Start, TypeOK
<1>3. ASSUME NEW h \in Hosts, Enter(h) PROVE TypeOK'
  BY <1>3, SendType DEF Enter, TypeOK
<1>4. ASSUME NEW h \in Hosts, EnterExit(h) PROVE TypeOK'
  BY <1>4, SendType DEF EnterExit, TypeOK
<1>5. ASSUME NEW h \in Hosts, ClientFails(h) PROVE TypeOK'
  BY <1>5 DEF ClientFails, TypeOK
<1>6. ASSUME NEW h \in Hosts, Receive(h) PROVE TypeOK'
  <2>1. PICK d \in toHost[h], rest \in SUBSET toHost[h] :
            /\ Take(toHost[h], d, rest)
            /\ got' = [got EXCEPT ![h] = d]
            /\ toHost' = [toHost EXCEPT ![h] = rest]
    BY <1>6 DEF Receive
  <2>2. d \in Datagrams /\ d.exit = FALSE
    BY <2>1 DEF TypeOK, IInv
  <2>3. d \in [from : Hosts, n : 0..MaxSends, exit : {FALSE}]
    <3>1. d = [from |-> d.from, n |-> d.n, exit |-> d.exit] /\ d.from \in Hosts
      BY <2>2 DEF Datagrams
    <3>2. d.n \in 0..MaxSends
      BY <2>2, EchoAssumption DEF Datagrams
    <3> QED
      BY <2>2, <3>1, <3>2
  <2>4. copies' \in 0..MaxFaults
    BY <2>1, TakeType
  <2> QED
    BY <1>6, <2>1, <2>3, <2>4 DEF Receive, TypeOK
<1>7. CASE Serve
  <2>1. PICK d \in toServer, rest \in SUBSET toServer :
            /\ Take(toServer, d, rest)
            /\ toServer' = rest
            /\ IF IsExit(d)
               THEN serverUp' = FALSE /\ UNCHANGED <<client_ret, toHost>>
               ELSE Echo(d) /\ UNCHANGED serverUp
    BY <1>7 DEF Serve
  <2>2. copies' \in 0..MaxFaults /\ toServer' \in SUBSET Datagrams /\ serverUp' \in BOOLEAN
    BY <2>1, TakeType DEF TypeOK
  <2>3. client_ret' \in Hosts \cup {NoHost} /\ toHost' \in [Hosts -> SUBSET Datagrams]
    BY <2>1 DEF Echo, ReturnTo, TypeOK, Datagrams
  <2> QED
    BY <1>7, <2>2, <2>3 DEF Serve, TypeOK
<1>8. CASE ServerFails
  BY <1>8 DEF ServerFails, TypeOK
<1>9. CASE Lose
  <2>1. losses' \in 0..MaxFaults
    BY <1>9, EchoAssumption DEF Lose, TypeOK
  <2>2. toServer' \in SUBSET Datagrams /\ toHost' \in [Hosts -> SUBSET Datagrams]
    BY <1>9 DEF Lose, TypeOK
  <2> QED
    BY <1>9, <2>1, <2>2 DEF Lose, TypeOK
<1> QED
  BY <1>1, <1>2, <1>3, <1>4, <1>5, <1>6, <1>7, <1>8, <1>9 DEF Next

\* The server never echoes "exit".
LEMMA NoExitStep ==
    ASSUME IInv, [Next]_vars
    PROVE  (\A h \in Hosts : \A d \in toHost[h] : ~d.exit)'
<1> TypeOK /\ \A h \in Hosts : \A d \in toHost[h] : ~d.exit
  BY DEF IInv
<1>1. CASE UNCHANGED toHost
  BY <1>1
<1>2. ASSUME NEW h \in Hosts, Receive(h) PROVE (\A g \in Hosts : \A d \in toHost[g] : ~d.exit)'
  BY <1>2 DEF Receive, TypeOK
<1>3. CASE Serve
  <2>1. PICK d \in toServer : IF IsExit(d) THEN UNCHANGED toHost ELSE Echo(d)
    BY <1>3 DEF Serve
  <2>2. CASE IsExit(d)
    BY <1>1, <2>1, <2>2
  <2>3. CASE ~IsExit(d)
    <3>1. \A h \in Hosts : toHost'[h] \subseteq toHost[h] \cup {d}
      BY <2>1, <2>3 DEF Echo, TypeOK
    <3> QED
      BY <2>3, <3>1 DEF IsExit
  <2> QED
    BY <2>2, <2>3
<1>4. CASE Lose
  BY <1>4 DEF Lose, TypeOK
<1>5. CASE \E h \in Hosts : Start(h) \/ Enter(h) \/ EnterExit(h) \/ ClientFails(h)
  BY <1>5, <1>1 DEF Start, Enter, EnterExit, ClientFails
<1>6. CASE ServerFails \/ UNCHANGED vars
  BY <1>6, <1>1 DEF ServerFails, vars
<1> QED
  BY <1>2, <1>3, <1>4, <1>5, <1>6 DEF Next

\* Lines and copies are counted upwards.
LEMMA UndisturbedBefore ==
    ASSUME IInv, [Next]_vars, NEW h \in Hosts, Undisturbed(h)'
    PROVE  Undisturbed(h)
<1> TypeOK
  BY DEF IInv
<1> copies \in Nat /\ sent \in [Hosts -> Nat]
  BY EchoAssumption DEF TypeOK
<1>1. CASE UNCHANGED <<sent, copies>>
  BY <1>1 DEF Undisturbed
<1>2. ASSUME NEW g \in Hosts, Enter(g) \/ EnterExit(g) PROVE Undisturbed(h)
  <2>1. copies' = copies /\ sent' = [sent EXCEPT ![g] = @ + 1]
    BY <1>2 DEF Enter, EnterExit
  <2> QED
    BY <2>1 DEF Undisturbed
<1>3. ASSUME NEW g \in Hosts, Receive(g) PROVE Undisturbed(h)
  BY <1>3, TakeType DEF Receive, Undisturbed
<1>4. CASE Serve
  BY <1>4, TakeType DEF Serve, Undisturbed
<1>5. CASE Lose \/ ServerFails \/ UNCHANGED vars
  BY <1>5, <1>1 DEF Lose, ServerFails, vars
<1>6. ASSUME NEW g \in Hosts, Start(g) \/ ClientFails(g) PROVE Undisturbed(h)
  BY <1>6, <1>1 DEF Start, ClientFails
<1> QED
  BY <1>2, <1>3, <1>4, <1>5, <1>6 DEF Next

\* One step with nobody else about.
LEMMA SingleStep ==
    ASSUME IInv, [Next]_vars, NEW h \in Hosts, Undisturbed(h)'
    PROVE  Single(h)'
<1>1. TypeOK /\ Undisturbed(h) /\ Single(h) /\ copies' = 0 /\ copies = 0
  BY UndisturbedBefore DEF IInv, Undisturbed
<1> USE <1>1
<1> sent \in [Hosts -> Nat]
  BY EchoAssumption DEF TypeOK
<1>2. CASE UNCHANGED vars
  BY <1>2 DEF vars, Single
<1>3. ASSUME NEW g \in Hosts, Start(g) \/ ClientFails(g) PROVE Single(h)'
  BY <1>3 DEF Start, ClientFails, Single, TypeOK
<1>4. ASSUME NEW g \in Hosts, Enter(g) PROVE Single(h)'
  <2>1. g = h
    <3>1. sent'[g] = sent[g] + 1 /\ sent[g] \in Nat
      BY <1>4 DEF Enter
    <3> QED
      BY <3>1 DEF Undisturbed
  <2>2. toServer' = {Line(h, sent'[h], FALSE)} /\ toHost[h] = {}
    BY <1>4, <2>1 DEF Enter, NextLine, Single
  <2>3. Line(h, sent'[h], FALSE).from = h
    BY DEF Line
  <2> QED
    BY <1>4, <2>1, <2>2, <2>3 DEF Enter, Single, TypeOK
<1>5. ASSUME NEW g \in Hosts, EnterExit(g) PROVE Single(h)'
  <2>1. g = h
    <3>1. sent'[g] = sent[g] + 1 /\ sent[g] \in Nat
      BY <1>5 DEF EnterExit
    <3> QED
      BY <3>1 DEF Undisturbed
  <2>2. NextLine(h, TRUE).from = h
    BY DEF NextLine, Line
  <2> QED
    BY <1>5, <2>1, <2>2 DEF EnterExit, Single, TypeOK
<1>6. ASSUME NEW g \in Hosts, Receive(g) PROVE Single(h)'
  <2>1. PICK d \in toHost[g], rest \in SUBSET toHost[g] :
            /\ Take(toHost[g], d, rest)
            /\ got' = [got EXCEPT ![g] = d]
            /\ toHost' = [toHost EXCEPT ![g] = rest]
    BY <1>6 DEF Receive
  <2>2. g = h
    BY <2>1 DEF Single
  <2>3. rest = toHost[h] \ {d}
    BY <2>1, <2>2, TakeType
  <2>4. pc[h] = "wait" /\ pc' = [pc EXCEPT ![h] = "input"]
        /\ UNCHANGED <<client_ret, sent, toServer>>
    BY <1>6, <2>2 DEF Receive
  <2>5. d = Line(h, sent[h], FALSE) /\ rest = {} /\ toServer = {}
    BY <2>1, <2>2, <2>3, <2>4 DEF Single
  <2> QED
    BY <2>1, <2>2, <2>4, <2>5 DEF Single, TypeOK
<1>7. CASE Serve
  <2>1. PICK d \in toServer, rest \in SUBSET toServer :
            /\ Take(toServer, d, rest)
            /\ toServer' = rest
            /\ IF IsExit(d)
               THEN serverUp' = FALSE /\ UNCHANGED <<client_ret, toHost>>
               ELSE Echo(d) /\ UNCHANGED serverUp
    BY <1>7 DEF Serve
  <2>2. toServer' = toServer \ {d} /\ d.from = h
    BY <2>1, TakeType DEF Single
  <2>3. UNCHANGED <<pc, sent, got>>
    BY <1>7 DEF Serve
  <2>4. CASE IsExit(d)
    BY <2>1, <2>2, <2>3, <2>4 DEF Single
  <2>5. CASE ~IsExit(d)
    <3>1. client_ret' = h /\ toHost' = [toHost EXCEPT ![h] = @ \cup {d}]
      BY <2>1, <2>2, <2>5 DEF Echo, ReturnTo, Single
    <3>2. pc[h] \notin {"off", "input"}
      BY DEF Single
    <3> QED
      BY <2>2, <2>3, <3>1, <3>2 DEF Single, TypeOK
  <2> QED
    BY <2>4, <2>5
<1>8. CASE ServerFails
  BY <1>8 DEF ServerFails, Single
<1>9. CASE Lose
  <2>1. CASE \E d \in toServer : toServer' = toServer \ {d} /\ UNCHANGED toHost
    BY <1>9, <2>1 DEF Lose, Single
  <2>2. CASE \E g \in Hosts : \E d \in toHost[g] :
                /\ toHost' = [toHost EXCEPT ![g] = @ \ {d}]
                /\ UNCHANGED toServer
    <3>1. \A g \in Hosts : toHost'[g] \subseteq toHost[g]
      BY <2>2 DEF TypeOK
    <3> QED
      BY <1>9, <2>2, <3>1 DEF Lose, Single
  <2> QED
    BY <1>9, <2>1, <2>2 DEF Lose
<1> QED
  BY <1>2, <1>3, <1>4, <1>5, <1>6, <1>7, <1>8, <1>9 DEF Next

\* The invariant holds in every reachable state.
THEOREM Invariance == Spec => []IInv
<1>1. IInv /\ [Next]_vars => IInv'
  <2> SUFFICES ASSUME IInv, [Next]_vars PROVE IInv'
    OBVIOUS
  <2>1. TypeOK' /\ (\A h \in Hosts : \A d \in toHost[h] : ~d.exit)'
    BY TypeStep, NoExitStep
  <2>2. (\A h \in Hosts : Undisturbed(h) => Single(h))'
    BY SingleStep
  <2> QED
    BY <2>1, <2>2 DEF IInv
<1> QED
  BY InitIInv, <1>1, PTL DEF Spec

-----------------------------------------------------------------------------
\* Every variable stays in its set, whatever the network does: in particular
\* no client ever prints an echoed "exit".
THEOREM TypeCorrect == Spec => []TypeOK
<1>1. IInv => TypeOK
  BY DEF IInv
<1> QED
  BY Invariance, <1>1, PTL

\* The only client there is reads the echo of the line it sent last, for any
\* number of hosts and lines, and any losses and failures: udp/client.cpp
\* needs no numbers in its datagrams as long as none arrives twice.
THEOREM EchoIsOfLast == Spec => []EchoOfLast
<1>1. IInv => EchoOfLast
  BY DEF IInv, EchoOfLast, Undisturbed, Single
<1> QED
  BY Invariance, <1>1, PTL
=============================================================================
