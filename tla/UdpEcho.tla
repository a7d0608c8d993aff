------------------------------ MODULE UdpEcho -------------------------------
(***************************************************************************)
(* udp/: an echo server and its clients, one on each host. A client sends  *)
(* what its user enters to the server's port, and waits for the echo on    *)
(* the port CLIENT_RETURN_SOCKET of its own host. "exit" ends the client   *)
(* that sends it and the server.                                           *)
(***************************************************************************)
EXTENDS Naturals

CONSTANTS
    Hosts,      \* the hosts of the clients
    NoHost,     \* client_ret before the first datagram
    Faults,     \* what may go wrong: "lose", "duplicate", "error"
    MaxSends,   \* bound: lines entered at each client
    MaxFaults   \* bound: datagrams lost, and datagrams delivered again

ASSUME EchoAssumption ==
    /\ NoHost \notin Hosts
    /\ Faults \subseteq {"lose", "duplicate", "error"}
    /\ MaxSends \in Nat
    /\ MaxFaults \in Nat

VARIABLES
    serverUp,   \* the server runs
    client_ret, \* the host that the server's echoes go to
    pc,         \* where each client is
    sent,       \* how many lines each client has sent
    got,        \* the echo each client printed last
    toServer,   \* datagrams under way to the server
    toHost,     \* datagrams under way to port CLIENT_RETURN_SOCKET of a host
    losses,     \* how many datagrams got lost
    copies      \* how many datagrams were delivered and are still under way

vars == <<serverUp, client_ret, pc, sent, got, toServer, toHost, losses, copies>>

\* The n-th line entered at a host. No line but the last is "exit".
Line(h, n, exit) == [from |-> h, n |-> n, exit |-> exit]

Datagrams == [from : Hosts, n : 1..MaxSends, exit : BOOLEAN]

Init ==
    /\ serverUp = TRUE
    /\ client_ret = NoHost
    /\ pc = [h \in Hosts |-> "off"]
    /\ sent = [h \in Hosts |-> 0]
    /\ got = [h \in Hosts |-> Line(h, 0, FALSE)]
    /\ toServer = {}
    /\ toHost = [h \in Hosts |-> {}]
    /\ losses = 0
    /\ copies = 0

-----------------------------------------------------------------------------
(* The clients. *)

Start(h) ==
    /\ pc[h] = "off"
    /\ pc' = [pc EXCEPT ![h] = "input"]
    /\ UNCHANGED <<serverUp, client_ret, sent, got, toServer, toHost, losses, copies>>

\* FAULT: the line before is sent once more.
PreviousLine(h, exit) == Line(h, sent[h], exit)

\* What getline() reads.
NextLine(h, exit) == Line(h, sent[h] + 1, exit)

\* FAULT: the client sends without waiting for the echo.
EnterAhead(h) ==
    /\ pc[h] \in {"input", "wait"}
    /\ sent[h] < MaxSends
    /\ sent' = [sent EXCEPT ![h] = @ + 1]
    /\ toServer' = toServer \cup {NextLine(h, FALSE)}
    /\ pc' = [pc EXCEPT ![h] = "wait"]
    /\ UNCHANGED <<serverUp, client_ret, got, toHost, losses, copies>>

\* The user enters a line, which is sent. A line of more than BUFFER_SIZE - 1
\* characters is refused and nothing changes.
Enter(h) ==
    /\ pc[h] = "input"
    /\ sent[h] < MaxSends
    /\ sent' = [sent EXCEPT ![h] = @ + 1]
    /\ toServer' = toServer \cup {NextLine(h, FALSE)}
    /\ pc' = [pc EXCEPT ![h] = "wait"]
    /\ UNCHANGED <<serverUp, client_ret, got, toHost, losses, copies>>

\* The user enters "exit": it is sent, and no echo is waited for.
EnterExit(h) ==
    /\ pc[h] = "input"
    /\ sent[h] < MaxSends
    /\ sent' = [sent EXCEPT ![h] = @ + 1]
    /\ toServer' = toServer \cup {NextLine(h, TRUE)}
    /\ pc' = [pc EXCEPT ![h] = "exit"]
    /\ UNCHANGED <<serverUp, client_ret, got, toHost, losses, copies>>

\* sendto() or recvfrom() fails and the client gives up.
ClientFails(h) ==
    /\ "error" \in Faults
    /\ pc[h] \in {"input", "wait"}
    /\ pc' = [pc EXCEPT ![h] = "failed"]
    /\ UNCHANGED <<serverUp, client_ret, sent, got, toServer, toHost, losses, copies>>

\* A receiver takes d out of the datagrams under way `net`, unless the network
\* made two of it.
Take(net, d, rest) ==
    \/ /\ rest = net \ {d}
       /\ UNCHANGED copies
    \/ /\ "duplicate" \in Faults
       /\ copies < MaxFaults
       /\ copies' = copies + 1
       /\ rest = net

Receive(h) ==
    /\ pc[h] = "wait"
    /\ \E d \in toHost[h] : \E rest \in {toHost[h], toHost[h] \ {d}} :
        /\ Take(toHost[h], d, rest)
        /\ got' = [got EXCEPT ![h] = d]
        /\ toHost' = [toHost EXCEPT ![h] = rest]
    /\ pc' = [pc EXCEPT ![h] = "input"]
    /\ UNCHANGED <<serverUp, client_ret, sent, toServer, losses>>

-----------------------------------------------------------------------------
(* The server. *)

\* FAULT: "exit" is echoed like any other line.
NeverExits(d) == FALSE

IsExit(d) == d.exit

\* The first datagram that is not "exit" decides where the echoes go.
ReturnTo(d) == IF client_ret = NoHost THEN d.from ELSE client_ret

\* FAULT: the echo is sent where the return socket is opened.
EchoOnce(d) ==
    /\ client_ret' = ReturnTo(d)
    /\ toHost' = IF client_ret = NoHost THEN [toHost EXCEPT ![d.from] = @ \cup {d}] ELSE toHost

Echo(d) ==
    /\ client_ret' = ReturnTo(d)
    /\ toHost' = [toHost EXCEPT ![ReturnTo(d)] = @ \cup {d}]

\* The loop's body.
Serve ==
    /\ serverUp
    /\ \E d \in toServer : \E rest \in {toServer, toServer \ {d}} :
        /\ Take(toServer, d, rest)
        /\ toServer' = rest
        /\ IF IsExit(d)
           THEN serverUp' = FALSE /\ UNCHANGED <<client_ret, toHost>>
           ELSE Echo(d) /\ UNCHANGED serverUp
    /\ UNCHANGED <<pc, sent, got, losses>>

\* recvfrom(), getaddrinfo() or sendto() fails and the server gives up, in
\* the latter cases after it took a datagram.
ServerFails ==
    /\ "error" \in Faults
    /\ serverUp
    /\ serverUp' = FALSE
    /\ \E lost \in {{}} \cup {{d} : d \in toServer} : toServer' = toServer \ lost
    /\ UNCHANGED <<client_ret, pc, sent, got, toHost, losses, copies>>

\* The network may drop a datagram.
Lose ==
    /\ "lose" \in Faults
    /\ losses < MaxFaults
    /\ losses' = losses + 1
    /\ \/ \E d \in toServer : toServer' = toServer \ {d} /\ UNCHANGED toHost
       \/ \E h \in Hosts : \E d \in toHost[h] :
            /\ toHost' = [toHost EXCEPT ![h] = @ \ {d}]
            /\ UNCHANGED toServer
    /\ UNCHANGED <<serverUp, client_ret, pc, sent, got, copies>>

-----------------------------------------------------------------------------
Next ==
    \/ \E h \in Hosts :
        Start(h) \/ Enter(h) \/ EnterExit(h) \/ ClientFails(h) \/ Receive(h)
    \/ Serve
    \/ ServerFails
    \/ Lose

\* The processes are scheduled, and a datagram that is not lost arrives; the
\* user need not enter anything.
Fairness ==
    /\ WF_vars(Serve)
    /\ \A h \in Hosts : WF_vars(Receive(h))

Spec == Init /\ [][Next]_vars
FairSpec == Spec /\ Fairness

-----------------------------------------------------------------------------
(* Properties. *)

TypeOK ==
    /\ serverUp \in BOOLEAN
    /\ client_ret \in Hosts \cup {NoHost}
    /\ pc \in [Hosts -> {"off", "input", "wait", "exit", "failed"}]
    /\ sent \in [Hosts -> 0..MaxSends]
    /\ got \in [Hosts -> [from : Hosts, n : 0..MaxSends, exit : {FALSE}]]
    /\ toServer \in SUBSET Datagrams
    /\ toHost \in [Hosts -> SUBSET Datagrams]
    /\ losses \in 0..MaxFaults
    /\ copies \in 0..MaxFaults

\* The client's user reads the echo of the line just entered, and not of an
\* earlier one: nothing in an echo tells which line it answers, so the client
\* relies on there being one datagram under way. A duplicated one puts it out
\* of step, and so does another client: the echoes of both go to one of them.
EchoOfLast ==
    \A h \in Hosts :
        /\ pc[h] = "input"
        /\ copies = 0
        /\ \A g \in Hosts \ {h} : sent[g] = 0
        => got[h] = Line(h, sent[h], FALSE)

\* "exit" ends both programs (udp/README.md:28), unless it was lost: nobody
\* acknowledges it.
ExitEndsBoth ==
    \A h \in Hosts : pc[h] = "exit" ~> ~serverUp \/ losses > 0

\* A line that was sent is answered, unless it or its echo was lost, or the
\* server ended before, or client_ret is another client's host: all echoes go
\* to the host of the first datagram, and the others wait in vain.
EchoArrives ==
    \A h \in Hosts :
        pc[h] = "wait" /\ client_ret \in {NoHost, h}
        ~>
        \/ pc[h] # "wait"
        \/ client_ret \notin {NoHost, h}
        \/ ~serverUp
        \/ losses > 0
=============================================================================
