------------------------------- MODULE ApLink -------------------------------
(***************************************************************************)
(* class TransportAP_Linux (linux_transport_ap.cpp): the TCP connection to *)
(* the autopilot.  txLoop and rxLoop are threads of their own; both use    *)
(* the plain int sockfd, and both close and reconnect it when their own    *)
(* call fails.  Every read and write of sockfd and every system call is a  *)
(* step.                                                                   *)
(*                                                                         *)
(* Descriptors are the process's: a closed one is the next to be handed    *)
(* out, to this link or to another part of the program (the telemetry      *)
(* server's clients).  A thread inside recv keeps its connection open      *)
(* although the descriptor is closed.                                      *)
(***************************************************************************)
EXTENDS Integers, Sequences, FiniteSetsExt

CONSTANTS Descriptors,      \* what the process may open, counted from 0
          MaxMessages,      \* bound: messages written to the link
          MaxRx,            \* bound: chunks in rx_queue
          MaxBreaks         \* bound: how often the autopilot goes away

ASSUME LinkAssumption ==
    /\ Descriptors \in Nat \ {0}
    /\ MaxMessages \in Nat /\ MaxRx \in Nat \ {0} /\ MaxBreaks \in Nat

Fd == 0 .. Descriptors - 1
NoFd == -1
Threads == {"tx", "rx"}

VARIABLES
    server,                 \* the autopilot accepts connections
    breaks,                 \* how often it went away
    table,                  \* the process's descriptors
    sockfd,                 \* the link's descriptor
    pc,                     \* where each thread is
    fd,                     \* the value of sockfd each thread loaded
    then,                   \* where closeSocket returns to
    rxOn,                   \* the descriptor rxLoop's recv was called with, while it blocks
    orphan,                 \* that recv's connection lost its descriptor
    txQueue,                \* tx_queue
    hand,                   \* the message txLoop popped, or 0
    written,                \* ghost: messages written so far, numbered 1, 2, ...
    accepted,               \* ghost: messages a connection to the autopilot took
    rxQueue,                \* how many chunks are in rx_queue
    overlap,                \* ghost: a thread used the socket while the other replaced it
    strayed                 \* ghost: the link used a descriptor that is not its own

kernel == <<server, breaks, table>>
threads == <<pc, fd, then, rxOn, orphan>>
messages == <<txQueue, hand, written, accepted, rxQueue>>
ghosts == <<overlap, strayed>>
vars == <<kernel, sockfd, threads, messages, ghosts>>

\* closed, another component's, created, connected, broken
SocketState == {"free", "other", "new", "up", "down"}
Replacing == {"check", "close", "clear", "socket", "connect"}

TypeOK ==
    /\ server \in BOOLEAN /\ breaks \in 0 .. MaxBreaks
    /\ table \in [Fd -> SocketState]
    /\ sockfd \in Fd \cup {NoFd}
    /\ pc \in [Threads -> Replacing \cup {"off", "never", "work", "send", "sleep"}]
    /\ fd \in [Threads -> Fd \cup {NoFd}]
    /\ then \in [Threads -> {"socket", "sleep"}]
    /\ rxOn \in Fd \cup {NoFd} /\ orphan \in {"no", "up", "down", "other"}
    /\ txQueue \in Seq(1 .. MaxMessages) /\ hand \in 0 .. MaxMessages
    /\ written \in 0 .. MaxMessages /\ accepted \in Seq(1 .. MaxMessages)
    /\ rxQueue \in 0 .. MaxRx
    /\ overlap \in BOOLEAN /\ strayed \in BOOLEAN

Init ==
    /\ server \in BOOLEAN /\ breaks = 0
    /\ table = [d \in Fd |-> "free"]
    /\ sockfd = NoFd
    /\ pc = [t \in Threads |-> "off"]
    /\ fd = [t \in Threads |-> NoFd] /\ then = [t \in Threads |-> "socket"]
    /\ rxOn = NoFd /\ orphan = "no"
    /\ txQueue = << >> /\ hand = 0 /\ written = 0 /\ accepted = << >> /\ rxQueue = 0
    /\ overlap = FALSE /\ strayed = FALSE

Free == {d \in Fd : table[d] = "free"}

At(d) == IF d = NoFd THEN "free" ELSE table[d]

Goto(t, where) == pc' = [pc EXCEPT ![t] = where]

\* a step of t that reads or writes sockfd, or calls the kernel with it
Uses(t) == overlap' = (overlap \/ \E u \in Threads \ {t} : pc[u] \in Replacing \cup {"sleep"})

-----------------------------------------------------------------------------
(* The world: the autopilot and the rest of the process. *)

ServerGoes ==
    /\ server /\ breaks < MaxBreaks
    /\ server' = FALSE /\ breaks' = breaks + 1
    /\ table' = [d \in Fd |-> IF table[d] = "up" THEN "down" ELSE table[d]]
    /\ orphan' = IF orphan = "up" THEN "down" ELSE orphan
    /\ UNCHANGED <<sockfd, pc, fd, then, rxOn, messages, ghosts>>

ServerComes ==
    /\ ~server
    /\ server' = TRUE
    /\ UNCHANGED <<breaks, table, sockfd, threads, messages, ghosts>>

\* close(d): a recv that is waiting on the connection keeps it
CloseDescriptor(d) ==
    /\ table' = [table EXCEPT ![d] = "free"]
    /\ orphan' = IF rxOn = d /\ orphan = "no" /\ table[d] # "free" THEN table[d] ELSE orphan

\* another component opens or closes a descriptor of its own
OtherOpens ==
    /\ Cardinality(Free) > 1
    /\ \A d \in Fd : table[d] # "other"
    /\ table' = [table EXCEPT ![Min(Free)] = "other"]
    /\ UNCHANGED <<server, breaks, sockfd, threads, messages, ghosts>>

OtherCloses(d) ==
    /\ table[d] = "other"
    /\ CloseDescriptor(d)
    /\ UNCHANGED <<server, breaks, sockfd, pc, fd, then, rxOn, messages, ghosts>>

-----------------------------------------------------------------------------
(* The main loop. *)

\* init(): the threads are started only if the first connection succeeds
InitConnects ==
    /\ pc["tx"] = "off"
    /\ server
    /\ sockfd' = Min(Free)
    /\ table' = [table EXCEPT ![Min(Free)] = "up"]
    /\ pc' = [t \in Threads |-> "work"]
    /\ UNCHANGED <<server, breaks, fd, then, rxOn, orphan, messages, ghosts>>

\* nobody looks at init's result: the link is never tried again
InitFails ==
    /\ pc["tx"] = "off"
    /\ ~server
    /\ pc' = [t \in Threads |-> "never"]
    /\ UNCHANGED <<kernel, sockfd, fd, then, rxOn, orphan, messages, ghosts>>

\* mutant of WriteBytes: the message is put in front of those that wait
WriteBytes_InFront ==
    /\ written < MaxMessages
    /\ written' = written + 1
    /\ txQueue' = <<written'>> \o txQueue
    /\ UNCHANGED <<kernel, sockfd, threads, hand, accepted, rxQueue, ghosts>>

WriteBytes ==
    /\ written < MaxMessages
    /\ written' = written + 1
    /\ txQueue' = Append(txQueue, written')
    /\ UNCHANGED <<kernel, sockfd, threads, hand, accepted, rxQueue, ghosts>>

\* mutant of ReadBytes: it does not wait for a chunk
ReadBytes_NoWait ==
    /\ rxQueue' = rxQueue - 1
    /\ UNCHANGED <<kernel, sockfd, threads, txQueue, hand, written, accepted, ghosts>>

\* one call takes one chunk
ReadBytes ==
    /\ rxQueue > 0
    /\ rxQueue' = rxQueue - 1
    /\ UNCHANGED <<kernel, sockfd, threads, txQueue, hand, written, accepted, ghosts>>

-----------------------------------------------------------------------------
(* txLoop and rxLoop. *)

Pop ==
    /\ pc["tx"] = "work" /\ txQueue # << >>
    /\ hand' = Head(txQueue) /\ txQueue' = Tail(txQueue)
    /\ Goto("tx", "send")
    /\ UNCHANGED <<kernel, sockfd, fd, then, rxOn, orphan, written, accepted, rxQueue, ghosts>>

\* a broken connection may still take a message before it reports the break
SendWorks ==
    /\ pc["tx"] = "send"
    /\ At(sockfd) \in {"up", "down", "other"}
    /\ accepted' = IF At(sockfd) = "up" THEN Append(accepted, hand) ELSE accepted
    /\ strayed' = (strayed \/ At(sockfd) = "other")
    /\ hand' = 0
    /\ Uses("tx")
    /\ Goto("tx", "work")
    /\ UNCHANGED <<kernel, sockfd, fd, then, rxOn, orphan, txQueue, written, rxQueue>>

\* the message in hand is lost
SendFails ==
    /\ pc["tx"] = "send"
    /\ At(sockfd) # "up"
    /\ hand' = 0
    /\ then' = [then EXCEPT !["tx"] = "socket"]
    /\ Uses("tx")
    /\ strayed' = (strayed \/ At(sockfd) = "other")
    /\ Goto("tx", "check")
    /\ UNCHANGED <<kernel, sockfd, fd, rxOn, orphan, txQueue, written, accepted, rxQueue>>

RecvBlocks ==
    /\ pc["rx"] = "work" /\ rxOn = NoFd
    /\ At(sockfd) \in {"up", "other"}
    /\ rxOn' = sockfd
    /\ strayed' = (strayed \/ At(sockfd) = "other")
    /\ Uses("rx")
    /\ UNCHANGED <<kernel, sockfd, pc, fd, then, orphan, messages>>

RecvConnection == IF orphan # "no" THEN orphan ELSE At(rxOn)

RecvReturnsData ==
    /\ rxOn # NoFd /\ RecvConnection \in {"up", "other"}
    /\ rxQueue < MaxRx
    /\ rxQueue' = rxQueue + 1
    /\ rxOn' = NoFd /\ orphan' = "no"
    /\ UNCHANGED <<kernel, sockfd, pc, fd, then, txQueue, hand, written, accepted, ghosts>>

\* mutant of RecvFails: the loop tries again on the same socket
RecvFails_NoReconnect ==
    /\ pc["rx"] = "work"
    /\ IF rxOn = NoFd THEN At(sockfd) \in {"down", "new", "free"}
                      ELSE RecvConnection \in {"down", "other"}
    /\ rxOn' = NoFd /\ orphan' = "no"
    /\ UNCHANGED <<kernel, sockfd, pc, fd, then, messages, ghosts>>

RecvFails ==
    /\ pc["rx"] = "work"
    /\ IF rxOn = NoFd THEN At(sockfd) \in {"down", "new", "free"}
                      ELSE RecvConnection \in {"down", "other"}
    /\ rxOn' = NoFd /\ orphan' = "no"
    /\ then' = [then EXCEPT !["rx"] = "socket"]
    /\ Uses("rx")
    /\ Goto("rx", "check")
    /\ UNCHANGED <<kernel, sockfd, fd, messages, strayed>>

-----------------------------------------------------------------------------
(* closeSocket and connectToServer, called by either thread. *)

CheckSocket(t) ==
    /\ pc[t] = "check" /\ Uses(t)
    /\ fd' = [fd EXCEPT ![t] = sockfd]
    /\ Goto(t, IF sockfd = NoFd THEN then[t] ELSE "close")
    /\ UNCHANGED <<kernel, sockfd, then, rxOn, orphan, messages, strayed>>

Close(t) ==
    /\ pc[t] = "close" /\ Uses(t)
    /\ CloseDescriptor(fd[t])
    /\ strayed' = (strayed \/ table[fd[t]] = "other")
    /\ Goto(t, "clear")
    /\ UNCHANGED <<server, breaks, sockfd, fd, then, rxOn, messages>>

ClearSocket(t) ==
    /\ pc[t] = "clear" /\ Uses(t)
    /\ sockfd' = NoFd
    /\ Goto(t, then[t])
    /\ UNCHANGED <<kernel, fd, then, rxOn, orphan, messages, strayed>>

\* the lowest free descriptor; none left makes the attempt fail
Socket(t) ==
    /\ pc[t] = "socket" /\ Uses(t)
    /\ IF Free = {}
       THEN sockfd' = NoFd /\ UNCHANGED table /\ Goto(t, "sleep")
       ELSE /\ sockfd' = Min(Free)
            /\ table' = [table EXCEPT ![Min(Free)] = "new"]
            /\ Goto(t, "connect")
    /\ UNCHANGED <<server, breaks, fd, then, rxOn, orphan, messages, strayed>>

\* connect() uses whatever sockfd is by now, and refuses a socket that is
\* connected already
ConnectWorks(t) ==
    /\ pc[t] = "connect" /\ Uses(t)
    /\ server /\ At(sockfd) = "new"
    /\ table' = [table EXCEPT ![sockfd] = "up"]
    /\ Goto(t, "work")
    /\ UNCHANGED <<server, breaks, sockfd, fd, then, rxOn, orphan, messages, strayed>>

\* mutant of ConnectFails: the socket is not closed
ConnectFails_NoClose(t) ==
    /\ pc[t] = "connect" /\ Uses(t)
    /\ ~server \/ At(sockfd) # "new"
    /\ Goto(t, "sleep")
    /\ UNCHANGED <<kernel, sockfd, fd, then, rxOn, orphan, messages, strayed>>

ConnectFails(t) ==
    /\ pc[t] = "connect" /\ Uses(t)
    /\ ~server \/ At(sockfd) # "new"
    /\ then' = [then EXCEPT ![t] = "sleep"]
    /\ strayed' = (strayed \/ At(sockfd) = "other")
    /\ Goto(t, "check")
    /\ UNCHANGED <<kernel, sockfd, fd, rxOn, orphan, messages>>

Wake(t) ==
    /\ pc[t] = "sleep"
    /\ Goto(t, "socket")
    /\ UNCHANGED <<kernel, sockfd, fd, then, rxOn, orphan, messages, ghosts>>

Reconnect(t) ==
    \/ CheckSocket(t) \/ Close(t) \/ ClearSocket(t)
    \/ Socket(t) \/ ConnectWorks(t) \/ ConnectFails(t) \/ Wake(t)

TxLoop == Pop \/ SendWorks \/ SendFails \/ Reconnect("tx")

RxLoop == RecvBlocks \/ RecvReturnsData \/ RecvFails \/ Reconnect("rx")

Next ==
    \/ ServerGoes \/ ServerComes \/ OtherOpens \/ \E d \in Fd : OtherCloses(d)
    \/ InitConnects \/ InitFails \/ WriteBytes \/ ReadBytes
    \/ TxLoop \/ RxLoop

Fairness == WF_vars(TxLoop) /\ WF_vars(RxLoop) /\ WF_vars(ReadBytes)

Spec == Init /\ [][Next]_vars /\ Fairness

-----------------------------------------------------------------------------
Started == pc["tx"] \notin {"off", "never"}

Own == {d \in Fd : table[d] \in {"new", "up", "down"}}

(* Messages reach the autopilot in the order they were written and none     *)
(* twice, whichever thread replaced the socket in between; and none is lost *)
(* before the autopilot first goes away.                                    *)
MessagesInOrder ==
    /\ \A j, k \in 1 .. Len(accepted) : j < k => accepted[j] < accepted[k]
    /\ breaks = 0 => Len(accepted) + Len(txQueue) + (IF hand = 0 THEN 0 ELSE 1) = written

(* As long as neither thread used the socket while the other was replacing  *)
(* it, the link holds no descriptor but sockfd and touched none of another  *)
(* part of the program.                                                     *)
AloneIsClean ==
    ~overlap => ~strayed /\ Own \subseteq {sockfd}

\* a step that leaves thread t where it is
Still(t) == pc'[t] = pc[t] /\ (t = "rx" => rxOn' = rxOn)

(* The link recovers from whatever its two threads did to each other: when  *)
(* the autopilot stays reachable, and from some time on each thread gets    *)
(* through closeSocket and connectToServer without a step of the other, a   *)
(* link that was started and has not leaked every descriptor of the process *)
(* ends up connected, both threads in their loops and nothing left to send. *)
LinkRestored ==
    /\ <>[](server /\ Started /\ Free # {})
    /\ <>[][\A t, u \in Threads : pc[t] \in Replacing /\ u # t => Still(u)]_vars
    => <>[](/\ At(sockfd) = "up"
            /\ \A t \in Threads : pc[t] \in {"work", "send"}
            /\ txQueue = << >>)
=============================================================================
