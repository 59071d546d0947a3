-------------------------- MODULE TelemetrySession --------------------------
(***************************************************************************)
(* Telemetry::update (telemetry.cpp) with its log queue, on top of the TCP *)
(* server of either platform.  update runs on the main loop: it handles    *)
(* the client's commands, sends the status, empties the log queue and      *)
(* sends the tags.  Every write may find the client gone, and on Linux the *)
(* failing write logs about it, into the queue that is being emptied; a    *)
(* write to a client that does not read blocks there, without a timeout.   *)
(* Meanwhile the server's thread accepts clients: on Linux at any moment,  *)
(* replacing the one there is, on the ESP32 only when there is none.       *)
(*                                                                         *)
(* Log lines are numbered; those after MaxLine are not told apart.         *)
(***************************************************************************)
EXTENDS Naturals, Sequences, FiniteSets

CONSTANTS QueueSize,        \* of logQueue: 10 in the program
          MaxRead,          \* commands one read may hold: 34 in the program
          MaxLine           \* bound: lines told apart

ASSUME SessionAssumption ==
    /\ QueueSize \in Nat \ {0}
    /\ MaxRead \in Nat \ {0}
    /\ MaxLine \in Nat

VARIABLES
    pc,                     \* where update is
    ret,                    \* where it goes on after a blocked send or disconnectClient
    commands,               \* read from the client and not yet handled
    logQueue,               \* lines waiting
    line,                   \* the number of the next line
    conn,                   \* the server's client: none, up, or broken unnoticed
    accepting,              \* the server's thread is running
    errorReported,          \* the socket's pending error has been returned
    replaced,               \* clientSocket is no longer the one the write works on
    platform,               \* the program was built for
    held,                   \* lines in the packet of a blocked send
    received, lost, dropped \* ghosts: what became of the lines

queue == <<logQueue, line, dropped>>
socket == <<conn, accepting, errorReported>>
fate == <<held, received, lost>>
vars == <<pc, ret, commands, queue, socket, replaced, platform, fate>>

Late == MaxLine + 1
Line == 1 .. Late

Places == {"idle", "reading", "commands", "rebooting", "logs", "sending", "disconnecting"}

Command == {"action", "reboot"}

TypeOK ==
    /\ pc \in Places /\ ret \in Places
    /\ commands \in Seq(Command) /\ Len(commands) <= MaxRead
    /\ logQueue \in Seq(Line) /\ Len(logQueue) <= QueueSize
    /\ line \in Line
    /\ conn \in {"none", "up", "broken"}
    /\ accepting \in BOOLEAN /\ errorReported \in BOOLEAN
    /\ replaced \in BOOLEAN
    /\ platform \in {"linux", "esp32"}
    /\ held \subseteq Line /\ received \subseteq Line /\ lost \subseteq Line /\ dropped \subseteq Line

Init ==
    /\ pc = "idle" /\ ret = "idle" /\ commands = << >>
    /\ logQueue = << >>
    /\ line = 1
    /\ conn = "none" /\ accepting = TRUE /\ errorReported = FALSE
    /\ replaced = FALSE
    /\ platform \in {"linux", "esp32"}
    /\ held = {} /\ received = {} /\ lost = {} /\ dropped = {}

-----------------------------------------------------------------------------
(* telem_printf, sendLogMsg: a full queue turns the line away. *)

Numbered(n) == IF n > MaxLine THEN Late ELSE n

Room(q) == QueueSize - Len(q)

\* mutant of Log: the queue has no bound
Log_Unbounded(q, n) ==
    /\ logQueue' = q \o [k \in 1 .. n |-> Numbered(line + k - 1)]
    /\ line' = Numbered(line + n)
    /\ UNCHANGED dropped

\* n lines are logged, into the queue q
Log(q, n) ==
    LET kept == IF n <= Room(q) THEN n ELSE Room(q)
    IN  /\ logQueue' = q \o [k \in 1 .. kept |-> Numbered(line + k - 1)]
        /\ dropped' = dropped \cup {Numbered(line + k - 1) : k \in kept + 1 .. n}
        /\ line' = Numbered(line + n)

\* any other component on the main loop logs something
OthersLog ==
    /\ pc = "idle"
    /\ Log(logQueue, 1)
    /\ UNCHANGED <<pc, ret, commands, socket, replaced, platform, fate>>

-----------------------------------------------------------------------------
(* The server's thread and the client. *)

\* the main loop is inside writeBytes, with the socket it read before
Writing == pc \in {"sending", "disconnecting"}

\* Linux logs the new client and that it waits for the next one
Connect ==
    /\ accepting /\ (platform = "esp32" => conn # "up")
    /\ conn' = "up" /\ errorReported' = FALSE
    /\ replaced' = Writing
    /\ Log(logQueue, IF platform = "linux" THEN 2 ELSE 1)
    /\ UNCHANGED <<pc, ret, commands, accepting, platform, fate>>

\* on Linux a failing accept() takes the client away and ends the thread
AcceptFails ==
    /\ platform = "linux" /\ accepting
    /\ conn' = "none" /\ accepting' = FALSE
    /\ replaced' = Writing
    /\ UNCHANGED <<pc, ret, commands, queue, errorReported, platform, fate>>

Break ==
    /\ conn = "up"
    /\ conn' = "broken"
    /\ UNCHANGED <<pc, ret, commands, queue, accepting, errorReported, replaced, platform, fate>>

-----------------------------------------------------------------------------
(* writeBytes of the server, as sendTelemetryPacket uses it: lines is what  *)
(* the packet carries of the log, q the queue without it, next where update *)
(* goes on.                                                                 *)

WriteSucceeds(lines, q, next) ==
    /\ conn = "up"
    /\ received' = received \cup lines
    /\ logQueue' = q
    /\ pc' = next
    /\ UNCHANGED <<ret, line, dropped, socket, replaced, held, lost>>

\* no client; a broken one, which the ESP32 skips and whose socket still takes
\* data on Linux until the error comes back; or, on the ESP32, one that does not
\* read, which its write gives up after some retries
WriteIsLost(lines, q, next) ==
    /\ conn = "up" => platform = "esp32"
    /\ lost' = lost \cup lines
    /\ logQueue' = q
    /\ pc' = next
    /\ UNCHANGED <<ret, line, dropped, socket, replaced, held, received>>

\* another error than the next two: reported once, and logged
WriteFails(lines, q, next) ==
    /\ platform = "linux" /\ conn = "broken" /\ ~errorReported
    /\ errorReported' = TRUE
    /\ lost' = lost \cup lines
    /\ Log(q, 1)
    /\ pc' = next
    /\ UNCHANGED <<ret, conn, accepting, replaced, held, received>>

\* mutant of WriteFindsClientGone: a short write is taken for a lost client
WriteFindsClientGone_ShortWrite(lines, q, next) ==
    /\ platform = "linux" /\ conn # "none"
    /\ lost' = lost \cup lines
    /\ Log(q, 2)
    /\ pc' = "disconnecting" /\ ret' = next
    /\ UNCHANGED <<socket, replaced, held, received>>

\* EPIPE or ECONNRESET: logged twice, and the client will be disconnected
WriteFindsClientGone(lines, q, next) ==
    /\ platform = "linux" /\ conn = "broken"
    /\ lost' = lost \cup lines
    /\ Log(q, 2)
    /\ pc' = "disconnecting" /\ ret' = next
    /\ UNCHANGED <<socket, replaced, held, received>>

\* the client does not read and the buffers are full: send() has no timeout
WriteBlocks(lines, q, next) ==
    /\ platform = "linux" /\ conn = "up"
    /\ held' = lines
    /\ logQueue' = q
    /\ pc' = "sending" /\ ret' = next
    /\ UNCHANGED <<line, dropped, socket, replaced, received, lost>>

Write(lines, q, next) ==
    \/ WriteSucceeds(lines, q, next)
    \/ WriteIsLost(lines, q, next)
    \/ WriteFails(lines, q, next)
    \/ WriteFindsClientGone(lines, q, next)
    \/ WriteBlocks(lines, q, next)

\* the client of the blocked send reads on
SendResumes ==
    /\ pc = "sending" /\ (replaced \/ conn = "up")
    /\ received' = received \cup held /\ held' = {}
    /\ pc' = ret /\ replaced' = FALSE
    /\ UNCHANGED <<ret, commands, queue, socket, platform, lost>>

\* its connection breaks, with an error as in WriteFails
SendFails ==
    /\ pc = "sending" /\ (replaced \/ conn = "broken")
    /\ errorReported' = (errorReported \/ ~replaced)
    /\ lost' = lost \cup held /\ held' = {}
    /\ Log(logQueue, 1)
    /\ pc' = ret /\ replaced' = FALSE
    /\ UNCHANGED <<ret, commands, conn, accepting, platform, received>>

\* its connection breaks, with an error as in WriteFindsClientGone
SendFindsClientGone ==
    /\ pc = "sending" /\ (replaced \/ conn = "broken")
    /\ lost' = lost \cup held /\ held' = {}
    /\ Log(logQueue, 2)
    /\ pc' = "disconnecting"
    /\ UNCHANGED <<ret, commands, socket, replaced, platform, received>>

BlockedSendEnds == SendResumes \/ SendFails \/ SendFindsClientGone

\* mutant of DisconnectClient: the socket is not given up
DisconnectClient_Keeps ==
    /\ pc = "disconnecting"
    /\ pc' = ret /\ replaced' = FALSE
    /\ UNCHANGED <<ret, commands, queue, socket, platform, fate>>

\* whatever client there is now
DisconnectClient ==
    /\ pc = "disconnecting"
    /\ conn' = "none"
    /\ pc' = ret /\ replaced' = FALSE
    /\ UNCHANGED <<ret, commands, queue, accepting, errorReported, platform, fate>>

-----------------------------------------------------------------------------
(* update. *)

\* Linux knows of a broken connection only by a failing write
ClientConnected == conn = "up" \/ (platform = "linux" /\ conn = "broken")

BeginUpdate ==
    /\ pc = "idle" /\ ClientConnected
    /\ pc' = "reading"
    /\ UNCHANGED <<ret, commands, queue, socket, replaced, platform, fate>>

\* readBytes and parseByte: whatever the client has asked for
ReadCommands ==
    /\ pc = "reading"
    /\ \E n \in 0 .. MaxRead : commands' \in [1 .. n -> Command]
    /\ conn = "none" => commands' = << >>
    /\ pc' = "commands"
    /\ UNCHANGED <<ret, queue, socket, replaced, platform, fate>>

\* recv() returns the pending error, which is logged
ReadFails ==
    /\ pc = "reading"
    /\ platform = "linux" /\ conn = "broken" /\ ~errorReported
    /\ errorReported' = TRUE
    /\ Log(logQueue, 1)
    /\ pc' = "commands"
    /\ UNCHANGED <<ret, commands, conn, accepting, replaced, platform, fate>>

\* handleTelemetryCommand; every action logs a line
HandleTelemetryCommand ==
    /\ pc = "commands" /\ commands # << >>
    /\ Log(logQueue, 1)
    /\ pc' = IF Head(commands) = "reboot" THEN "rebooting" ELSE "commands"
    /\ commands' = Tail(commands)
    /\ UNCHANGED <<ret, socket, replaced, platform, fate>>

\* hal_delay(500) is over: hal_reboot restarts the ESP32 and is empty on Linux
Reboot ==
    /\ pc = "rebooting"
    /\ IF platform = "esp32"
       THEN /\ pc' = "idle" /\ commands' = << >>
            /\ conn' = "none" /\ errorReported' = FALSE
            /\ logQueue' = << >>
            /\ lost' = lost \cup {logQueue[k] : k \in 1 .. Len(logQueue)}
       ELSE /\ pc' = "commands"
            /\ UNCHANGED <<commands, conn, errorReported, logQueue, lost>>
    /\ UNCHANGED <<ret, accepting, line, dropped, replaced, platform, held, received>>

\* mutant of SendStatus: update returns after the status
SendStatus_Returns ==
    /\ pc = "commands" /\ commands = << >>
    /\ Write({}, logQueue, "idle")
    /\ UNCHANGED <<commands, platform>>

\* no command is left
SendStatus ==
    /\ pc = "commands" /\ commands = << >>
    /\ Write({}, logQueue, "logs")
    /\ UNCHANGED <<commands, platform>>

\* mutant of DrainLog: a line is taken off the queue and the one after it sent
DrainLog_SkipsOne ==
    /\ pc = "logs" /\ Len(logQueue) > 1
    /\ Write({logQueue[2]}, SubSeq(logQueue, 3, Len(logQueue)), "logs")
    /\ UNCHANGED <<commands, platform>>

\* mutant of DrainLog: a line that could not be sent goes back to the queue
DrainLog_Requeues ==
    /\ pc = "logs" /\ logQueue # << >>
    /\ IF conn = "up" THEN Write({Head(logQueue)}, Tail(logQueue), "logs")
       ELSE Write({}, Append(Tail(logQueue), Head(logQueue)), "idle")
    /\ UNCHANGED <<commands, platform>>

DrainLog ==
    /\ pc = "logs" /\ logQueue # << >>
    /\ Write({Head(logQueue)}, Tail(logQueue), "logs")
    /\ UNCHANGED <<commands, platform>>

\* the queue is empty; the tags are sent and update returns
SendTags ==
    /\ pc = "logs" /\ logQueue = << >>
    /\ Write({}, logQueue, "idle")
    /\ UNCHANGED <<commands, platform>>

Update ==
    \/ BeginUpdate \/ ReadCommands \/ ReadFails \/ HandleTelemetryCommand \/ Reboot
    \/ SendStatus \/ DrainLog \/ SendTags \/ DisconnectClient

Next ==
    \/ Update
    \/ BlockedSendEnds
    \/ OthersLog
    \/ Connect
    \/ AcceptFails
    \/ Break

\* the main loop runs update every 20 frames and to its end; nothing but the
\* client ends a blocked send
Spec == Init /\ [][Next]_vars /\ WF_vars(Update)

-----------------------------------------------------------------------------
Queued == {logQueue[k] : k \in 1 .. Len(logQueue)}

(* The clients, one after the other, get the lines in the order they were   *)
(* logged, also when a client broke or was replaced in between.             *)
LinesInOrder ==
    [][\A l \in received' \ received : \A m \in received : m < l]_vars

(* Every line that was logged is waiting or in a blocked send, or it was    *)
(* received, lost in a write, or turned away by the full queue, and only    *)
(* one of these.                                                            *)
EveryLineAccounted ==
    LET fates == <<Queued, held, received, lost, dropped>>
    IN  \A l \in 1 .. MaxLine :
            Cardinality({k \in 1 .. 5 : l \in fates[k]}) = IF l < line THEN 1 ELSE 0

(* disconnectClient closes a working connection only in the race with the   *)
(* server's thread: the client came while the failing write was under way.  *)
OnlyLateClientClosed == pc = "disconnecting" /\ conn = "up" => replaced

\* the client of a blocked send reads on, or its connection breaks
NoSendBlocksForever == []<>(pc # "sending")

(* update returns, although failing writes log into the queue it empties:   *)
(* the second log line of a lost client is the last one.  It needs clients  *)
(* that read or break: send() waits for them without a timeout.             *)
UpdateReturns == <>[][~Connect]_vars /\ NoSendBlocksForever => []<>(pc = "idle")

(* With a client that stays and reads, no waiting line waits for ever; it   *)
(* is lost only in a write the ESP32 gives up, or with an earlier client.   *)
LinesDelivered ==
    <>[](conn = "up") /\ NoSendBlocksForever =>
        \A l \in 1 .. MaxLine : l \in Queued ~> l \in received \cup lost
=============================================================================
