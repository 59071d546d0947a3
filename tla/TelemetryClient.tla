-------------------------- MODULE TelemetryClient --------------------------
(***************************************************************************)
(* The other end of the telemetry connection: class TelemetryServer of the *)
(* ground control tool (tools/telemetry_server.py).  One thread runs       *)
(* start(), which connects, reads the companion's packets and sends the    *)
(* pending commands after each of them; the web server's threads put       *)
(* commands in and take packets out.                                       *)
(*                                                                         *)
(* The companion's stream is cut into cells: a header is the two cells     *)
(* <<Magic, length>> (magic number and type; length of the payload), a     *)
(* payload any cells, magic-looking ones included.                         *)
(***************************************************************************)
EXTENDS Naturals, Sequences, FiniteSetsExt

CONSTANTS Magic,            \* the magic number, with a type the tool knows
          Payloads,         \* what the companion sends
          Garbled,          \* those of them that do not parse: log texts not in ASCII
          BufferSize,       \* len(payload_buf) (1024)
          QueueSize,        \* maxsize of the receiving queue (500)
          MaxTimeouts,      \* timeouts in a row that are put up with (3)
          MaxDown,          \* bound: cells on their way to the tool
          MaxCommands       \* bound: commands waiting

Cell == 0 .. BufferSize + 1 \cup {Magic}    \* one length is too long for the buffer

ASSUME ClientAssumption ==
    /\ BufferSize \in Nat \ {0} /\ Magic \notin Nat
    /\ Payloads \subseteq Seq(Cell) /\ \A p \in Payloads : Len(p) <= BufferSize
    /\ Garbled \subseteq Payloads
    /\ QueueSize \in Nat /\ MaxTimeouts \in Nat
    /\ MaxDown \in Nat /\ MaxCommands \in Nat

HeaderSize == 2

VARIABLES down,             \* cells written by the companion and not yet received
          connected,        \* the connection holds
          rd,               \* where start() is
          buf,              \* header_buf and payload_buf
          got,              \* bytes_read of _read
          need,             \* header.len
          timeouts,         \* timeouts_in_row
          tx,               \* how many commands wait in _tx
          queue,            \* how many packets wait in _queue
          inflight,         \* ghost: packets the companion sent and the tool has not read
          cut               \* ghost: on this connection a _read was not served by
                            \* one recv, or given up

reader == <<rd, buf, got, need, timeouts>>
ghosts == <<inflight, cut>>
vars == <<down, connected, reader, tx, queue, ghosts>>

TypeOK ==
    /\ down \in Seq(Cell)
    /\ connected \in BOOLEAN
    /\ rd \in {"header", "payload", "tx", "closed", "dead"}
    /\ buf \in [header : Seq(Cell), payload : Seq(Cell)]
    /\ Len(buf.header) = HeaderSize /\ Len(buf.payload) = BufferSize
    /\ need \in 0 .. BufferSize + 1 \cup {HeaderSize} /\ got \in 0 .. need
    /\ timeouts \in 0 .. MaxTimeouts + 1
    /\ tx \in Nat /\ queue \in 0 .. QueueSize
    /\ inflight \in Seq(Payloads) /\ cut \in BOOLEAN

Zeroed == [header |-> [k \in 1 .. HeaderSize |-> 0], payload |-> [k \in 1 .. BufferSize |-> 0]]

Init ==
    /\ down = << >> /\ connected = TRUE
    /\ rd = "header" /\ buf = Zeroed /\ got = 0 /\ need = HeaderSize /\ timeouts = 0
    /\ tx = 0 /\ queue = 0
    /\ inflight = << >> /\ cut = FALSE

-----------------------------------------------------------------------------
(* The companion and the network. *)

\* Telemetry::sendTelemetryPacket: header and payload in one write
SendTelemetryPacket(p) ==
    /\ connected
    /\ Len(down) + HeaderSize + Len(p) <= MaxDown
    /\ down' = down \o <<Magic, Len(p)>> \o p
    /\ inflight' = IF cut THEN inflight ELSE Append(inflight, p)
    /\ UNCHANGED <<connected, reader, tx, queue, cut>>

Break ==
    /\ connected
    /\ connected' = FALSE
    /\ UNCHANGED <<down, reader, tx, queue, ghosts>>

-----------------------------------------------------------------------------
(* The rest of the tool. *)

\* send_packet, from the web server's threads
SendPacket ==
    /\ tx < MaxCommands
    /\ tx' = tx + 1
    /\ UNCHANGED <<down, connected, reader, queue, ghosts>>

\* the page polls get_all_packets_no_block
GetAllPackets ==
    /\ queue > 0
    /\ queue' = 0
    /\ UNCHANGED <<down, connected, reader, tx, ghosts>>

-----------------------------------------------------------------------------
(* start(). *)

Reading == rd \in {"header", "payload"} /\ got < need

\* recv_into always stores at the start of its buffer
Stored(cells, k) == [j \in DOMAIN cells |-> IF j <= k THEN down[j] ELSE cells[j]]

\* one recv of _read: it returns what is there, up to what is still missing
Recv ==
    /\ Reading
    /\ need <= Len(buf[rd])
    /\ \E k \in 1 .. Min({Len(down), need - got}) :
          /\ buf' = [buf EXCEPT ![rd] = Stored(@, k)]
          /\ got' = got + k
          /\ down' = SubSeq(down, k + 1, Len(down))
          /\ cut' = (cut \/ k < need)
    /\ inflight' = IF cut' THEN << >> ELSE inflight
    /\ UNCHANGED <<connected, rd, need, timeouts, tx, queue>>

\* the loop starts over with the next header
NextHeader == rd' = "header" /\ got' = 0 /\ need' = HeaderSize

\* recv_into refuses to read more than the buffer holds: the exception is
\* printed and the loop goes on
TooLong ==
    /\ Reading
    /\ need > Len(buf[rd])
    /\ NextHeader
    /\ UNCHANGED <<down, connected, buf, timeouts, tx, queue, ghosts>>

\* no byte for a second: what was read of the packet so far is forgotten
TimeoutError ==
    /\ Reading
    /\ down = << >>
    /\ timeouts' = timeouts + 1
    /\ IF timeouts' > MaxTimeouts
       THEN rd' = "closed" /\ UNCHANGED <<got, need>>
       ELSE NextHeader
    /\ cut' = (cut \/ got > 0 \/ rd = "payload")
    /\ inflight' = IF cut' THEN << >> ELSE inflight
    /\ UNCHANGED <<down, connected, buf, tx, queue>>

\* two seconds were not enough, or recv returned 0 until they were over
ReadTimesOut ==
    /\ Reading
    /\ got > 0 \/ (~connected /\ down = << >>)
    /\ rd' = "closed"
    /\ UNCHANGED <<down, connected, buf, got, need, timeouts, tx, queue, ghosts>>

ConnectionReset ==
    /\ rd \in {"header", "payload"}
    /\ ~connected
    /\ rd' = "closed"
    /\ UNCHANGED <<down, connected, buf, got, need, timeouts, tx, queue, ghosts>>

\* mutant of ParseHeader: the length is taken to include the header
ParseHeader_WholeLength ==
    /\ rd = "header" /\ got = need
    /\ IF buf.header[1] = Magic /\ buf.header[2] # Magic
       THEN /\ rd' = "payload" /\ got' = 0
            /\ need' = IF buf.header[2] > HeaderSize THEN buf.header[2] - HeaderSize ELSE 0
       ELSE NextHeader
    /\ UNCHANGED <<down, connected, buf, timeouts, tx, queue, ghosts>>

\* a header that is none is skipped
ParseHeader ==
    /\ rd = "header" /\ got = need
    /\ IF buf.header[1] = Magic /\ buf.header[2] # Magic
       THEN rd' = "payload" /\ got' = 0 /\ need' = buf.header[2]
       ELSE NextHeader
    /\ UNCHANGED <<down, connected, buf, timeouts, tx, queue, ghosts>>

\* a packet was read whole; out of step it is anything, and may parse or not
PayloadRead == rd = "payload" /\ got = need

\* the oldest packet, now read, leaves the ghost
TakeInFlight == inflight' = IF cut THEN inflight ELSE Tail(inflight)

\* what is not a payload of its header's type, or no text, does not parse; the
\* loop goes on with the next header and sends no command
Unparsable ==
    /\ PayloadRead
    /\ cut \/ SubSeq(buf.payload, 1, need) \in Garbled
    /\ NextHeader
    /\ TakeInFlight
    /\ UNCHANGED <<down, connected, buf, timeouts, tx, queue, cut>>

\* mutant of HandlePacket: the queue takes every packet
HandlePacket_NoBound ==
    /\ PayloadRead
    /\ cut \/ SubSeq(buf.payload, 1, need) \notin Garbled
    /\ timeouts' = 0
    /\ queue' = queue + 1
    /\ rd' = "tx"
    /\ TakeInFlight
    /\ UNCHANGED <<down, connected, buf, got, need, tx, cut>>

\* the packet goes to the subscribers and into the queue, or is discarded
HandlePacket ==
    /\ PayloadRead
    /\ cut \/ SubSeq(buf.payload, 1, need) \notin Garbled
    /\ timeouts' = 0
    /\ queue' = Min({queue + 1, QueueSize})
    /\ rd' = "tx"
    /\ TakeInFlight
    /\ UNCHANGED <<down, connected, buf, got, need, tx, cut>>

\* mutant of SendPending: the loop over the commands is left out
SendPending_Skipped ==
    /\ rd = "tx"
    /\ NextHeader
    /\ UNCHANGED <<down, connected, buf, timeouts, tx, queue, ghosts>>

\* at last the pending commands are sent; on a dead connection they are lost
SendPending ==
    /\ rd = "tx"
    /\ IF tx = 0
       THEN NextHeader /\ UNCHANGED tx
       ELSE tx' = tx - 1 /\ UNCHANGED <<rd, got, need>>
    /\ UNCHANGED <<down, connected, buf, timeouts, queue, ghosts>>

\* mutant of Connect: the dead socket is used again
Connect_KeepsSocket ==
    /\ rd = "closed"
    /\ down' = << >>
    /\ NextHeader /\ buf' = Zeroed /\ timeouts' = 0
    /\ inflight' = << >> /\ cut' = FALSE
    /\ UNCHANGED <<connected, tx, queue>>

\* the next round of the outer loop, once connect() succeeds
Connect ==
    /\ rd = "closed"
    /\ down' = << >> /\ connected' = TRUE
    /\ NextHeader /\ buf' = Zeroed /\ timeouts' = 0
    /\ inflight' = << >> /\ cut' = FALSE
    /\ UNCHANGED <<tx, queue>>

\* any error of socket() or connect() but a refusal and a timeout is caught by
\* nobody and ends the thread, which is not started again
ConnectFails ==
    /\ rd = "closed"
    /\ rd' = "dead"
    /\ down' = << >> /\ connected' = FALSE
    /\ UNCHANGED <<buf, got, need, timeouts, tx, queue, ghosts>>

Start ==
    \/ Recv \/ TooLong \/ TimeoutError \/ ReadTimesOut \/ ConnectionReset
    \/ ParseHeader \/ Unparsable \/ HandlePacket \/ SendPending \/ Connect

Next ==
    \/ \E p \in Payloads : SendTelemetryPacket(p)
    \/ Break
    \/ SendPacket
    \/ GetAllPackets
    \/ Start
    \/ ConnectFails

\* the reading thread never rests, and connects in the end unless it died; the
\* main loop of the companion reports every 20 frames, and each report sends a
\* status, which always parses, however many log lines were sent before it
Fairness ==
    /\ WF_vars(Start)
    /\ SF_vars(\E p \in Payloads \ Garbled : SendTelemetryPacket(p))

Spec == Init /\ [][Next]_vars /\ Fairness

-----------------------------------------------------------------------------
(* As long as every _read was served by one recv, the tool shows the        *)
(* packets the companion sent, in order, also on the connections that       *)
(* follow a broken one.  (A _read that needs two overwrites its first part  *)
(* with the second.)                                                        *)
PacketsShownAsSent ==
    [][HandlePacket /\ ~cut =>
          inflight # << >> /\ SubSeq(buf.payload, 1, need) = Head(inflight)]_vars

(* A connection that broke is given up and replaced, wherever the reader    *)
(* was in a packet, unless connecting failed for a reason start() does not  *)
(* catch (the thread is dead then), or commands come in faster than they    *)
(* are sent: the loop that sends them does not look at the connection.      *)
BrokenConnectionReplaced ==
    [](rd # "dead") /\ <>[][~SendPacket]_vars => []<>connected

(* Commands are only sent after a packet was received that parses; on a     *)
(* connection that holds and is read in step, all of them are.              *)
CommandsSent ==
    <>[](connected /\ rd \notin {"closed", "dead"}) => []<>(tx = 0 \/ cut)
=============================================================================
