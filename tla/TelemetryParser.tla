-------------------------- MODULE TelemetryParser --------------------------
(***************************************************************************)
(* class TelemetryPacketParser of telemetry.cpp, fed by Telemetry::update  *)
(* with whatever bytes the TCP connection has ready.  The client (the      *)
(* ground control tool, external) writes packets into the connection; the  *)
(* connection may break at any byte and a new one follow it.  The parser   *)
(* lives as long as the program and is told nothing about connections.     *)
(***************************************************************************)
EXTENDS Naturals, Sequences, SequencesExt

CONSTANTS MaxByte,          \* 255
          Packets,          \* the packets [type, data] a client may send
          MaxPackets        \* bound: packets sent over all connections

Byte == 0 .. MaxByte

ASSUME ParserAssumption ==
    /\ MaxByte \in Nat \ {0}
    /\ Packets \subseteq [type : Byte, data : Seq(Byte)]
    /\ \A p \in Packets : Len(p.data) <= MaxByte
    /\ MaxPackets \in Nat

VARIABLES parseState,       \* PARSE_STATE_TYPE, _LEN or _DATA
          rxPacket,         \* the packet being put together
          parsedDataBytes,  \* how many bytes of its data have arrived
          wire,             \* bytes written by the client and not yet read
          handled,          \* packets given to handleTelemetryCommand
          sent,             \* ghost: packets whose bytes were all written and
                            \* not lost with their connection
          desync            \* ghost: a connection broke within a packet

parser == <<parseState, rxPacket, parsedDataBytes>>
vars == <<parser, wire, handled, sent, desync>>

RxPacket == [type : Byte, len : Byte, data : [1 .. MaxByte -> Byte]]

(* The index the next data byte is stored at stays inside data[255]: the    *)
(* length is one byte and is compared after every byte.                     *)
TypeOK ==
    /\ parseState \in {"type", "len", "data"}
    /\ rxPacket \in RxPacket
    /\ parsedDataBytes \in 0 .. MaxByte - 1
    /\ wire \in Seq(Byte)
    /\ desync \in BOOLEAN

Init ==
    /\ parseState = "type"
    /\ rxPacket = [type |-> 0, len |-> 0, data |-> [k \in 1 .. MaxByte |-> 0]]
    /\ parsedDataBytes = 0
    /\ wire = << >>
    /\ handled = << >>
    /\ sent = << >>
    /\ desync = FALSE

-----------------------------------------------------------------------------
(* The client. *)

\* what the client writes: type, length in one byte, data
Encode(p) == <<p.type, Len(p.data)>> \o p.data

Send(p) ==
    /\ Len(sent) < MaxPackets
    /\ wire' = wire \o Encode(p)
    /\ sent' = Append(sent, p)
    /\ UNCHANGED <<parser, handled, desync>>

\* the connection breaks: the unread bytes are lost, and with them the packets
\* that were not handled; another client connects
Reconnect ==
    /\ wire' = << >>
    /\ sent' = handled
    /\ desync' = (desync \/ parseState # "type")
    /\ UNCHANGED <<parser, handled>>

-----------------------------------------------------------------------------
(* parseByte. *)

Handle(packet) ==
    handled' = Append(handled,
        [type |-> packet.type, data |-> SubSeq(packet.data, 1, packet.len)])

ResetParseState == parseState' = "type" /\ parsedDataBytes' = 0

ReadType ==
    /\ wire # << >> /\ parseState = "type"
    /\ rxPacket' = [rxPacket EXCEPT !.type = Head(wire)]
    /\ parseState' = "len"
    /\ wire' = Tail(wire)
    /\ UNCHANGED <<parsedDataBytes, handled, sent, desync>>

\* mutant of ReadLen: a packet without data waits for a byte of data
ReadLen_NoEmptyPacket ==
    /\ wire # << >> /\ parseState = "len"
    /\ rxPacket' = [rxPacket EXCEPT !.len = Head(wire)]
    /\ parseState' = "data"
    /\ wire' = Tail(wire)
    /\ UNCHANGED <<parsedDataBytes, handled, sent, desync>>

ReadLen ==
    /\ wire # << >> /\ parseState = "len"
    /\ rxPacket' = [rxPacket EXCEPT !.len = Head(wire)]
    /\ IF Head(wire) = 0
       THEN Handle(rxPacket') /\ ResetParseState
       ELSE parseState' = "data" /\ UNCHANGED <<parsedDataBytes, handled>>
    /\ wire' = Tail(wire)
    /\ UNCHANGED <<sent, desync>>

\* mutant of ReadData: the byte counter is not reset with the state
ReadData_NoReset ==
    /\ wire # << >> /\ parseState = "data"
    /\ rxPacket' = [rxPacket EXCEPT !.data[parsedDataBytes + 1] = Head(wire)]
    /\ parsedDataBytes' = parsedDataBytes + 1
    /\ IF parsedDataBytes' >= rxPacket.len
       THEN Handle(rxPacket') /\ parseState' = "type"
       ELSE UNCHANGED <<parseState, handled>>
    /\ wire' = Tail(wire)
    /\ UNCHANGED <<sent, desync>>

ReadData ==
    /\ wire # << >> /\ parseState = "data"
    /\ rxPacket' = [rxPacket EXCEPT !.data[parsedDataBytes + 1] = Head(wire)]
    /\ IF parsedDataBytes + 1 >= rxPacket.len
       THEN Handle(rxPacket') /\ ResetParseState
       ELSE /\ parsedDataBytes' = parsedDataBytes + 1
            /\ UNCHANGED <<parseState, handled>>
    /\ wire' = Tail(wire)
    /\ UNCHANGED <<sent, desync>>

ParseByte == ReadType \/ ReadLen \/ ReadData

Next == (\E p \in Packets : Send(p)) \/ Reconnect \/ ParseByte

\* update() runs every 20 frames of the main loop and reads what is there
Spec == Init /\ [][Next]_vars /\ WF_vars(ParseByte)

-----------------------------------------------------------------------------
(* As long as no connection broke within a packet, the packets handed to    *)
(* handleTelemetryCommand are the ones the clients sent, complete and in    *)
(* order, however the bytes were cut into reads.                            *)
DeliveredInOrder == ~desync => IsPrefix(handled, sent)

(* Nothing stays behind in the parser: on a connection that holds, every    *)
(* packet written is handled.                                               *)
EverythingHandled ==
    []<>(desync \/ handled = sent)
=============================================================================
