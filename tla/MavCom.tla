------------------------------- MODULE MavCom -------------------------------
(***************************************************************************)
(* class MavCom of mavcom.cpp between its two peers: the autopilot (AP) on *)
(* a serial or TCP link, and the ground control client, which is known     *)
(* only through the telemetry server's connection.  update_1hz and         *)
(* update_100hz run on the main loop, one after the other; the connection  *)
(* is changed by the telemetry server's own thread, or by the client, at   *)
(* any moment, also between the check and the use in activateProxyIfNeeded.*)
(*                                                                         *)
(* The link to and from the AP loses messages and is modelled as the set   *)
(* of messages on their way; the AP (external) streams what it was asked   *)
(* to stream and forgets that when it restarts.  The heartbeat of          *)
(* update_1hz changes nothing here and is left out, as are the fields that *)
(* handleMessage copies into the global ap.                                *)
(***************************************************************************)
EXTENDS Naturals, Sequences

CONSTANTS Streams,          \* the messages setupMessageStreaming asks for
          SysStatus,        \* MAVLINK_MSG_ID_SYS_STATUS, one of them
          RebootAp,         \* MAV_CMD_PREFLIGHT_REBOOT_SHUTDOWN
          PreArm,           \* MAV_CMD_RUN_PREARM_CHECKS
          Stale,            \* 1000 ms, in ticks
          QueueSize,        \* apTxQueue: 10 in the program
          Clients,          \* addresses a client can connect from
          NoClient          \* no connection, no address

Commands == {RebootAp, PreArm}

ASSUME MavComAssumption ==
    /\ SysStatus \in Streams
    /\ Streams \cap Commands = {}
    /\ Stale \in Nat
    /\ QueueSize \in Nat \ {0}
    /\ NoClient \notin Clients

VARIABLES
    sysAge,                 \* hal_millis() - lastSysStatus, up to Stale + 1
    apTxQueue,              \* commands waiting for update_100hz
    proxyIsActive, proxyIP, \* the MAVLink proxy to the client
    handler,                \* the update function being run, or "none"
    activating,             \* it has seen a client and is about to use it
    toAp, fromAp,           \* messages on the link
    streaming,              \* AP: the messages it streams
    fromGcs,                \* commands the client sent through the proxy
    client                  \* telemetry server: the connected client

proxy == <<proxyIsActive, proxyIP>>
link == <<toAp, fromAp, streaming>>
vars == <<sysAge, apTxQueue, proxy, handler, activating, link, fromGcs, client>>

TypeOK ==
    /\ sysAge \in 0 .. Stale + 1
    /\ apTxQueue \in Seq(Commands) /\ Len(apTxQueue) <= QueueSize
    /\ proxyIsActive \in BOOLEAN
    /\ proxyIP \in Clients \cup {NoClient}
    /\ handler \in {"none", "1hz", "100hz"}
    /\ activating \in BOOLEAN
    /\ toAp \subseteq Streams \cup Commands
    /\ fromAp \subseteq Streams
    /\ streaming \subseteq Streams
    /\ fromGcs \subseteq Commands
    /\ client \in Clients \cup {NoClient}

\* one request per stream is added to the messages under way
SetupMessageStreaming(messages) == messages \cup Streams

\* of the handlers only the one for SYS_STATUS changes what is modelled
HandleMessages(messages) == IF SysStatus \in messages THEN 0 ELSE sysAge

\* lastSysStatus is zeroed, and so is hal_millis(); init() has asked for the
\* streams once
Init ==
    /\ sysAge = 0
    /\ apTxQueue = << >>
    /\ proxyIsActive = FALSE /\ proxyIP = NoClient
    /\ handler = "none" /\ activating = FALSE
    /\ toAp = SetupMessageStreaming({}) /\ fromAp = {} /\ streaming = {}
    /\ fromGcs = {}
    /\ client = NoClient

-----------------------------------------------------------------------------
(* The main loop. *)

\* the call of update_1hz or update_100hz: activateProxyIfNeeded looks first
Call(h) ==
    /\ handler = "none"
    /\ handler' = h
    /\ activating' = (~proxyIsActive /\ client # NoClient)
    /\ UNCHANGED <<sysAge, apTxQueue, proxy, link, fromGcs, client>>

\* ... and getTelemetryClientIp looks again: the client may be another one,
\* or none, and then the proxy is set up without an address, for good.  On
\* Linux the UDP transport ignores the address and sends to its own host.
ActivateProxy ==
    /\ activating
    /\ proxyIsActive' = TRUE
    /\ proxyIP' = client
    /\ activating' = FALSE
    /\ UNCHANGED <<sysAge, apTxQueue, handler, link, fromGcs, client>>

\* mutant of Update1Hz: the streams are asked for by init() only
Update1Hz_NoRetry ==
    /\ handler = "1hz" /\ ~activating
    /\ handler' = "none"
    /\ UNCHANGED <<sysAge, apTxQueue, proxy, activating, link, fromGcs, client>>

Update1Hz ==
    /\ handler = "1hz" /\ ~activating
    /\ toAp' = IF sysAge > Stale THEN SetupMessageStreaming(toAp) ELSE toAp
    /\ handler' = "none"
    /\ UNCHANGED <<sysAge, apTxQueue, proxy, activating, fromAp, streaming, fromGcs, client>>


\* the AP's messages are handled, the client's forwarded to the AP, and the
\* queue is emptied
Update100Hz ==
    /\ handler = "100hz" /\ ~activating
    /\ sysAge' = HandleMessages(fromAp)
    /\ fromAp' = {}
    /\ toAp' = toAp \cup fromGcs \cup {apTxQueue[k] : k \in 1 .. Len(apTxQueue)}
    /\ fromGcs' = {}
    /\ apTxQueue' = << >>
    /\ handler' = "none"
    /\ UNCHANGED <<proxy, activating, streaming, client>>

\* mutant of SendCommandInt: the queue has no bound
SendCommandInt_NoBound(command) ==
    /\ handler = "none"
    /\ apTxQueue' = Append(apTxQueue, command)
    /\ UNCHANGED <<sysAge, proxy, handler, activating, link, fromGcs, client>>

\* called by Telemetry between two updates; a full queue drops the command
SendCommandInt(command) ==
    /\ handler = "none"
    /\ apTxQueue' = IF Len(apTxQueue) < QueueSize THEN Append(apTxQueue, command)
                    ELSE apTxQueue
    /\ UNCHANGED <<sysAge, proxy, handler, activating, link, fromGcs, client>>

Tick ==
    /\ sysAge' = IF sysAge > Stale THEN sysAge ELSE sysAge + 1
    /\ UNCHANGED <<apTxQueue, proxy, handler, activating, link, fromGcs, client>>

-----------------------------------------------------------------------------
(* The AP and the link to it. *)

ApRestart ==
    /\ streaming' = {}
    /\ UNCHANGED <<sysAge, apTxQueue, proxy, handler, activating, toAp, fromAp, fromGcs, client>>

ApReceives(m) ==
    /\ m \in toAp
    /\ toAp' = toAp \ {m}
    /\ streaming' = CASE m \in Streams -> streaming \cup {m}
                      [] m = RebootAp  -> {}
                      [] m = PreArm    -> streaming
    /\ UNCHANGED <<sysAge, apTxQueue, proxy, handler, activating, fromAp, fromGcs, client>>

ApSends ==
    /\ fromAp' = fromAp \cup streaming
    /\ UNCHANGED <<sysAge, apTxQueue, proxy, handler, activating, toAp, streaming, fromGcs, client>>

LinkLoses(m) ==
    /\ m \in toAp \cup fromAp
    /\ toAp' = toAp \ {m}
    /\ fromAp' = fromAp \ {m}
    /\ UNCHANGED <<sysAge, apTxQueue, proxy, handler, activating, streaming, fromGcs, client>>

-----------------------------------------------------------------------------
(* The client: through the proxy, and as the server's thread sees it. *)

GcsSends(command) ==
    /\ proxyIsActive
    /\ fromGcs' = fromGcs \cup {command}
    /\ UNCHANGED <<sysAge, apTxQueue, proxy, handler, activating, link, client>>

ClientConnects(c) ==
    /\ client # c
    /\ client' = c
    /\ UNCHANGED <<sysAge, apTxQueue, proxy, handler, activating, link, fromGcs>>

ClientLeaves ==
    /\ client # NoClient
    /\ client' = NoClient
    /\ UNCHANGED <<sysAge, apTxQueue, proxy, handler, activating, link, fromGcs>>

-----------------------------------------------------------------------------
MainLoop ==
    \/ \E h \in {"1hz", "100hz"} : Call(h)
    \/ ActivateProxy
    \/ Update1Hz
    \/ Update100Hz

Next ==
    \/ MainLoop
    \/ \E command \in Commands : SendCommandInt(command) \/ GcsSends(command)
    \/ Tick
    \/ ApRestart
    \/ ApSends
    \/ \E m \in Streams \cup Commands : ApReceives(m) \/ LinkLoses(m)
    \/ \E c \in Clients : ClientConnects(c)
    \/ ClientLeaves

(* The main loop calls both functions again and again and finishes them;    *)
(* time passes.  The link to the AP is lossy, not dead: what is sent again  *)
(* and again arrives.  Nothing obliges the AP to send.                      *)
Fairness ==
    /\ SF_vars(Call("1hz")) /\ SF_vars(Call("100hz"))
    /\ WF_vars(ActivateProxy) /\ WF_vars(Update1Hz) /\ WF_vars(Update100Hz)
    /\ WF_vars(Tick)
    /\ \A m \in Streams : SF_vars(ApReceives(m))

Spec == Init /\ [][Next]_vars /\ Fairness

-----------------------------------------------------------------------------
\* from some point on the AP does not lose its settings
ApStaysUp == <>[][streaming \subseteq streaming']_vars

(* An AP that restarted, on its own or by the client's command, is asked    *)
(* for SYS_STATUS again until it streams it: silence is noticed (sysAge)    *)
(* and the request is repeated however many requests were lost.             *)
SysStatusRestored == ApStaysUp => <>[](SysStatus \in streaming)


(* mavcom.cpp:174: "Let's configure AP to stream the messages that we       *)
(* want": all of them are streamed in the end.                              *)
AllStreamsRestored == ApStaysUp => <>[](streaming = Streams)
=============================================================================
