--------------------------- MODULE MavCom_proofs ---------------------------
(* Type correctness of MavCom for every set of clients, streams and commands. *)
EXTENDS MavCom, TLAPS

BooleansOK == proxyIsActive \in BOOLEAN /\ activating \in BOOLEAN

LEMMA BooleansStep ==
    ASSUME BooleansOK, [Next]_vars
    PROVE  BooleansOK'
<1>1. ASSUME NEW h, Call(h) PROVE BooleansOK'
  <2>1. activating' = (~proxyIsActive /\ client # NoClient) /\ proxyIsActive' = proxyIsActive
    BY <1>1 DEF Call, proxy
  <2> QED
    BY <2>1, Zenon DEF BooleansOK
<1>2. CASE ActivateProxy
  BY <1>2 DEF ActivateProxy, BooleansOK
<1>3. ASSUME ~ActivateProxy, ~ \E h \in {"1hz", "100hz"} : Call(h) PROVE UNCHANGED <<proxyIsActive, activating>>
  BY <1>3 DEF Next, MainLoop, Update1Hz, Update100Hz, SendCommandInt, GcsSends, Tick, ApRestart, ApSends,
              ApReceives, LinkLoses, ClientConnects, ClientLeaves, vars, proxy
<1> QED
  BY <1>1, <1>2, <1>3 DEF BooleansOK

QueueOK == apTxQueue \in Seq(Commands) /\ Len(apTxQueue) <= QueueSize

LinkOK ==
    /\ toAp \subseteq Streams \cup Commands
    /\ fromAp \subseteq Streams
    /\ streaming \subseteq Streams
    /\ fromGcs \subseteq Commands

RestOK ==
    /\ sysAge \in 0 .. Stale + 1
    /\ proxyIP \in Clients \cup {NoClient}
    /\ handler \in {"none", "1hz", "100hz"}
    /\ client \in Clients \cup {NoClient}

DataOK == QueueOK /\ LinkOK /\ RestOK

LEMMA DataInit == Init => DataOK
BY MavComAssumption
   DEF Init, DataOK, QueueOK, LinkOK, RestOK, SetupMessageStreaming

(* A command is queued only if the queue has room for it.                   *)
LEMMA SendCommandStep ==
    ASSUME QueueOK, NEW command \in Commands, SendCommandInt(command)
    PROVE  QueueOK'
<1>1. CASE Len(apTxQueue) < QueueSize
  <2>1. apTxQueue' = Append(apTxQueue, command)
    BY <1>1 DEF SendCommandInt
  <2>2. /\ Append(apTxQueue, command) \in Seq(Commands)
        /\ Len(Append(apTxQueue, command)) = Len(apTxQueue) + 1
        /\ Len(apTxQueue) \in Nat
    BY DEF QueueOK
  <2> QED
    BY <1>1, <2>1, <2>2, MavComAssumption DEF QueueOK
<1>2. CASE ~(Len(apTxQueue) < QueueSize)
  BY <1>2 DEF SendCommandInt, QueueOK
<1> QED
  BY <1>1, <1>2

LEMMA DataStep ==
    ASSUME DataOK, [Next]_vars
    PROVE  DataOK'
<1> USE MavComAssumption DEF DataOK
<1>1. ASSUME NEW h \in {"1hz", "100hz"}, Call(h) PROVE DataOK'
  BY <1>1 DEF Call, QueueOK, LinkOK, RestOK, proxy, link
<1>2. CASE ActivateProxy
  BY <1>2 DEF ActivateProxy, QueueOK, LinkOK, RestOK, link
<1>3. CASE Update1Hz
  BY <1>3 DEF Update1Hz, QueueOK, LinkOK, RestOK, proxy, SetupMessageStreaming
<1>4. CASE Update100Hz
  <2>1. {apTxQueue[k] : k \in 1 .. Len(apTxQueue)} \subseteq Commands
    BY DEF QueueOK
  <2>2. LinkOK'
    BY <1>4, <2>1 DEF Update100Hz, LinkOK
  <2>3. QueueOK'
    BY <1>4 DEF Update100Hz, QueueOK
  <2>4. RestOK'
    BY <1>4 DEF Update100Hz, RestOK, HandleMessages, proxy
  <2> QED
    BY <2>2, <2>3, <2>4
<1>5. ASSUME NEW command \in Commands, SendCommandInt(command) PROVE DataOK'
  <2>1. QueueOK'
    BY <1>5, SendCommandStep
  <2> QED
    BY <1>5, <2>1 DEF SendCommandInt, LinkOK, RestOK, proxy, link
<1>6. ASSUME NEW command \in Commands, GcsSends(command) PROVE DataOK'
  BY <1>6 DEF GcsSends, QueueOK, LinkOK, RestOK, proxy, link
<1>7. CASE Tick
  BY <1>7 DEF Tick, QueueOK, LinkOK, RestOK, proxy, link
<1>8. CASE ApRestart \/ ApSends
  BY <1>8 DEF ApRestart, ApSends, QueueOK, LinkOK, RestOK, proxy
<1>9. ASSUME NEW m \in Streams \cup Commands, ApReceives(m) PROVE DataOK'
  <2>1. streaming' \subseteq Streams
    BY <1>9 DEF ApReceives, LinkOK, Commands
  <2> QED
    BY <1>9, <2>1 DEF ApReceives, QueueOK, LinkOK, RestOK, proxy
<1>10. ASSUME NEW m \in Streams \cup Commands, LinkLoses(m) PROVE DataOK'
  BY <1>10 DEF LinkLoses, QueueOK, LinkOK, RestOK, proxy
<1>11. CASE (\E c \in Clients : ClientConnects(c)) \/ ClientLeaves
  BY <1>11 DEF ClientConnects, ClientLeaves, QueueOK, LinkOK, RestOK, proxy, link
<1>12. CASE UNCHANGED vars
  BY <1>12 DEF vars, QueueOK, LinkOK, RestOK, proxy, link
<1> QED
  BY <1>1, <1>2, <1>3, <1>4, <1>5, <1>6, <1>7, <1>8, <1>9, <1>10, <1>11, <1>12
     DEF Next, MainLoop

(* MavCom is type correct: its command queue never grows past its size and  *)
(* only what was asked for is streamed.                                     *)
THEOREM MavComTypeCorrect == Spec => []TypeOK
<1>1. BooleansOK /\ DataOK => TypeOK
  BY Zenon DEF BooleansOK, DataOK, QueueOK, LinkOK, RestOK, TypeOK
<1>2. Init => BooleansOK
  BY DEF Init, BooleansOK
<1> QED
  BY DataInit, DataStep, BooleansStep, <1>1, <1>2, PTL DEF Spec
=============================================================================
