----------------------- MODULE TelemetryClient_proofs -----------------------
(***************************************************************************)
(* The ground control tool's reader for every set of payloads, sizes of    *)
(* its buffer and queue, number of timeouts, and every way the connection  *)
(* delivers, breaks and is replaced.                                       *)
(***************************************************************************)
EXTENDS TelemetryClient, SequenceTheorems, TLAPS

LEMMA Smaller ==
    ASSUME NEW x \in Nat, NEW y \in Nat
    PROVE  /\ Min({x, y}) \in {x, y}
           /\ Min({x, y}) <= x /\ Min({x, y}) <= y
<1>1. \E z \in {x, y} : \A v \in {x, y} : z <= v
  OBVIOUS
<1> QED
  BY <1>1 DEF Min

LEMMA Constants ==
    /\ BufferSize \in Nat /\ BufferSize >= 1 /\ QueueSize \in Nat /\ MaxTimeouts \in Nat
    /\ MaxDown \in Nat /\ MaxCommands \in Nat
    /\ Magic \notin Nat /\ Magic \in Cell /\ 0 \in Cell
    /\ \A x \in Cell : x # Magic => x \in 0 .. BufferSize + 1
    /\ \A p \in Payloads : /\ p \in Seq(Cell) /\ Len(p) \in Nat /\ Len(p) <= BufferSize
                           /\ Len(p) \in Cell /\ Len(p) # Magic
<1>1. /\ BufferSize \in Nat /\ BufferSize >= 1 /\ QueueSize \in Nat /\ MaxTimeouts \in Nat
      /\ MaxDown \in Nat /\ MaxCommands \in Nat
      /\ Magic \notin Nat
      /\ \A p \in Payloads : p \in Seq(Cell) /\ Len(p) <= BufferSize
  BY ClientAssumption DEF ClientAssumption
<1>2. \A p \in Payloads : Len(p) \in Nat
  BY <1>1, LenProperties
<1>3. /\ Magic \in Cell /\ 0 \in Cell /\ \A x \in Cell : x # Magic => x \in 0 .. BufferSize + 1
      /\ \A x \in Nat : x <= BufferSize => x \in Cell
  BY <1>1 DEF Cell
<1> QED
  BY <1>1, <1>2, <1>3

-----------------------------------------------------------------------------
(* Type correctness. *)

\* what the place in start() says of the length and of the timeouts
ReaderPlace ==
    /\ rd = "header" => need = HeaderSize
    /\ rd \notin {"closed", "dead"} => timeouts <= MaxTimeouts

TypeInv == TypeOK /\ ReaderPlace

\* a packet that was read was sent: what the framing below establishes
PacketInFlight == rd = "payload" /\ got = need /\ ~cut => inflight # << >>

\* one recv leaves a buffer of its size
LEMMA StoredProperties ==
    ASSUME NEW cells \in Seq(Cell), down \in Seq(Cell), NEW k \in 1 .. Len(down)
    PROVE  /\ Stored(cells, k) \in Seq(Cell) /\ Len(Stored(cells, k)) = Len(cells)
           /\ \A j \in 1 .. Len(cells) : Stored(cells, k)[j] = IF j <= k THEN down[j] ELSE cells[j]
<1>1. Len(cells) \in Nat /\ DOMAIN cells = 1 .. Len(cells) /\ Len(down) \in Nat
  BY LenProperties
<1>2. \A j \in 1 .. Len(cells) : (IF j <= k THEN down[j] ELSE cells[j]) \in Cell
  <2> SUFFICES ASSUME NEW j \in 1 .. Len(cells) PROVE (IF j <= k THEN down[j] ELSE cells[j]) \in Cell
    OBVIOUS
  <2>1. cells[j] \in Cell
    BY ElementOfSeq
  <2>2. j <= k => j \in 1 .. Len(down)
    BY <1>1
  <2> QED
    BY <2>1, <2>2, ElementOfSeq
<1>3. Stored(cells, k) \in [1 .. Len(cells) -> Cell]
  BY <1>1, <1>2 DEF Stored
<1>4. Stored(cells, k) \in Seq(Cell) /\ Len(Stored(cells, k)) = Len(cells)
  BY <1>1, <1>3, SeqDef, LenProperties
<1> QED
  BY <1>1, <1>4 DEF Stored

LEMMA ZeroedProperties ==
    /\ Zeroed \in [header : Seq(Cell), payload : Seq(Cell)]
    /\ Len(Zeroed.header) = HeaderSize /\ Len(Zeroed.payload) = BufferSize
<1>1. \A n \in Nat : [k \in 1 .. n |-> 0] \in Seq(Cell) /\ Len([k \in 1 .. n |-> 0]) = n
  <2> SUFFICES ASSUME NEW n \in Nat
               PROVE  [k \in 1 .. n |-> 0] \in Seq(Cell) /\ Len([k \in 1 .. n |-> 0]) = n
    OBVIOUS
  <2>1. [k \in 1 .. n |-> 0] \in [1 .. n -> Cell]
    BY Constants
  <2> QED
    BY <2>1, SeqDef, LenProperties
<1> QED
  BY <1>1, Constants DEF Zeroed, HeaderSize

LEMMA TypeInvInit == Init => TypeInv
<1> SUFFICES ASSUME Init PROVE TypeInv
  OBVIOUS
<1>1. << >> \in Seq(Cell) /\ << >> \in Seq(Payloads)
  BY EmptySeq
<1>2. /\ Zeroed \in [header : Seq(Cell), payload : Seq(Cell)]
      /\ Len(Zeroed.header) = HeaderSize /\ Len(Zeroed.payload) = BufferSize
  BY ZeroedProperties
<1>3. /\ need \in 0 .. BufferSize + 1 \cup {HeaderSize} /\ got \in 0 .. need
      /\ timeouts \in 0 .. MaxTimeouts + 1 /\ tx \in Nat /\ queue \in 0 .. QueueSize /\ ReaderPlace
  BY Constants DEF Init, HeaderSize, ReaderPlace
<1> QED
  BY <1>1, <1>2, <1>3 DEF Init, TypeInv, TypeOK

LEMMA TypeInvStep == TypeInv /\ PacketInFlight /\ [Next]_vars => TypeInv'
<1> SUFFICES ASSUME TypeInv, PacketInFlight, [Next]_vars PROVE TypeInv'
  OBVIOUS
<1> DEFINE Lengths == 0 .. BufferSize + 1 \cup {HeaderSize}
<1>0. /\ down \in Seq(Cell) /\ Len(down) \in Nat /\ connected \in BOOLEAN
      /\ rd \in {"header", "payload", "tx", "closed", "dead"}
      /\ buf \in [header : Seq(Cell), payload : Seq(Cell)]
      /\ buf.header \in Seq(Cell) /\ buf.payload \in Seq(Cell)
      /\ Len(buf.header) = HeaderSize /\ Len(buf.payload) = BufferSize
      /\ need \in Lengths /\ need \in Nat /\ got \in 0 .. need
      /\ timeouts \in 0 .. MaxTimeouts + 1
      /\ tx \in Nat /\ queue \in 0 .. QueueSize
      /\ inflight \in Seq(Payloads) /\ cut \in BOOLEAN
      /\ rd = "header" => need = HeaderSize
      /\ rd \notin {"closed", "dead"} => timeouts <= MaxTimeouts
  BY LenProperties, Constants DEF TypeInv, TypeOK, ReaderPlace, HeaderSize
<1>1. << >> \in Seq(Cell) /\ << >> \in Seq(Payloads) /\ HeaderSize \in Lengths /\ 0 \in 0 .. HeaderSize
  BY EmptySeq DEF HeaderSize
<1> HIDE DEF Lengths
<1>2. ASSUME NEW p \in Payloads, SendTelemetryPacket(p) PROVE TypeInv'
  <2>1. <<Magic, Len(p)>> \in Seq(Cell) /\ p \in Seq(Cell)
    BY Constants
  <2>2. down' \in Seq(Cell)
    BY <1>0, <1>2, <2>1, ConcatProperties DEF SendTelemetryPacket
  <2>3. inflight' \in Seq(Payloads)
    BY <1>0, <1>2, AppendProperties DEF SendTelemetryPacket
  <2> QED
    BY <1>0, <1>2, <2>2, <2>3 DEF SendTelemetryPacket, TypeInv, TypeOK, ReaderPlace, reader, Lengths
<1>3. CASE Break \/ UNCHANGED vars
  <2>1. UNCHANGED <<down, reader, tx, queue, ghosts>> /\ connected' \in BOOLEAN
    BY <1>0, <1>3 DEF Break, vars
  <2> QED
    BY <2>1 DEF TypeInv, TypeOK, ReaderPlace, reader, ghosts
<1>4. CASE SendPacket \/ GetAllPackets
  <2>1. UNCHANGED <<down, connected, reader, ghosts>> /\ tx' \in Nat /\ queue' \in 0 .. QueueSize
    BY <1>0, <1>4, Constants DEF SendPacket, GetAllPackets
  <2> QED
    BY <2>1 DEF TypeInv, TypeOK, ReaderPlace, reader, ghosts
<1>5. CASE Recv
  <2>1. PICK k \in 1 .. Min({Len(down), need - got}) :
          /\ buf' = [buf EXCEPT ![rd] = Stored(@, k)]
          /\ got' = got + k
          /\ down' = SubSeq(down, k + 1, Len(down))
          /\ cut' = (cut \/ k < need)
    BY <1>5 DEF Recv
  <2>2. /\ rd \in {"header", "payload"} /\ got < need
        /\ UNCHANGED <<connected, rd, need, timeouts, tx, queue>>
        /\ inflight' = IF cut' THEN << >> ELSE inflight
    BY <1>5 DEF Recv, Reading
  <2>3. need - got \in Nat
    BY <1>0, <2>2
  <2>4. k \in 1 .. Len(down) /\ k <= need - got /\ k \in Nat
    <3>1. PICK x \in Nat, y \in Nat : x = Len(down) /\ y = need - got
      BY <1>0, <2>3
    <3>2. Min({x, y}) \in {x, y} /\ Min({x, y}) <= x /\ Min({x, y}) <= y
      BY Smaller
    <3>3. PICK m \in Nat : m = Min({x, y}) /\ m <= x /\ m <= y
      BY <3>2
    <3>4. k \in 1 .. m
      BY <3>1, <3>3
    <3> QED
      BY <3>1, <3>3, <3>4
  <2>5. got' \in 0 .. need
    BY <1>0, <2>1, <2>4
  <2>6. down' \in Seq(Cell)
    <3>1. \A j \in k + 1 .. Len(down) : j \in 1 .. Len(down)
      BY <1>0, <2>4
    <3>2. \A j \in k + 1 .. Len(down) : down[j] \in Cell
      BY <1>0, <3>1, ElementOfSeq
    <3> QED
      BY <1>0, <2>1, <2>4, <3>2, SubSeqProperties
  <2>7. /\ buf' \in [header : Seq(Cell), payload : Seq(Cell)]
        /\ Len(buf'.header) = HeaderSize /\ Len(buf'.payload) = BufferSize
    <3>1. CASE rd = "header"
      <4>1. buf' = [buf EXCEPT !.header = Stored(buf.header, k)]
        BY <2>1, <3>1
      <4>2. Stored(buf.header, k) \in Seq(Cell) /\ Len(Stored(buf.header, k)) = HeaderSize
        BY <1>0, <2>4, StoredProperties
      <4> QED
        BY <1>0, <4>1, <4>2
    <3>2. CASE rd = "payload"
      <4>1. buf' = [buf EXCEPT !.payload = Stored(buf.payload, k)]
        BY <2>1, <3>2
      <4>2. Stored(buf.payload, k) \in Seq(Cell) /\ Len(Stored(buf.payload, k)) = BufferSize
        BY <1>0, <2>4, StoredProperties
      <4> QED
        BY <1>0, <4>1, <4>2
    <3> QED
      BY <2>2, <3>1, <3>2
  <2>8. cut' \in BOOLEAN /\ inflight' \in Seq(Payloads)
    BY <1>0, <1>1, <2>1, <2>2
  <2> QED
    BY <1>0, <2>2, <2>5, <2>6, <2>7, <2>8 DEF TypeInv, TypeOK, ReaderPlace, Lengths
<1>6. CASE TooLong \/ Unparsable
  <2>1. /\ UNCHANGED <<down, connected, buf, timeouts, tx, queue, cut>>
        /\ rd' = "header" /\ got' = 0 /\ need' = HeaderSize /\ rd \notin {"closed", "dead"}
    BY <1>6 DEF TooLong, Unparsable, PayloadRead, NextHeader, Reading, ghosts
  <2>2. inflight' \in Seq(Payloads)
    <3>1. CASE inflight' = inflight
      BY <1>0, <3>1
    <3>2. CASE Unparsable /\ ~cut
      BY <1>0, <3>2, HeadTailProperties DEF Unparsable, PayloadRead, TakeInFlight, PacketInFlight
    <3> QED
      BY <1>6, <3>1, <3>2 DEF TooLong, Unparsable, TakeInFlight, ghosts
  <2> QED
    BY <1>0, <1>1, <2>1, <2>2 DEF TypeInv, TypeOK, ReaderPlace, Lengths
<1>7. CASE TimeoutError
  <2>1. /\ rd \notin {"closed", "dead"} /\ timeouts' = timeouts + 1
        /\ UNCHANGED <<down, connected, buf, tx, queue>>
        /\ inflight' = IF cut' THEN << >> ELSE inflight
        /\ cut' = (cut \/ got > 0 \/ rd = "payload")
    BY <1>7 DEF TimeoutError, Reading
  <2>2. /\ timeouts' \in 0 .. MaxTimeouts + 1
        /\ rd' \notin {"closed", "dead"} => timeouts' <= MaxTimeouts
    BY <1>0, <1>7, <2>1, Constants DEF TimeoutError, NextHeader
  <2>3. /\ rd' \in {"header", "closed"} /\ need' \in Lengths /\ got' \in 0 .. need'
        /\ rd' = "header" => need' = HeaderSize
    BY <1>0, <1>1, <1>7 DEF TimeoutError, NextHeader
  <2>4. cut' \in BOOLEAN /\ inflight' \in Seq(Payloads)
    BY <1>0, <1>1, <2>1
  <2> QED
    BY <1>0, <2>1, <2>2, <2>3, <2>4 DEF TypeInv, TypeOK, ReaderPlace, Lengths
<1>8. CASE ReadTimesOut \/ ConnectionReset
  <2>1. rd' = "closed" /\ UNCHANGED <<down, connected, buf, got, need, timeouts, tx, queue, inflight, cut>>
    BY <1>8 DEF ReadTimesOut, ConnectionReset, ghosts
  <2> QED
    BY <1>0, <2>1 DEF TypeInv, TypeOK, ReaderPlace, Lengths
<1>9. CASE ParseHeader
  <2>1. UNCHANGED <<down, connected, buf, timeouts, tx, queue, inflight, cut>> /\ rd \notin {"closed", "dead"}
    BY <1>9 DEF ParseHeader, ghosts
  <2>2. CASE buf.header[1] = Magic /\ buf.header[2] # Magic
    <3>1. buf.header[2] \in Cell
      BY <1>0, ElementOfSeq DEF HeaderSize
    <3>2. buf.header[2] \in 0 .. BufferSize + 1
      BY <2>2, <3>1, Constants
    <3>3. rd' = "payload" /\ got' = 0 /\ need' = buf.header[2]
      BY <1>9, <2>2 DEF ParseHeader
    <3>4. need' \in Lengths /\ got' \in 0 .. need'
      BY <3>2, <3>3, Constants DEF Lengths
    <3> QED
      BY <1>0, <2>1, <3>3, <3>4 DEF TypeInv, TypeOK, ReaderPlace, Lengths
  <2>3. CASE ~ (buf.header[1] = Magic /\ buf.header[2] # Magic)
    <3>1. rd' = "header" /\ got' = 0 /\ need' = HeaderSize
      BY <1>9, <2>3 DEF ParseHeader, NextHeader
    <3> QED
      BY <1>0, <1>1, <2>1, <3>1 DEF TypeInv, TypeOK, ReaderPlace, Lengths
  <2> QED
    BY <2>2, <2>3
<1>10. CASE HandlePacket
  <2>1. rd' = "tx" /\ timeouts' = 0 /\ UNCHANGED <<down, connected, buf, got, need, tx, cut>>
    BY <1>10 DEF HandlePacket
  <2>2. queue' \in 0 .. QueueSize
    <3>1. queue + 1 \in Nat /\ QueueSize \in Nat
      BY <1>0, Constants
    <3>2. Min({queue + 1, QueueSize}) \in Nat /\ Min({queue + 1, QueueSize}) <= QueueSize
      BY <3>1, Smaller
    <3> QED
      BY <1>10, <3>1, <3>2 DEF HandlePacket
  <2>3. inflight' \in Seq(Payloads)
    BY <1>0, <1>10, HeadTailProperties DEF HandlePacket, PayloadRead, TakeInFlight, PacketInFlight
  <2>4. 0 \in 0 .. MaxTimeouts + 1 /\ 0 <= MaxTimeouts
    BY Constants
  <2> QED
    BY <1>0, <2>1, <2>2, <2>3, <2>4 DEF TypeInv, TypeOK, ReaderPlace, Lengths
<1>11. CASE SendPending
  <2>1. /\ UNCHANGED <<down, connected, buf, timeouts, queue, inflight, cut>> /\ rd = "tx"
        /\ tx' \in Nat
        /\ (rd' = "header" /\ got' = 0 /\ need' = HeaderSize) \/ UNCHANGED <<rd, got, need>>
    BY <1>0, <1>11 DEF SendPending, NextHeader, ghosts
  <2> QED
    BY <1>0, <1>1, <2>1 DEF TypeInv, TypeOK, ReaderPlace, Lengths
<1>12. CASE Connect
  <2>1. /\ Zeroed \in [header : Seq(Cell), payload : Seq(Cell)]
        /\ Len(Zeroed.header) = HeaderSize /\ Len(Zeroed.payload) = BufferSize
    BY ZeroedProperties
  <2>2. 0 \in 0 .. MaxTimeouts + 1 /\ 0 <= MaxTimeouts
    BY Constants
  <2>3. /\ down' = << >> /\ connected' = TRUE /\ buf' = Zeroed /\ timeouts' = 0
        /\ rd' = "header" /\ got' = 0 /\ need' = HeaderSize
        /\ inflight' = << >> /\ cut' = FALSE /\ UNCHANGED <<tx, queue>>
    BY <1>12 DEF Connect, NextHeader
  <2> QED
    BY <1>0, <1>1, <2>1, <2>2, <2>3 DEF TypeInv, TypeOK, ReaderPlace, Lengths
<1>13. CASE ConnectFails
  <2>1. /\ rd' = "dead" /\ down' = << >> /\ connected' = FALSE
        /\ UNCHANGED <<buf, got, need, timeouts, tx, queue, inflight, cut>>
    BY <1>13 DEF ConnectFails, ghosts
  <2> QED
    BY <1>0, <1>1, <2>1 DEF TypeInv, TypeOK, ReaderPlace, Lengths
<1> QED
  BY <1>2, <1>3, <1>4, <1>5, <1>6, <1>7, <1>8, <1>9, <1>10, <1>11, <1>12, <1>13 DEF Next, Start

-----------------------------------------------------------------------------
(* The framing: as long as each _read was served by one recv, what is on    *)
(* its way is a sequence of whole packets, after the rest of the one that   *)
(* is being read.                                                           *)

Frame(p) == <<Magic, Len(p)>> \o p

\* w is the frames of ps; f[i] is what follows the first i of them
Framed(w, ps) ==
    \E f \in [0 .. Len(ps) -> Seq(Cell)] :
        /\ f[0] = w /\ f[Len(ps)] = << >>
        /\ \A i \in 1 .. Len(ps) : f[i - 1] = Frame(ps[i]) \o f[i]

LEMMA Associative ==
    ASSUME NEW x \in Seq(Cell), NEW y \in Seq(Cell), NEW z \in Seq(Cell)
    PROVE  (x \o y) \o z = x \o (y \o z)
BY ConcatAssociative

LEMMA FrameProperties ==
    ASSUME NEW p \in Payloads
    PROVE  /\ p \in Seq(Cell) /\ Len(p) \in Nat
           /\ <<Magic, Len(p)>> \in Seq(Cell) /\ Len(<<Magic, Len(p)>>) = 2
           /\ Frame(p) \in Seq(Cell)
           /\ \A w \in Seq(Cell) : /\ w \o <<Magic, Len(p)>> \o p = w \o Frame(p)
                                   /\ Frame(p) \o w = <<Magic, Len(p)>> \o (p \o w)
<1>1. p \in Seq(Cell) /\ Len(p) \in Nat /\ <<Magic, Len(p)>> \in Seq(Cell) /\ Len(<<Magic, Len(p)>>) = 2
  BY Constants
<1>2. PICK h \in Seq(Cell) : h = <<Magic, Len(p)>>
  BY <1>1
<1>3. h \o p \in Seq(Cell)
  BY <1>1, ConcatProperties
<1>4. ASSUME NEW w \in Seq(Cell)
      PROVE  (w \o h) \o p = w \o (h \o p) /\ (h \o p) \o w = h \o (p \o w)
  BY <1>1, Associative
<1> QED
  BY <1>1, <1>2, <1>3, <1>4 DEF Frame

LEMMA NothingFramed == Framed(<< >>, << >>)
<1>1. Len(<< >>) = 0 /\ << >> \in Seq(Cell)
  BY EmptySeq
<1> DEFINE f == [i \in 0 .. 0 |-> << >>]
<1>2. f \in [0 .. 0 -> Seq(Cell)] /\ f[0] = << >>
  BY <1>1
<1> HIDE DEF f
<1> QED
  BY <1>1, <1>2 DEF Framed

(* sendTelemetryPacket puts a frame behind the others.                      *)
LEMMA FramedAppend ==
    ASSUME NEW w, NEW ps \in Seq(Payloads), NEW p \in Payloads, Framed(w, ps)
    PROVE  Framed(w \o Frame(p), Append(ps, p))
<1>1. PICK n \in Nat : n = Len(ps)
  BY LenProperties
<1>2. PICK f \in [0 .. n -> Seq(Cell)] :
        /\ f[0] = w /\ f[n] = << >>
        /\ \A i \in 1 .. n : f[i - 1] = Frame(ps[i]) \o f[i]
  BY <1>1 DEF Framed
<1>3. PICK c \in Seq(Cell) : c = Frame(p) /\ << >> \in Seq(Cell) /\ << >> \o c = c /\ c \o << >> = c
  BY FrameProperties, EmptySeq, ConcatEmptySeq
<1>4. PICK qs \in Seq(Payloads) :
        /\ qs = Append(ps, p) /\ Len(qs) = n + 1 /\ qs[n + 1] = p
        /\ \A i \in 1 .. n : qs[i] = ps[i]
  <2>1. /\ Append(ps, p) \in Seq(Payloads) /\ Len(Append(ps, p)) = Len(ps) + 1
        /\ \A i \in 1 .. Len(ps) : Append(ps, p)[i] = ps[i]
        /\ Append(ps, p)[Len(ps) + 1] = p
    BY AppendProperties
  <2> QED
    BY <1>1, <2>1
<1> DEFINE g == [i \in 0 .. n + 1 |-> IF i <= n THEN f[i] \o c ELSE << >>]
<1>5. \A i \in 0 .. n : f[i] \in Seq(Cell) /\ f[i] \o c \in Seq(Cell)
  BY <1>2, <1>3, ConcatProperties
<1>6. g \in [0 .. n + 1 -> Seq(Cell)]
  <2>1. \A i \in 0 .. n + 1 : i <= n => i \in 0 .. n
    BY <1>1
  <2> QED
    BY <1>3, <1>5, <2>1
<1>7. /\ \A i \in 0 .. n : g[i] = f[i] \o c
      /\ g[n + 1] = << >> /\ 0 \in 0 .. n
  BY <1>1
<1> HIDE DEF g
<1>8. ASSUME NEW i \in 1 .. n PROVE g[i - 1] = Frame(qs[i]) \o g[i]
  <2>1. i - 1 \in 0 .. n /\ i \in 0 .. n
    BY <1>1
  <2>2. Frame(ps[i]) \in Seq(Cell)
    BY <1>1, ElementOfSeq, FrameProperties
  <2>3. f[i] \in Seq(Cell)
    BY <1>5, <2>1
  <2>4. (Frame(ps[i]) \o f[i]) \o c = Frame(ps[i]) \o (f[i] \o c)
    <3>1. PICK x \in Seq(Cell), y \in Seq(Cell) : x = Frame(ps[i]) /\ y = f[i]
      BY <2>2, <2>3
    <3>2. (x \o y) \o c = x \o (y \o c)
      BY Associative
    <3> QED
      BY <3>1, <3>2
  <2> QED
    BY <1>2, <1>4, <1>7, <2>1, <2>4
<1>9. g[n] = Frame(qs[n + 1]) \o g[n + 1]
  <2>1. n \in 0 .. n
    BY <1>1
  <2> QED
    BY <1>2, <1>3, <1>4, <1>7, <2>1
<1>10. \A i \in 1 .. n + 1 : i \in 1 .. n \/ i = n + 1
  BY <1>1
<1>11. g[0] = w \o c
  BY <1>2, <1>7
<1>12. ASSUME NEW i \in 1 .. n + 1 PROVE g[i - 1] = Frame(qs[i]) \o g[i]
  <2>1. CASE i \in 1 .. n
    BY <1>8, <2>1
  <2>2. CASE i = n + 1
    <3>1. i - 1 = n
      BY <1>1, <2>2
    <3> QED
      BY <1>9, <2>2, <3>1
  <2> QED
    BY <1>10, <2>1, <2>2
<1>13. Framed(w \o c, qs)
  BY <1>4, <1>6, <1>7, <1>11, <1>12 DEF Framed
<1> QED
  BY <1>3, <1>4, <1>13

(* The reader finds the oldest packet first, and whole packets behind it.   *)
LEMMA FramedTake ==
    ASSUME NEW w, NEW ps \in Seq(Payloads), ps # << >>, Framed(w, ps)
    PROVE  \E r \in Seq(Cell) : w = Frame(Head(ps)) \o r /\ Framed(r, Tail(ps))
<1>1. PICK n \in Nat : n = Len(ps) /\ n >= 1
  BY LenProperties, EmptySeq
<1>2. PICK f \in [0 .. n -> Seq(Cell)] :
        /\ f[0] = w /\ f[n] = << >>
        /\ \A i \in 1 .. n : f[i - 1] = Frame(ps[i]) \o f[i]
  BY <1>1 DEF Framed
<1>3. PICK qs \in Seq(Payloads) :
        /\ qs = Tail(ps) /\ Len(qs) = n - 1 /\ \A i \in 1 .. n - 1 : qs[i] = ps[i + 1]
  BY <1>1, HeadTailProperties
<1>4. Head(ps) = ps[1]
  BY <1>1, HeadTailProperties
<1> DEFINE g == [i \in 0 .. n - 1 |-> f[i + 1]]
<1>5. g \in [0 .. n - 1 -> Seq(Cell)] /\ \A i \in 0 .. n - 1 : g[i] = f[i + 1]
  BY <1>1, <1>2
<1> HIDE DEF g
<1>6. g[0] = f[1] /\ g[n - 1] = << >>
  <2>1. 0 \in 0 .. n - 1 /\ n - 1 \in 0 .. n - 1 /\ n - 1 + 1 = n /\ 0 + 1 = 1
    BY <1>1
  <2> QED
    BY <1>2, <1>5, <2>1
<1>7. ASSUME NEW i \in 1 .. n - 1 PROVE g[i - 1] = Frame(qs[i]) \o g[i]
  <2>1. i - 1 \in 0 .. n - 1 /\ i \in 0 .. n - 1 /\ i + 1 \in 1 .. n /\ i + 1 - 1 = i /\ i - 1 + 1 = i
    BY <1>1
  <2>2. g[i - 1] = f[i] /\ g[i] = f[i + 1]
    BY <1>5, <2>1
  <2>3. f[i] = Frame(ps[i + 1]) \o f[i + 1]
    <3>1. PICK j \in 1 .. n : j = i + 1 /\ j - 1 = i
      BY <2>1
    <3>2. f[j - 1] = Frame(ps[j]) \o f[j]
      BY <1>2
    <3> QED
      BY <3>1, <3>2
  <2> QED
    BY <1>3, <2>2, <2>3
<1>8. Framed(f[1], qs)
  BY <1>3, <1>5, <1>6, <1>7 DEF Framed
<1>9. w = Frame(ps[1]) \o f[1] /\ f[1] \in Seq(Cell)
  <2>1. 1 \in 1 .. n /\ 1 \in 0 .. n /\ 1 - 1 = 0
    BY <1>1
  <2> QED
    BY <1>2, <2>1
<1> QED
  BY <1>3, <1>4, <1>8, <1>9

LEMMA FramedEmpty ==
    ASSUME NEW w, Framed(w, << >>)
    PROVE  w = << >>
<1>1. Len(<< >>) = 0
  BY EmptySeq
<1> QED
  BY <1>1 DEF Framed

(* Cutting a sequence where its first part ends.                            *)
LEMMA RestOfConcat ==
    ASSUME NEW a \in Seq(Cell), NEW b \in Seq(Cell), NEW n \in Nat, Len(a) = n
    PROVE  /\ SubSeq(a \o b, n + 1, Len(a \o b)) = b
           /\ \A j \in 1 .. n : (a \o b)[j] = a[j]
           /\ a \o b \in Seq(Cell) /\ Len(a \o b) = n + Len(b) /\ Len(b) \in Nat
<1>1. PICK m \in Nat : m = Len(b)
  BY LenProperties
<1>2. PICK s \in Seq(Cell) :
        /\ s = a \o b /\ Len(s) = n + m
        /\ \A i \in 1 .. n + m : s[i] = IF i <= n THEN a[i] ELSE b[i - n]
  <2>1. /\ a \o b \in Seq(Cell) /\ Len(a \o b) = Len(a) + Len(b)
        /\ \A i \in 1 .. Len(a) + Len(b) : (a \o b)[i] = IF i <= Len(a) THEN a[i] ELSE b[i - Len(a)]
    BY ConcatProperties
  <2> QED
    BY <1>1, <2>1
<1>3. \A i \in n + 1 .. n + m : s[i] \in Cell
  <2>1. \A i \in n + 1 .. n + m : i \in 1 .. n + m
    BY <1>1
  <2> QED
    BY <1>2, <2>1, ElementOfSeq
<1>4. PICK x \in Int, y \in Int : x = n + 1 /\ y = n + m
  BY <1>1
<1>5. PICK t \in Seq(Cell) :
        /\ t = SubSeq(s, x, y) /\ Len(t) = IF x <= y THEN y - x + 1 ELSE 0
        /\ \A i \in 1 .. y - x + 1 : t[i] = s[x + i - 1]
  <2>1. /\ SubSeq(s, x, y) \in Seq(Cell) /\ Len(SubSeq(s, x, y)) = IF x <= y THEN y - x + 1 ELSE 0
        /\ \A i \in 1 .. y - x + 1 : SubSeq(s, x, y)[i] = s[x + i - 1]
    <3>1. \A i \in x .. y : s[i] \in Cell
      BY <1>3, <1>4
    <3> QED
      BY <3>1, SubSeqProperties
  <2> QED
    BY <2>1
<1>6. Len(t) = m /\ y - x + 1 = m
  BY <1>1, <1>4, <1>5
<1>7. ASSUME NEW i \in 1 .. m PROVE t[i] = b[i]
  <2>1. PICK j \in 1 .. n + m : j = x + i - 1 /\ ~ (j <= n) /\ j - n = i
    BY <1>1, <1>4
  <2>2. t[i] = s[j]
    BY <1>5, <1>6, <2>1
  <2>3. s[j] = b[i]
    BY <1>2, <2>1
  <2> QED
    BY <2>2, <2>3
<1>8. t = b
  BY <1>1, <1>6, <1>7, SeqEqual
<1>9. \A j \in 1 .. n : s[j] = a[j]
  BY <1>1, <1>2
<1> QED
  BY <1>1, <1>2, <1>4, <1>5, <1>8, <1>9

-----------------------------------------------------------------------------
(* Where the reader is in the packet p, when r follows p on the connection. *)
Midway(p, r) ==
    \/ /\ rd = "header" /\ got = HeaderSize
       /\ buf.header[1] = Magic /\ buf.header[2] = Len(p) /\ down = p \o r
    \/ rd = "payload" /\ need = Len(p) /\ got = 0 /\ down = p \o r
    \/ /\ rd = "payload" /\ need = Len(p) /\ got = need
       /\ SubSeq(buf.payload, 1, need) = p /\ down = r

\* the reader is between two packets
Between == rd \in {"header", "tx"} /\ (rd = "header" => got = 0) /\ Framed(down, inflight)

\* it is in the oldest one
Within == /\ inflight # << >>
          /\ \E r \in Seq(Cell) : Framed(r, Tail(inflight)) /\ Midway(Head(inflight), r)

InStep == ~cut /\ rd \notin {"closed", "dead"} => Between \/ Within

(* When the payload was read, it is the oldest packet's.                    *)
LEMMA PacketRead ==
    ASSUME TypeInv, InStep, rd = "payload", got = need, ~cut
    PROVE  /\ inflight # << >> /\ Framed(down, Tail(inflight))
           /\ SubSeq(buf.payload, 1, need) = Head(inflight)
<1>1. inflight # << >> /\ inflight \in Seq(Payloads)
  BY DEF InStep, Between, Within, TypeInv, TypeOK
<1>2. PICK r \in Seq(Cell) : Framed(r, Tail(inflight)) /\ Midway(Head(inflight), r)
  BY DEF InStep, Between, Within
<1>3. PICK p \in Payloads : p = Head(inflight) /\ p \in Seq(Cell)
  BY <1>1, HeadTailProperties, FrameProperties
<1>4. CASE SubSeq(buf.payload, 1, need) = p /\ down = r
  BY <1>1, <1>2, <1>3, <1>4
<1>5. CASE need = Len(p) /\ got = 0 /\ down = p \o r
  <2>1. p = << >>
    BY <1>3, <1>5, EmptySeq
  <2>2. down = r
    BY <1>5, <2>1, ConcatEmptySeq
  <2>3. SubSeq(buf.payload, 1, need) = << >>
    BY <1>5, SubSeqEmpty
  <2> QED
    BY <1>1, <1>2, <1>3, <2>1, <2>2, <2>3
<1> QED
  BY <1>2, <1>3, <1>4, <1>5 DEF Midway

LEMMA InStepInit == Init => InStep
<1> SUFFICES ASSUME Init PROVE InStep
  OBVIOUS
<1> QED
  BY NothingFramed DEF Init, InStep, Between

LEMMA AppendHeadTail ==
    ASSUME NEW ps \in Seq(Payloads), ps # << >>, NEW p \in Payloads
    PROVE  /\ Append(ps, p) # << >> /\ Head(Append(ps, p)) = Head(ps)
           /\ Tail(Append(ps, p)) = Append(Tail(ps), p)
<1>1. Append(ps, p) # << >>
  BY AppendProperties
<1> QED
  BY <1>1, HeadTailAppend

LEMMA InStepSends ==
    ASSUME TypeInv, InStep, NEW p \in Payloads, SendTelemetryPacket(p)
    PROVE  InStep'
<1> SUFFICES ASSUME ~cut, rd \notin {"closed", "dead"} PROVE Between' \/ Within'
  BY DEF SendTelemetryPacket, InStep, reader
<1>0. /\ inflight \in Seq(Payloads) /\ down \in Seq(Cell) /\ Frame(p) \in Seq(Cell)
      /\ down' = down \o Frame(p) /\ inflight' = Append(inflight, p)
      /\ UNCHANGED <<rd, buf, got, need>>
  BY FrameProperties DEF SendTelemetryPacket, TypeInv, TypeOK, reader
<1>1. CASE Between
  BY <1>0, <1>1, FramedAppend DEF Between
<1>2. CASE Within
  <2>1. PICK r \in Seq(Cell) : Framed(r, Tail(inflight)) /\ Midway(Head(inflight), r)
    BY <1>2 DEF Within
  <2>2. PICK h \in Payloads, ps \in Seq(Payloads) :
          /\ h = Head(inflight) /\ ps = Tail(inflight) /\ h \in Seq(Cell)
    BY <1>0, <1>2, HeadTailProperties, FrameProperties DEF Within
  <2>3. inflight' # << >> /\ Head(inflight') = h /\ Tail(inflight') = Append(ps, p)
    BY <1>0, <1>2, <2>2, AppendHeadTail DEF Within
  <2>4. Framed(r \o Frame(p), Append(ps, p))
    BY <2>1, <2>2, FramedAppend
  <2>5. r \o Frame(p) \in Seq(Cell)
    BY <1>0, ConcatProperties
  <2>6. (h \o r) \o Frame(p) = h \o (r \o Frame(p))
    BY <1>0, <2>2, Associative
  <2>7. \/ /\ rd' = "header" /\ got' = HeaderSize
           /\ buf'.header[1] = Magic /\ buf'.header[2] = Len(h) /\ down' = h \o (r \o Frame(p))
        \/ rd' = "payload" /\ need' = Len(h) /\ got' = 0 /\ down' = h \o (r \o Frame(p))
        \/ /\ rd' = "payload" /\ need' = Len(h) /\ got' = need'
           /\ SubSeq(buf'.payload, 1, need') = h /\ down' = r \o Frame(p)
    BY <1>0, <2>1, <2>2, <2>6 DEF Midway
  <2> QED
    BY <2>3, <2>4, <2>5, <2>7 DEF Within, Midway
<1> QED
  BY <1>1, <1>2 DEF InStep

LEMMA InStepRecv ==
    ASSUME TypeInv, InStep, Recv
    PROVE  InStep'
<1> SUFFICES ASSUME ~cut' PROVE Within'
  BY DEF InStep
<1>1. PICK k \in 1 .. Min({Len(down), need - got}) :
        /\ buf' = [buf EXCEPT ![rd] = Stored(@, k)]
        /\ got' = got + k
        /\ down' = SubSeq(down, k + 1, Len(down))
        /\ cut' = (cut \/ k < need)
  BY DEF Recv
<1>2. /\ rd \in {"header", "payload"} /\ got < need /\ need <= Len(buf[rd])
      /\ UNCHANGED <<rd, need>> /\ inflight' = inflight /\ ~cut /\ ~ (k < need)
  BY <1>1 DEF Recv, Reading
<1>3. /\ down \in Seq(Cell) /\ Len(down) \in Nat /\ need \in Nat /\ got \in 0 .. need
      /\ buf \in [header : Seq(Cell), payload : Seq(Cell)]
      /\ buf.header \in Seq(Cell) /\ buf.payload \in Seq(Cell)
      /\ Len(buf.header) = HeaderSize /\ Len(buf.payload) = BufferSize
      /\ inflight \in Seq(Payloads) /\ (rd = "header" => need = HeaderSize)
  BY LenProperties, Constants DEF TypeInv, TypeOK, ReaderPlace, HeaderSize
<1>4. k \in 1 .. Len(down) /\ k = need /\ got = 0 /\ got' = need
  <2>1. PICK x \in Nat, y \in Nat : x = Len(down) /\ y = need - got
    BY <1>2, <1>3
  <2>2. PICK m \in Nat : m = Min({x, y}) /\ m <= x /\ m <= y
    <3>1. Min({x, y}) \in {x, y} /\ Min({x, y}) <= x /\ Min({x, y}) <= y
      BY Smaller
    <3> QED
      BY <3>1
  <2>3. k \in 1 .. m
    BY <2>1, <2>2
  <2> QED
    BY <1>1, <1>2, <1>3, <2>1, <2>2, <2>3
<1>5. CASE rd = "header"
  <2>1. Framed(down, inflight)
    BY <1>2, <1>4, <1>5 DEF InStep, Between, Within, Midway, HeaderSize
  <2>2. inflight # << >>
    <3>1. down # << >>
      BY <1>3, <1>4, EmptySeq
    <3> QED
      BY <2>1, <3>1, FramedEmpty
  <2>3. PICK r \in Seq(Cell) : down = Frame(Head(inflight)) \o r /\ Framed(r, Tail(inflight))
    BY <1>3, <2>1, <2>2, FramedTake
  <2>4. PICK p \in Payloads : p = Head(inflight) /\ p \in Seq(Cell)
    BY <1>3, <2>2, HeadTailProperties, FrameProperties
  <2>5. PICK h \in Seq(Cell) : h = <<Magic, Len(p)>> /\ Len(h) = 2 /\ h[1] = Magic /\ h[2] = Len(p)
    BY FrameProperties
  <2>6. PICK z \in Seq(Cell) : z = p \o r /\ down = h \o z
    <3>1. p \o r \in Seq(Cell)
      BY <2>4, ConcatProperties
    <3>2. Frame(p) \o r = <<Magic, Len(p)>> \o (p \o r)
      BY FrameProperties
    <3> QED
      BY <2>3, <2>4, <2>5, <3>1, <3>2
  <2>7. k = 2
    BY <1>3, <1>4, <1>5 DEF HeaderSize
  <2>8. down' = z /\ down[1] = Magic /\ down[2] = Len(p)
    <3>1. SubSeq(h \o z, 2 + 1, Len(h \o z)) = z /\ \A j \in 1 .. 2 : (h \o z)[j] = h[j]
      BY <2>5, RestOfConcat
    <3>2. (h \o z)[1] = h[1] /\ (h \o z)[2] = h[2]
      <4>1. 1 \in 1 .. 2 /\ 2 \in 1 .. 2
        OBVIOUS
      <4> QED
        BY <3>1, <4>1, Zenon
    <3> QED
      BY <1>1, <2>5, <2>6, <2>7, <3>1, <3>2
  <2>9. buf' = [buf EXCEPT !.header = Stored(buf.header, k)]
    BY <1>1, <1>5
  <2>10. Stored(buf.header, k)[1] = down[1] /\ Stored(buf.header, k)[2] = down[2]
    <3>1. PICK cells \in Seq(Cell) : cells = buf.header /\ Len(cells) = 2
      BY <1>3 DEF HeaderSize
    <3>2. \A j \in 1 .. Len(cells) : Stored(cells, k)[j] = IF j <= k THEN down[j] ELSE cells[j]
      BY <1>3, <1>4, StoredProperties
    <3>3. 1 \in 1 .. 2 /\ 2 \in 1 .. 2 /\ 1 <= k /\ 2 <= k
      BY <2>7
    <3>4. Stored(cells, k)[1] = down[1] /\ Stored(cells, k)[2] = down[2]
      BY <3>1, <3>2, <3>3
    <3> QED
      BY <3>1, <3>4
  <2>11. buf'.header[1] = Magic /\ buf'.header[2] = Len(p)
    BY <1>3, <2>8, <2>9, <2>10
  <2> QED
    BY <1>2, <1>3, <1>4, <1>5, <2>2, <2>3, <2>4, <2>6, <2>8, <2>11 DEF Within, Midway
<1>6. CASE rd = "payload"
  <2>1. /\ inflight # << >>
        /\ \E r \in Seq(Cell) : Framed(r, Tail(inflight)) /\ Midway(Head(inflight), r)
    BY <1>2, <1>6 DEF InStep, Between, Within
  <2>2. PICK r \in Seq(Cell) : Framed(r, Tail(inflight)) /\ Midway(Head(inflight), r)
    BY <2>1
  <2>3. PICK p \in Payloads : p = Head(inflight) /\ p \in Seq(Cell) /\ Len(p) \in Nat
    BY <1>3, <2>1, HeadTailProperties, FrameProperties
  <2>4. need = Len(p) /\ down = p \o r
    BY <1>2, <1>4, <1>6, <2>2, <2>3 DEF Midway
  <2>5. down' = r /\ \A j \in 1 .. need : down[j] = p[j]
    <3>1. /\ SubSeq(p \o r, Len(p) + 1, Len(p \o r)) = r
          /\ \A j \in 1 .. Len(p) : (p \o r)[j] = p[j]
      BY <2>3, RestOfConcat
    <3> QED
      BY <1>1, <1>4, <2>4, <3>1
  <2>6. buf' = [buf EXCEPT !.payload = Stored(buf.payload, k)]
    BY <1>1, <1>6
  <2>7. PICK c \in Seq(Cell) : c = buf'.payload /\ \A j \in 1 .. need : c[j] = p[j]
    <3>1. /\ Stored(buf.payload, k) \in Seq(Cell)
          /\ \A j \in 1 .. BufferSize : Stored(buf.payload, k)[j] = IF j <= k THEN down[j] ELSE buf.payload[j]
      BY <1>3, <1>4, StoredProperties
    <3>2. need <= BufferSize
      BY <2>3, <2>4, Constants
    <3>3. \A j \in 1 .. need : j \in 1 .. BufferSize /\ j <= k
      BY <1>3, <1>4, <3>2, Constants
    <3>4. \A j \in 1 .. need : Stored(buf.payload, k)[j] = p[j]
      BY <2>5, <3>1, <3>3
    <3>5. buf'.payload = Stored(buf.payload, k)
      BY <1>3, <2>6
    <3> QED
      BY <3>1, <3>4, <3>5
  <2>8. SubSeq(c, 1, need) = p
    <3>1. \A j \in 1 .. need : c[j] \in Cell
      BY <2>3, <2>4, <2>7, ElementOfSeq
    <3>2. /\ SubSeq(c, 1, need) \in Seq(Cell)
          /\ Len(SubSeq(c, 1, need)) = IF 1 <= need THEN need - 1 + 1 ELSE 0
          /\ \A j \in 1 .. need - 1 + 1 : SubSeq(c, 1, need)[j] = c[1 + j - 1]
      BY <1>3, <3>1, SubSeqProperties
    <3>3. Len(SubSeq(c, 1, need)) = need
      BY <1>3, <3>2
    <3>4. \A j \in 1 .. need : SubSeq(c, 1, need)[j] = p[j]
      BY <1>3, <2>7, <3>2
    <3> QED
      BY <2>3, <2>4, <3>2, <3>3, <3>4, SeqEqual
  <2> QED
    BY <1>2, <1>4, <1>6, <2>1, <2>2, <2>3, <2>4, <2>5, <2>7, <2>8 DEF Within, Midway
<1> QED
  BY <1>2, <1>5, <1>6

LEMMA InStepStep == TypeInv /\ InStep /\ [Next]_vars => InStep'
<1> SUFFICES ASSUME TypeInv, InStep, [Next]_vars PROVE InStep'
  OBVIOUS
<1>0. /\ Len(buf.header) = HeaderSize /\ Len(buf.payload) = BufferSize
      /\ (rd = "header" => need = HeaderSize) /\ need \in Nat /\ got \in 0 .. need
      /\ inflight \in Seq(Payloads) /\ HeaderSize = 2
  BY Constants DEF TypeInv, TypeOK, ReaderPlace, HeaderSize
<1>1. ASSUME NEW p \in Payloads, SendTelemetryPacket(p) PROVE InStep'
  BY <1>1, InStepSends
<1>2. CASE UNCHANGED <<down, rd, buf, got, need, inflight, cut>>
  BY <1>2 DEF InStep, Between, Within, Midway
<1>3. CASE Break \/ SendPacket \/ GetAllPackets \/ UNCHANGED vars
  BY <1>2, <1>3 DEF Break, SendPacket, GetAllPackets, vars, reader, ghosts
<1>4. CASE Recv
  BY <1>4, InStepRecv
<1>5. CASE TooLong
  <2>1. cut' = cut /\ rd \in {"header", "payload"} /\ need > Len(buf[rd])
    BY <1>5 DEF TooLong, Reading, ghosts
  <2>2. rd = "payload" /\ need > BufferSize
    <3>1. rd = "header" => ~ (need > Len(buf.header))
      BY <1>0
    <3>2. rd = "payload"
      BY <2>1, <3>1
    <3> QED
      BY <1>0, <2>1, <3>2
  <2>3. cut
    <3> SUFFICES ASSUME ~cut PROVE FALSE
      OBVIOUS
    <3>1. /\ inflight # << >>
          /\ \E r \in Seq(Cell) : Midway(Head(inflight), r)
      BY <2>2 DEF InStep, Between, Within
    <3>2. need = Len(Head(inflight)) /\ Head(inflight) \in Payloads
      BY <1>0, <2>2, <3>1, HeadTailProperties DEF Midway
    <3> QED
      BY <1>0, <2>2, <3>2, Constants
  <2> QED
    BY <2>1, <2>3 DEF InStep
<1>6. CASE TimeoutError
  <2>1. CASE cut'
    BY <2>1 DEF InStep
  <2>2. CASE ~cut'
    <3>1. /\ ~cut /\ got = 0 /\ rd = "header" /\ UNCHANGED <<down, inflight>>
          /\ rd' = "closed" \/ (rd' = "header" /\ got' = 0)
      <4>1. /\ rd \in {"header", "payload"} /\ down' = down
            /\ inflight' = IF cut' THEN << >> ELSE inflight
            /\ cut' = (cut \/ got > 0 \/ rd = "payload")
            /\ rd' = "closed" \/ (rd' = "header" /\ got' = 0)
        BY <1>6 DEF TimeoutError, Reading, NextHeader
      <4>2. ~cut /\ ~ (got > 0) /\ rd # "payload" /\ inflight' = inflight
        BY <2>2, <4>1, Zenon
      <4>3. got = 0
        BY <1>0, <4>2
      <4> QED
        BY <4>1, <4>2, <4>3
    <3>2. Framed(down, inflight)
      BY <1>0, <3>1 DEF InStep, Between, Within, Midway
    <3> QED
      BY <3>1, <3>2 DEF InStep, Between
  <2> QED
    BY <2>1, <2>2
<1>7. CASE ReadTimesOut \/ ConnectionReset
  BY <1>7 DEF ReadTimesOut, ConnectionReset, InStep
<1>8. CASE ParseHeader
  <2>1. rd = "header" /\ got = HeaderSize /\ UNCHANGED <<down, inflight, cut>>
    BY <1>0, <1>8 DEF ParseHeader, ghosts
  <2>2. CASE cut
    BY <2>1, <2>2 DEF InStep
  <2>3. CASE ~cut
    <3>1. inflight # << >>
      BY <1>0, <2>1, <2>3 DEF InStep, Between, Within
    <3>2. PICK r \in Seq(Cell) : Framed(r, Tail(inflight)) /\ Midway(Head(inflight), r)
      BY <1>0, <2>1, <2>3 DEF InStep, Between, Within
    <3>3. PICK p \in Payloads : p = Head(inflight) /\ Len(p) # Magic
      BY <1>0, <3>1, HeadTailProperties, Constants
    <3>4. buf.header[1] = Magic /\ buf.header[2] = Len(p) /\ down = p \o r
      BY <2>1, <3>2, <3>3 DEF Midway
    <3>5. rd' = "payload" /\ got' = 0 /\ need' = Len(p)
      BY <1>8, <3>3, <3>4 DEF ParseHeader
    <3>6. Within'
      BY <2>1, <3>1, <3>2, <3>3, <3>4, <3>5 DEF Within, Midway
    <3> QED
      BY <3>6 DEF InStep
  <2> QED
    BY <2>2, <2>3
<1>9. CASE Unparsable
  <2>1. /\ rd = "payload" /\ got = need /\ rd' = "header" /\ got' = 0
        /\ UNCHANGED <<down, cut>>
    BY <1>9 DEF Unparsable, PayloadRead, NextHeader
  <2>2. CASE cut
    BY <2>1, <2>2 DEF InStep
  <2>3. CASE ~cut
    <3>1. Framed(down, Tail(inflight)) /\ inflight' = Tail(inflight)
      BY <1>9, <2>1, <2>3, PacketRead DEF Unparsable, TakeInFlight
    <3> QED
      BY <2>1, <3>1 DEF InStep, Between
  <2> QED
    BY <2>2, <2>3
<1>10. CASE HandlePacket
  <2>1. rd = "payload" /\ got = need /\ rd' = "tx" /\ UNCHANGED <<down, cut>>
    BY <1>10 DEF HandlePacket, PayloadRead
  <2>2. CASE cut
    BY <2>1, <2>2 DEF InStep
  <2>3. CASE ~cut
    <3>1. Framed(down, Tail(inflight)) /\ inflight' = Tail(inflight)
      BY <1>10, <2>1, <2>3, PacketRead DEF HandlePacket, TakeInFlight
    <3> QED
      BY <2>1, <3>1 DEF InStep, Between
  <2> QED
    BY <2>2, <2>3
<1>11. CASE SendPending
  <2>1. /\ rd = "tx" /\ UNCHANGED <<down, inflight, cut>>
        /\ rd' = "tx" \/ (rd' = "header" /\ got' = 0)
    BY <1>11 DEF SendPending, NextHeader, ghosts
  <2>2. ~cut => Framed(down, inflight)
    BY <2>1 DEF InStep, Between, Within, Midway
  <2> QED
    BY <2>1, <2>2 DEF InStep, Between
<1>12. CASE Connect
  BY <1>12, NothingFramed DEF Connect, NextHeader, InStep, Between
<1>13. CASE ConnectFails
  BY <1>13 DEF ConnectFails, InStep
<1> QED
  BY <1>1, <1>3, <1>4, <1>5, <1>6, <1>7, <1>8, <1>9, <1>10, <1>11, <1>12, <1>13 DEF Next, Start

LEMMA InStepFindsPacket == TypeInv /\ InStep => PacketInFlight
BY PacketRead DEF PacketInFlight

LEMMA ClientInvariant == Spec => [](TypeInv /\ InStep)
BY TypeInvInit, TypeInvStep, InStepInit, InStepStep, InStepFindsPacket, PTL DEF Spec

(* Type correctness of TelemetryClient: in particular the receiving queue   *)
(* keeps to its size, the buffers to theirs whatever length a header        *)
(* announces, and timeouts_in_row to the number that is put up with.        *)
THEOREM ClientTypeCorrect == Spec => []TypeOK
<1>1. TypeInv => TypeOK
  BY DEF TypeInv
<1> QED
  BY <1>1, ClientInvariant, PTL

(* As long as every _read was served by one recv, each packet the tool      *)
(* hands on is the oldest the companion sent and the tool has not shown,    *)
(* cell by cell, whatever its payload looks like.                           *)
THEOREM PacketsShownAsSentAlways == Spec => PacketsShownAsSent
<1>1. ASSUME TypeInv, InStep
      PROVE  [HandlePacket /\ ~cut =>
                 inflight # << >> /\ SubSeq(buf.payload, 1, need) = Head(inflight)]_vars
  <2> SUFFICES ASSUME HandlePacket, ~cut
               PROVE  inflight # << >> /\ SubSeq(buf.payload, 1, need) = Head(inflight)
    OBVIOUS
  <2>1. rd = "payload" /\ got = need
    BY DEF HandlePacket, PayloadRead
  <2> QED
    BY <1>1, <2>1, PacketRead
<1> QED
  BY <1>1, ClientInvariant, PTL DEF Spec, PacketsShownAsSent
==============================================================================
