----------------------- MODULE TelemetryParser_proofs -----------------------
(***************************************************************************)
(* The parser for every set of packets, every number of them and every way *)
(* of cutting their bytes into reads and connections.                      *)
(***************************************************************************)
EXTENDS TelemetryParser, SequenceTheorems, TLAPS

Packet == [type : Byte, data : Seq(Byte)]

\* the data index stays below the length that was announced
IndexBelowLen ==
    /\ parseState = "data" => parsedDataBytes < rxPacket.len
    /\ parseState # "data" => parsedDataBytes = 0

TypeInv ==
    /\ TypeOK /\ IndexBelowLen
    /\ handled \in Seq(Packet) /\ sent \in Seq(Packet)

-----------------------------------------------------------------------------
(* Type correctness. *)

(* The first byte of the wire, and the rest of it.                          *)
LEMMA WireProperties ==
    ASSUME NEW w \in Seq(Byte), w # << >>
    PROVE  /\ Len(w) \in Nat /\ Len(w) >= 1
           /\ Head(w) \in Byte /\ Head(w) = w[1]
           /\ Tail(w) \in Seq(Byte) /\ Len(Tail(w)) = Len(w) - 1
           /\ \A k \in 1 .. Len(w) - 1 : Tail(w)[k] = w[k + 1]
<1>1. Len(w) \in Nat /\ Len(w) >= 1
  BY EmptySeq, LenProperties
<1> QED
  BY <1>1, HeadTailProperties, ElementOfSeq

LEMMA EncodeProperties ==
    ASSUME NEW p \in Packet
    PROVE  /\ Len(p.data) \in Nat /\ Len(Encode(p)) = Len(p.data) + 2
           /\ Encode(p)[1] = p.type /\ Encode(p)[2] = Len(p.data)
           /\ \A k \in 1 .. Len(p.data) : Encode(p)[k + 2] = p.data[k]
           /\ Len(p.data) <= MaxByte => Encode(p) \in Seq(Byte)
<1>1. p.type \in Byte /\ p.data \in Seq(Byte) /\ Len(p.data) \in Nat
  BY LenProperties DEF Packet
<1>2. p.type \in Nat /\ p.data \in Seq(Nat)
  <2>1. \A x \in Byte : x \in Nat
    BY ParserAssumption DEF Byte
  <2>2. \A k \in 1 .. Len(p.data) : p.data[k] \in Byte
    BY <1>1, ElementOfSeq
  <2>3. p.data \in Seq(Nat)
    BY <1>1, <2>1, <2>2, SeqDef, LenProperties
  <2> QED
    BY <1>1, <2>1, <2>3
<1> DEFINE h == <<p.type, Len(p.data)>>
<1>3. h \in Seq(Nat) /\ Len(h) = 2 /\ h[1] = p.type /\ h[2] = Len(p.data)
  BY <1>1, <1>2
<1>4. Len(p.data) <= MaxByte => h \in Seq(Byte)
  BY <1>1, ParserAssumption DEF Byte
<1>5. Encode(p) = h \o p.data
  BY DEF Encode
<1> HIDE DEF h
<1>6. /\ Len(h \o p.data) = Len(h) + Len(p.data)
      /\ \A k \in 1 .. Len(h) + Len(p.data) :
            (h \o p.data)[k] = IF k <= Len(h) THEN h[k] ELSE p.data[k - Len(h)]
  BY <1>2, <1>3, ConcatProperties
<1>7. Len(p.data) <= MaxByte => Encode(p) \in Seq(Byte)
  BY <1>1, <1>4, <1>5, ConcatProperties
<1>8. \A k \in 1 .. Len(p.data) : Encode(p)[k + 2] = p.data[k]
  BY <1>1, <1>3, <1>5, <1>6
<1> QED
  BY <1>1, <1>3, <1>5, <1>6, <1>7, <1>8

(* What a client sends.                                                     *)
LEMMA PacketProperties ==
    ASSUME NEW p \in Packets
    PROVE  p \in Packet /\ Encode(p) \in Seq(Byte)
BY ParserAssumption, EncodeProperties DEF Packet

(* The data bytes received so far, as a packet's data.                      *)
LEMMA DataOfPacket ==
    ASSUME NEW r \in RxPacket
    PROVE  /\ SubSeq(r.data, 1, r.len) \in Seq(Byte)
           /\ Len(SubSeq(r.data, 1, r.len)) = r.len
           /\ \A k \in 1 .. r.len : SubSeq(r.data, 1, r.len)[k] = r.data[k]
<1>1. /\ r.len \in Nat /\ r.len <= MaxByte
      /\ r.data \in [1 .. MaxByte -> Byte]
  BY ParserAssumption DEF RxPacket, Byte
<1>2. r.data \in Seq(Byte) /\ Len(r.data) = MaxByte
  BY <1>1, ParserAssumption, SeqDef, LenProperties
<1>3. \A k \in 1 .. r.len : r.data[k] \in Byte
  <2>1. \A k \in 1 .. r.len : k \in 1 .. MaxByte
    BY <1>1, ParserAssumption
  <2> QED
    BY <1>1, <2>1
<1> QED
  BY <1>1, <1>2, <1>3, SubSeqProperties

LEMMA HandleProperties ==
    ASSUME handled \in Seq(Packet), rxPacket' \in RxPacket, Handle(rxPacket')
    PROVE  /\ handled' \in Seq(Packet) /\ Len(handled') = Len(handled) + 1
           /\ Len(handled) \in Nat
           /\ \A n \in 1 .. Len(handled) : handled'[n] = handled[n]
           /\ handled'[Len(handled) + 1] =
                [type |-> rxPacket'.type, data |-> SubSeq(rxPacket'.data, 1, rxPacket'.len)]
<1>1. PICK r \in RxPacket : r = rxPacket'
  OBVIOUS
<1> DEFINE p == [type |-> r.type, data |-> SubSeq(r.data, 1, r.len)]
<1>2. p \in Packet
  BY DataOfPacket DEF Packet, RxPacket
<1>3. handled' = Append(handled, p)
  BY <1>1 DEF Handle
<1> HIDE DEF p
<1>4. /\ Append(handled, p) \in Seq(Packet) /\ Len(handled) \in Nat
      /\ Len(Append(handled, p)) = Len(handled) + 1
      /\ \A n \in 1 .. Len(handled) : Append(handled, p)[n] = handled[n]
      /\ Append(handled, p)[Len(handled) + 1] = p
  BY <1>2, AppendProperties, LenProperties
<1> QED
  BY <1>1, <1>3, <1>4 DEF p

LEMMA TypeInvInit == Init => TypeInv
<1> SUFFICES ASSUME Init PROVE TypeInv
  OBVIOUS
<1>1. /\ << >> \in Seq(Byte) /\ << >> \in Seq(Packet)
  BY EmptySeq
<1>2. rxPacket \in RxPacket
  BY ParserAssumption DEF Init, RxPacket, Byte
<1>3. desync \in BOOLEAN
  BY Zenon DEF Init
<1> QED
  BY <1>1, <1>2, <1>3, ParserAssumption DEF Init, TypeInv, TypeOK, IndexBelowLen

LEMMA TypeInvStep ==
    ASSUME TypeInv, [Next]_vars
    PROVE  TypeInv'
<1> USE ParserAssumption
<1>0. /\ parseState \in {"type", "len", "data"} /\ rxPacket \in RxPacket
      /\ rxPacket.len \in Nat /\ rxPacket.len <= MaxByte
      /\ parsedDataBytes \in 0 .. MaxByte - 1 /\ wire \in Seq(Byte) /\ desync \in BOOLEAN
      /\ handled \in Seq(Packet) /\ sent \in Seq(Packet) /\ IndexBelowLen
  BY DEF TypeInv, TypeOK, RxPacket, Byte
<1>1. ASSUME NEW p \in Packets, Send(p) PROVE TypeInv'
  <2>1. wire' \in Seq(Byte) /\ sent' \in Seq(Packet)
    BY <1>0, <1>1, PacketProperties, ConcatProperties, AppendProperties DEF Send
  <2> QED
    BY <1>0, <1>1, <2>1 DEF Send, parser, TypeInv, TypeOK, IndexBelowLen
<1>2. CASE Reconnect
  <2>1. desync' \in BOOLEAN
    BY <1>2, Zenon DEF Reconnect
  <2>2. wire' \in Seq(Byte) /\ sent' \in Seq(Packet)
    BY <1>0, <1>2, EmptySeq DEF Reconnect
  <2> QED
    BY <1>0, <1>2, <2>1, <2>2 DEF Reconnect, parser, TypeInv, TypeOK, IndexBelowLen
<1>3. CASE ReadType
  <2>1. Head(wire) \in Byte /\ Tail(wire) \in Seq(Byte)
    BY <1>0, <1>3, WireProperties DEF ReadType
  <2>2. rxPacket' \in RxPacket
    BY <1>0, <1>3, <2>1 DEF ReadType, RxPacket
  <2> QED
    BY <1>0, <1>3, <2>1, <2>2 DEF ReadType, TypeInv, TypeOK, IndexBelowLen
<1>4. CASE ReadLen
  <2>1. Head(wire) \in Byte /\ Tail(wire) \in Seq(Byte)
    BY <1>0, <1>4, WireProperties DEF ReadLen
  <2>2. rxPacket' \in RxPacket /\ rxPacket'.len = Head(wire)
    BY <1>0, <1>4, <2>1 DEF ReadLen, RxPacket
  <2>3. CASE Head(wire) = 0
    <3>1. handled' \in Seq(Packet)
      BY <1>0, <1>4, <2>2, <2>3, HandleProperties DEF ReadLen
    <3> QED
      BY <1>0, <1>4, <2>1, <2>2, <2>3, <3>1
         DEF ReadLen, ResetParseState, TypeInv, TypeOK, IndexBelowLen
  <2>4. CASE Head(wire) # 0
    BY <1>0, <1>4, <2>1, <2>2, <2>4 DEF ReadLen, TypeInv, TypeOK, IndexBelowLen, Byte
  <2> QED
    BY <2>3, <2>4
<1>5. CASE ReadData
  <2>1. Head(wire) \in Byte /\ Tail(wire) \in Seq(Byte)
    BY <1>0, <1>5, WireProperties DEF ReadData
  <2>2. rxPacket' \in RxPacket /\ rxPacket'.len = rxPacket.len
    BY <1>0, <1>5, <2>1 DEF ReadData, RxPacket
  <2>3. CASE parsedDataBytes + 1 >= rxPacket.len
    <3>1. handled' \in Seq(Packet)
      BY <1>0, <1>5, <2>2, <2>3, HandleProperties DEF ReadData
    <3> QED
      BY <1>0, <1>5, <2>1, <2>2, <2>3, <3>1
         DEF ReadData, ResetParseState, TypeInv, TypeOK, IndexBelowLen
  <2>4. CASE ~(parsedDataBytes + 1 >= rxPacket.len)
    BY <1>0, <1>5, <2>1, <2>2, <2>4 DEF ReadData, TypeInv, TypeOK, IndexBelowLen
  <2> QED
    BY <2>3, <2>4
<1>6. CASE UNCHANGED vars
  BY <1>0, <1>6 DEF vars, parser, TypeInv, TypeOK, IndexBelowLen
<1> QED
  BY <1>1, <1>2, <1>3, <1>4, <1>5, <1>6 DEF Next, ParseByte

(* parseByte never stores outside of data[255], whatever bytes it is given, *)
(* wherever connections break.                                              *)
THEOREM ParserTypeCorrect == Spec => []TypeOK
<1>1. TypeInv => TypeOK
  BY DEF TypeInv
<1> QED
  BY <1>1, TypeInvInit, TypeInvStep, PTL DEF Spec
-----------------------------------------------------------------------------
(* The bytes on the wire and the packets they belong to.  Byte number b is  *)
(* the last one read; packet n's bytes follow byte number start[n].         *)

\* the bytes of packet p in w, those that were read already left out
Written(w, b, p, from) ==
    \A k \in 1 .. Len(Encode(p)) : from + k > b => w[from + k - b] = Encode(p)[k]

\* the packets of s after the first h make up w
Framed(w, b, start, s, h) ==
    /\ start[Len(s) + 1] = b + Len(w)
    /\ \A n \in h + 1 .. Len(s) :
          /\ start[n + 1] = start[n] + Len(Encode(s[n]))
          /\ start[n + 1] <= b + Len(w)
          /\ Written(w, b, s[n], start[n])

\* what the parser has of the packet it is in
InPacket(p) ==
    /\ parseState # "type" => rxPacket.type = p.type
    /\ parseState = "data" =>
          /\ rxPacket.len = Len(p.data)
          /\ \A k \in 1 .. parsedDataBytes : rxPacket.data[k] = p.data[k]

Progress ==
    CASE parseState = "type" -> 0
      [] parseState = "len"  -> 1
      [] parseState = "data" -> 2 + parsedDataBytes

HandledWasSent ==
    /\ Len(handled) <= Len(sent)
    /\ \A n \in 1 .. Len(handled) : handled[n] = sent[n]

\* b is q bytes after the packet number h
At(b, start, h, q) == b = start[h + 1] + q

InStep(b, start) ==
    /\ Framed(wire, b, start, sent, Len(handled))
    /\ At(b, start, Len(handled), Progress)
    /\ parseState # "type" => Len(handled) < Len(sent)
    /\ Len(handled) < Len(sent) => InPacket(sent[Len(handled) + 1])

Synchronised ==
    ~desync => HandledWasSent /\ \E b \in Nat, start \in [Nat -> Nat] : InStep(b, start)

LEMMA SyncInit == Init => Synchronised
<1> SUFFICES ASSUME Init PROVE Synchronised
  OBVIOUS
<1> DEFINE zero == [n \in Nat |-> 0]
<1>1. Len(handled) = 0 /\ Len(sent) = 0 /\ Len(wire) = 0 /\ parseState = "type"
  BY DEF Init
<1>2. zero \in [Nat -> Nat] /\ zero[1] = 0
  OBVIOUS
<1>3. InStep(0, zero)
  BY <1>1, <1>2 DEF InStep, Framed, At, Progress
<1> QED
  BY <1>1, <1>2, <1>3 DEF Synchronised, HandledWasSent

(* Reading one byte moves every byte of the pending packets one place.      *)
LEMMA ShiftBytes ==
    ASSUME NEW w \in Seq(Byte), w # << >>, NEW b \in Nat, NEW from \in Nat,
           NEW p \in Packet, from + Len(Encode(p)) <= b + Len(w), Written(w, b, p, from)
    PROVE  Written(Tail(w), b + 1, p, from)
<1> DEFINE l == Len(Encode(p))
           m == Len(w)
<1>1. l \in Nat /\ m \in Nat /\ from + l <= b + m
  BY EncodeProperties, LenProperties
<1>2. \A j \in 1 .. m - 1 : Tail(w)[j] = w[j + 1]
  BY WireProperties
<1>3. \A k \in 1 .. l : from + k > b => w[from + k - b] = Encode(p)[k]
  BY DEF Written
<1> HIDE DEF l, m
<1>4. ASSUME NEW k \in 1 .. l, from + k > b + 1
      PROVE  Tail(w)[from + k - (b + 1)] = Encode(p)[k]
  <2> DEFINE j == from + k - (b + 1)
  <2>1. j \in 1 .. m - 1 /\ j + 1 = from + k - b /\ from + k > b
    BY <1>1, <1>4
  <2> HIDE DEF j
  <2>2. Tail(w)[j] = w[j + 1]
    BY <1>2, <2>1
  <2>3. w[j + 1] = Encode(p)[k]
    BY <1>3, <2>1
  <2> QED
    BY <2>2, <2>3 DEF j
<1> QED
  BY <1>4 DEF Written, l

LEMMA ShiftFrame ==
    ASSUME NEW w \in Seq(Byte), w # << >>, NEW b \in Nat, NEW start \in [Nat -> Nat],
           NEW s \in Seq(Packet), NEW h \in Nat, Framed(w, b, start, s, h)
    PROVE  Framed(Tail(w), b + 1, start, s, h)
<1>1. Len(w) \in Nat /\ Len(Tail(w)) = Len(w) - 1 /\ Len(s) \in Nat
  BY WireProperties, LenProperties
<1>2. (b + 1) + Len(Tail(w)) = b + Len(w)
  BY <1>1
<1>3. ASSUME NEW n \in h + 1 .. Len(s)
      PROVE  Written(Tail(w), b + 1, s[n], start[n])
  <2>1. n \in Nat /\ n \in 1 .. Len(s)
    BY <1>1
  <2>2. s[n] \in Packet
    BY <2>1, ElementOfSeq
  <2>3. /\ start[n] \in Nat /\ start[n] + Len(Encode(s[n])) <= b + Len(w)
        /\ Written(w, b, s[n], start[n])
    BY <2>1 DEF Framed
  <2> QED
    BY <2>2, <2>3, ShiftBytes
<1> QED
  BY <1>2, <1>3 DEF Framed

(* Writing a packet puts its bytes behind the others.                       *)
LEMMA KeepBytes ==
    ASSUME NEW w \in Seq(Byte), NEW e \in Seq(Byte), NEW b \in Nat, NEW from \in Nat,
           NEW p \in Packet, from + Len(Encode(p)) <= b + Len(w), Written(w, b, p, from)
    PROVE  Written(w \o e, b, p, from)
<1> DEFINE l == Len(Encode(p))
           m == Len(w)
<1>1. l \in Nat /\ m \in Nat /\ from + l <= b + m
  BY EncodeProperties, LenProperties
<1>2. \A j \in 1 .. m : (w \o e)[j] = w[j]
  BY ConcatProperties, LenProperties
<1>3. \A k \in 1 .. l : from + k > b => w[from + k - b] = Encode(p)[k]
  BY DEF Written
<1> HIDE DEF l, m
<1>4. ASSUME NEW k \in 1 .. l, from + k > b
      PROVE  (w \o e)[from + k - b] = Encode(p)[k]
  <2>1. from + k - b \in 1 .. m
    BY <1>1, <1>4
  <2> QED
    BY <1>2, <1>3, <1>4, <2>1
<1> QED
  BY <1>4 DEF Written, l

LEMMA AddBytes ==
    ASSUME NEW w \in Seq(Byte), NEW p \in Packets, NEW b \in Nat
    PROVE  Written(w \o Encode(p), b, p, b + Len(w))
<1> DEFINE e == Encode(p)
           m == Len(w)
<1>1. e \in Seq(Byte) /\ m \in Nat /\ Len(e) \in Nat
  BY PacketProperties, LenProperties
<1> HIDE DEF e
<1>2. \A j \in 1 .. m + Len(e) : (w \o e)[j] = IF j <= m THEN w[j] ELSE e[j - m]
  BY <1>1, ConcatProperties
<1> HIDE DEF m
<1>3. ASSUME NEW k \in 1 .. Len(e) PROVE (w \o e)[(b + m) + k - b] = e[k]
  <2>1. (b + m) + k - b = m + k /\ m + k \in 1 .. m + Len(e) /\ ~(m + k <= m) /\ (m + k) - m = k
    BY <1>1
  <2> QED
    BY <1>2, <2>1
<1> QED
  BY <1>3 DEF Written, e, m

LEMMA SendFrame ==
    ASSUME NEW w \in Seq(Byte), NEW b \in Nat, NEW start \in [Nat -> Nat],
           NEW s \in Seq(Packet), NEW h \in Nat, h <= Len(s), NEW p \in Packets,
           Framed(w, b, start, s, h)
    PROVE  \E next \in [Nat -> Nat] :
              /\ next[h + 1] = start[h + 1]
              /\ Framed(w \o Encode(p), b, next, Append(s, p), h)
<1> DEFINE S == Len(s)
           L == Len(w)
           e == Encode(p)
           E == Len(e)
           v == w \o e
           u == Append(s, p)
           next == [start EXCEPT ![S + 2] = start[S + 1] + E]
<1>1. S \in Nat /\ L \in Nat /\ h <= S
  BY LenProperties
<1>2. e \in Seq(Byte) /\ E \in Nat /\ p \in Packet
  BY PacketProperties, LenProperties
<1>3. Len(u) = S + 1 /\ u[S + 1] = p /\ \A n \in 1 .. S : u[n] = s[n]
  BY <1>2, AppendProperties
<1>4. Len(v) = L + E
  BY <1>2, ConcatProperties
<1>5. /\ start[S + 1] = b + L
      /\ \A n \in h + 1 .. S :
            /\ start[n + 1] = start[n] + Len(Encode(s[n]))
            /\ start[n + 1] <= b + L
            /\ Written(w, b, s[n], start[n])
  BY DEF Framed
<1>6. Written(v, b, p, b + L)
  BY AddBytes
<1>7. \A n \in 1 .. S : s[n] \in Packet
  BY ElementOfSeq
<1>8. ASSUME NEW n \in h + 1 .. S PROVE Written(v, b, s[n], start[n])
  <2>1. n \in Nat /\ n \in 1 .. S
    BY <1>1
  <2>2. /\ s[n] \in Packet /\ start[n] \in Nat
        /\ start[n] + Len(Encode(s[n])) <= b + L /\ Written(w, b, s[n], start[n])
    BY <1>5, <1>7, <2>1
  <2> QED
    BY <1>2, <2>2, KeepBytes
<1> HIDE DEF S, L, e, E, v, u
<1>9. start[S + 1] + E \in Nat /\ S + 2 \in Nat
  <2>1. S + 1 \in Nat /\ S + 2 \in Nat
    BY <1>1
  <2> DEFINE x == start[S + 1]
  <2>2. x \in Nat
    BY <2>1
  <2> HIDE DEF x
  <2>3. x + E \in Nat
    BY <1>2, <2>2
  <2> QED
    BY <2>1, <2>3 DEF x
<1>10. /\ next \in [Nat -> Nat] /\ next[S + 2] = start[S + 1] + E
       /\ \A n \in Nat : n # S + 2 => next[n] = start[n]
  BY <1>9
<1> HIDE DEF next
<1>11. ASSUME NEW n \in h + 1 .. S + 1
       PROVE  /\ next[n + 1] = next[n] + Len(Encode(u[n]))
              /\ next[n + 1] <= b + Len(v)
              /\ Written(v, b, u[n], next[n])
  <2>1. CASE n = S + 1
    <3>1. S + 1 \in Nat /\ S + 1 # S + 2 /\ (S + 1) + 1 = S + 2
      BY <1>1
    <3>2. next[n] = b + L /\ next[n + 1] = (b + L) + E /\ u[n] = p
      BY <1>3, <1>5, <1>10, <2>1, <3>1
    <3>3. (b + L) + E <= b + Len(v)
      BY <1>1, <1>2, <1>4
    <3> QED
      BY <1>6, <3>2, <3>3 DEF E, e
  <2>2. CASE n # S + 1
    <3>1. /\ n \in Nat /\ n \in 1 .. S /\ n \in h + 1 .. S /\ n # S + 2
          /\ n + 1 \in Nat /\ n + 1 # S + 2
      BY <1>1, <2>2
    <3>2. next[n] = start[n] /\ next[n + 1] = start[n + 1] /\ u[n] = s[n]
      BY <1>3, <1>10, <3>1
    <3>3. /\ start[n + 1] = start[n] + Len(Encode(s[n]))
          /\ start[n + 1] <= b + L /\ start[n + 1] \in Nat
      BY <1>5, <3>1
    <3>4. start[n + 1] <= b + Len(v)
      BY <1>1, <1>2, <1>4, <3>3
    <3>5. Written(v, b, s[n], start[n])
      BY <1>8, <3>1
    <3> QED
      BY <3>2, <3>3, <3>4, <3>5
  <2> QED
    BY <2>1, <2>2
<1>12. next[Len(u) + 1] = b + Len(v) /\ next[h + 1] = start[h + 1]
  BY <1>1, <1>2, <1>3, <1>4, <1>5, <1>10
<1>13. Framed(v, b, next, u, h)
  BY <1>3, <1>11, <1>12 DEF Framed
<1> QED
  BY <1>10, <1>12, <1>13 DEF u, v, e

(* Place and length arithmetic of the byte that follows.                     *)
LEMMA OneByteOn ==
    ASSUME NEW x \in Nat, NEW q \in Nat, NEW l \in Nat, NEW b \in Nat, b = x + q, q < l
    PROVE  q + 1 \in 1 .. l /\ x + (q + 1) > b /\ x + (q + 1) - b = 1
OBVIOUS

\* b is q bytes into the packet after the first h
Within(b, start, s, h, q) ==
    /\ At(b, start, h, q)
    /\ h = Len(s) => q = 0
    /\ h < Len(s) => q < Len(Encode(s[h + 1]))

(* The byte that is read next is the one the parser is waiting for.         *)
LEMMA NextByte ==
    ASSUME NEW w \in Seq(Byte), w # << >>, NEW b \in Nat, NEW start \in [Nat -> Nat],
           NEW s \in Seq(Packet), NEW h \in Nat, h <= Len(s), Framed(w, b, start, s, h),
           NEW q \in Nat, Within(b, start, s, h, q)
    PROVE  /\ h < Len(s) /\ s[h + 1] \in Packet
           /\ Head(w) = Encode(s[h + 1])[q + 1]
<1> DEFINE S == Len(s)
           L == Len(w)
           p == s[h + 1]
           E == Len(Encode(p))
<1>0. /\ b = start[h + 1] + q
      /\ h = S => q = 0
      /\ h < S => q < E
  BY DEF Within, At
<1>1. S \in Nat /\ L \in Nat /\ L >= 1 /\ h + 1 \in Nat /\ start[h + 1] \in Nat
  <2>1. S \in Nat /\ L \in Nat /\ L >= 1
    BY LenProperties, WireProperties
  <2>2. h + 1 \in Nat
    OBVIOUS
  <2> QED
    BY <2>1, <2>2
<1>2. start[S + 1] = b + L
  BY DEF Framed
<1>3. h < S
  <2>1. CASE h = S
    <3>1. b = start[h + 1] /\ start[h + 1] = b + L
      BY <1>0, <1>1, <1>2, <2>1
    <3> QED
      BY <1>1, <3>1
  <2> QED
    BY <1>1, <2>1
<1>4. h + 1 \in h + 1 .. S /\ h + 1 \in 1 .. S
  BY <1>1, <1>3
<1>5. p \in Packet
  BY <1>4, ElementOfSeq
<1>6. E \in Nat /\ q < E
  BY <1>0, <1>3, <1>5, EncodeProperties
<1>7. \A k \in 1 .. E : start[h + 1] + k > b => w[start[h + 1] + k - b] = Encode(p)[k]
  BY <1>4 DEF Framed, Written
<1> HIDE DEF E, p
<1>8. /\ q + 1 \in 1 .. E /\ start[h + 1] + (q + 1) > b
      /\ start[h + 1] + (q + 1) - b = 1
  <2> DEFINE x == start[h + 1]
  <2>1. x \in Nat /\ b = x + q
    BY <1>0, <1>1
  <2> HIDE DEF x
  <2>2. q + 1 \in 1 .. E /\ x + (q + 1) > b /\ x + (q + 1) - b = 1
    BY <1>6, <2>1, OneByteOn
  <2> QED
    BY <2>2 DEF x
<1>9. w[1] = Encode(p)[q + 1]
  BY <1>7, <1>8
<1>10. Head(w) = w[1]
  BY WireProperties
<1> QED
  BY <1>3, <1>5, <1>9, <1>10 DEF p

\* b is the last byte of the packet after the first h
AtEnd(b, start, s, h) ==
    /\ h < Len(s)
    /\ b = start[h + 1] + Len(Encode(s[h + 1]))

(* One byte on in the packet, possibly to its end.                          *)
LEMMA NextPlace ==
    ASSUME NEW b \in Nat, NEW start \in [Nat -> Nat], NEW h \in Nat, NEW q \in Nat,
           At(b, start, h, q)
    PROVE  /\ b + 1 \in Nat /\ At(b + 1, start, h, q + 1)
           /\ \A s : h < Len(s) /\ q + 1 = Len(Encode(s[h + 1])) => AtEnd(b + 1, start, s, h)
<1> DEFINE x == start[h + 1]
<1>1. h + 1 \in Nat
  OBVIOUS
<1>2. x \in Nat /\ b = x + q
  BY <1>1 DEF At
<1> HIDE DEF x
<1>3. b + 1 \in Nat /\ b + 1 = x + (q + 1)
  BY <1>2
<1> QED
  BY <1>3 DEF At, AtEnd, x

(* A packet that was read completely is framed no more.                     *)
LEMMA NextFrame ==
    ASSUME NEW w, NEW b \in Nat, NEW start \in [Nat -> Nat], NEW s \in Seq(Packet),
           NEW h \in Nat, Framed(w, b, start, s, h), AtEnd(b, start, s, h)
    PROVE  Framed(w, b, start, s, h + 1) /\ At(b, start, h + 1, 0)
<1> DEFINE S == Len(s)
<1>1. S \in Nat /\ h < S
  BY LenProperties DEF AtEnd
<1> HIDE DEF S
<1>2. h + 1 \in h + 1 .. S /\ \A n \in (h + 1) + 1 .. S : n \in h + 1 .. S
  BY <1>1
<1>3. b = start[(h + 1) + 1]
  BY <1>2 DEF Framed, AtEnd, S
<1>4. At(b, start, h + 1, 0)
  <2>1. b + 0 = b
    OBVIOUS
  <2> QED
    BY <1>3, <2>1 DEF At
<1>5. Framed(w, b, start, s, h + 1)
  BY <1>2 DEF Framed, S
<1> QED
  BY <1>4, <1>5

(* The packet that is handed on is the one that was sent.                   *)
LEMMA HandledIsSent ==
    ASSUME TypeInv, TypeInv', HandledWasSent, Handle(rxPacket'), sent' = sent,
           Len(handled) < Len(sent), NEW p \in Packet, p = sent[Len(handled) + 1],
           rxPacket'.type = p.type, rxPacket'.len = Len(p.data),
           \A k \in 1 .. Len(p.data) : rxPacket'.data[k] = p.data[k]
    PROVE  HandledWasSent' /\ Len(handled') = Len(handled) + 1
<1>0. handled \in Seq(Packet) /\ sent \in Seq(Packet) /\ rxPacket' \in RxPacket
  BY DEF TypeInv, TypeOK
<1>1. PICK r \in RxPacket : r = rxPacket'
  BY <1>0
<1> DEFINE d == SubSeq(r.data, 1, r.len)
<1>2. /\ d \in Seq(Byte) /\ Len(d) = Len(p.data)
      /\ \A k \in 1 .. Len(p.data) : d[k] = p.data[k]
  BY <1>1, DataOfPacket
<1>3. p.data \in Seq(Byte) /\ p = [type |-> p.type, data |-> p.data]
  BY DEF Packet
<1> HIDE DEF d
<1>4. d = p.data
  BY <1>2, <1>3, SeqEqual
<1>5. /\ Len(handled') = Len(handled) + 1 /\ Len(handled) \in Nat
      /\ \A n \in 1 .. Len(handled) : handled'[n] = handled[n]
      /\ handled'[Len(handled) + 1] = [type |-> r.type, data |-> d]
  BY <1>0, <1>1, HandleProperties DEF d
<1>6. handled'[Len(handled) + 1] = sent[Len(handled) + 1]
  BY <1>1, <1>3, <1>4, <1>5
<1>7. Len(sent) \in Nat
  BY <1>0, LenProperties
<1>8. ASSUME NEW n \in 1 .. Len(handled) + 1 PROVE handled'[n] = sent[n]
  <2>1. CASE n = Len(handled) + 1
    BY <1>6, <2>1
  <2>2. CASE n # Len(handled) + 1
    <3>1. n \in 1 .. Len(handled)
      BY <1>5, <2>2
    <3> QED
      BY <1>5, <3>1 DEF HandledWasSent
  <2> QED
    BY <2>1, <2>2
<1> QED
  BY <1>5, <1>7, <1>8 DEF HandledWasSent

-----------------------------------------------------------------------------
(* The steps. *)

LEMMA SendKeepsSync ==
    ASSUME TypeInv, Synchronised, NEW p \in Packets, Send(p)
    PROVE  Synchronised'
<1> SUFFICES ASSUME ~desync PROVE Synchronised'
  BY DEF Send, Synchronised
<1>0. handled \in Seq(Packet) /\ sent \in Seq(Packet) /\ wire \in Seq(Byte) /\ p \in Packet
  BY PacketProperties DEF TypeInv, TypeOK
<1>1. PICK b \in Nat, start \in [Nat -> Nat] : HandledWasSent /\ InStep(b, start)
  BY DEF Synchronised
<1> DEFINE H == Len(handled)
           S == Len(sent)
<1>2. H \in Nat /\ S \in Nat /\ H <= S /\ \A n \in 1 .. H : handled[n] = sent[n]
  BY <1>0, <1>1, LenProperties DEF HandledWasSent
<1>3. Framed(wire, b, start, sent, H)
  BY <1>1 DEF InStep
<1>4. PICK next \in [Nat -> Nat] :
         /\ next[H + 1] = start[H + 1]
         /\ Framed(wire \o Encode(p), b, next, Append(sent, p), H)
  BY <1>0, <1>2, <1>3, SendFrame
<1>5. /\ Len(Append(sent, p)) = S + 1
      /\ \A n \in 1 .. S : Append(sent, p)[n] = sent[n]
  BY <1>0, AppendProperties
<1>6. /\ wire' = wire \o Encode(p) /\ sent' = Append(sent, p) /\ handled' = handled
      /\ parseState' = parseState /\ rxPacket' = rxPacket /\ desync' = desync
      /\ parsedDataBytes' = parsedDataBytes
  BY DEF Send, parser
<1>7. HandledWasSent'
  <2>1. Len(handled') = H /\ Len(sent') = S + 1
    BY <1>5, <1>6
  <2>2. \A n \in 1 .. H : handled'[n] = sent'[n]
    BY <1>2, <1>5, <1>6
  <2> HIDE DEF H, S
  <2>3. H <= S + 1
    BY <1>2
  <2> QED
    BY <2>1, <2>2, <2>3 DEF HandledWasSent
<1>8. InStep(b, next)'
  <2>1. Framed(wire', b, next, sent', Len(handled'))
    BY <1>4, <1>6
  <2>2. At(b, next, Len(handled'), Progress')
    BY <1>1, <1>4, <1>6 DEF InStep, At, Progress
  <2>3. H < S + 1 /\ Len(sent') = S + 1 /\ Len(handled') = H
    <3>1. Len(sent') = S + 1 /\ Len(handled') = H
      BY <1>5, <1>6
    <3> HIDE DEF H, S
    <3> QED
      BY <1>2, <3>1
  <2>4. InPacket(sent[Len(handled) + 1])'
    <3>1. CASE H < S
      <4>1. H + 1 \in 1 .. S
        <5> HIDE DEF H, S
        <5> QED
          BY <1>2, <3>1
      <4>2. sent'[Len(handled') + 1] = sent[H + 1]
        BY <1>5, <1>6, <4>1
      <4>3. InPacket(sent[H + 1])
        BY <1>1, <3>1 DEF InStep
      <4> QED
        BY <1>6, <4>2, <4>3 DEF InPacket
    <3>2. CASE ~(H < S)
      <4>1. parseState = "type"
        BY <1>1, <3>2 DEF InStep
      <4> QED
        BY <1>6, <4>1 DEF InPacket
    <3> QED
      BY <3>1, <3>2
  <2> QED
    BY <2>1, <2>2, <2>3, <2>4 DEF InStep
<1> QED
  BY <1>7, <1>8 DEF Synchronised

LEMMA ReconnectKeepsSync ==
    ASSUME TypeInv, Synchronised, Reconnect
    PROVE  Synchronised'
<1> SUFFICES ASSUME ~desync' PROVE Synchronised'
  BY DEF Synchronised
<1> DEFINE zero == [n \in Nat |-> 0]
           H == Len(handled)
<1>1. parseState = "type"
  BY DEF Reconnect
<1>2. /\ wire' = << >> /\ sent' = handled /\ handled' = handled /\ parseState' = "type"
      /\ Len(<< >>) = 0 /\ H \in Nat
  BY <1>1, LenProperties DEF Reconnect, parser, TypeInv
<1>3. zero \in [Nat -> Nat] /\ zero[H + 1] = 0
  BY <1>2
<1> HIDE DEF zero
<1>4. Framed(<< >>, 0, zero, handled, H)
  <2>1. \A n \in H + 1 .. H : FALSE
    BY <1>2
  <2> QED
    BY <1>2, <1>3, <2>1 DEF Framed
<1>5. InStep(0, zero)'
  <2>1. Progress' = 0
    BY <1>2 DEF Progress
  <2>2. Framed(wire', 0, zero, sent', Len(handled'))
    BY <1>2, <1>4
  <2>3. At(0, zero, Len(handled'), Progress')
    BY <1>2, <1>3, <2>1 DEF At
  <2>4. InPacket(sent[Len(handled) + 1])'
    BY <1>2 DEF InPacket
  <2> QED
    BY <1>2, <2>2, <2>3, <2>4 DEF InStep
<1>6. HandledWasSent'
  BY <1>2 DEF HandledWasSent
<1> QED
  BY <1>3, <1>5, <1>6 DEF Synchronised

(* Where the parser stands before it reads a byte.                          *)
LEMMA BeforeByte ==
    ASSUME TypeInv, Synchronised, ~desync, wire # << >>
    PROVE  \E b \in Nat, start \in [Nat -> Nat], p \in Packet :
              /\ HandledWasSent /\ InPacket(p)
              /\ Len(handled) \in Nat /\ Len(handled) < Len(sent)
              /\ p = sent[Len(handled) + 1]
              /\ Framed(Tail(wire), b + 1, start, sent, Len(handled))
              /\ Progress \in Nat /\ At(b, start, Len(handled), Progress)
              /\ Head(wire) = Encode(p)[Progress + 1]
<1>0. /\ handled \in Seq(Packet) /\ sent \in Seq(Packet) /\ wire \in Seq(Byte)
      /\ parseState \in {"type", "len", "data"} /\ parsedDataBytes \in Nat
      /\ parseState = "data" => parsedDataBytes < rxPacket.len
  BY ParserAssumption DEF TypeInv, TypeOK, IndexBelowLen
<1>1. PICK b \in Nat, start \in [Nat -> Nat] : HandledWasSent /\ InStep(b, start)
  BY DEF Synchronised
<1> DEFINE H == Len(handled)
           S == Len(sent)
           q == Progress
           p == sent[H + 1]
<1>2. H \in Nat /\ S \in Nat /\ H <= S
  BY <1>0, <1>1, LenProperties DEF HandledWasSent
<1>3. /\ q \in Nat
      /\ parseState = "type" => q = 0
      /\ parseState = "len"  => q = 1
      /\ parseState = "data" => q = 2 + parsedDataBytes
  <2>1. CASE parseState = "type"
    BY <2>1 DEF Progress
  <2>2. CASE parseState = "len"
    BY <2>2 DEF Progress
  <2>3. CASE parseState = "data"
    <3>1. q = 2 + parsedDataBytes
      BY <2>3 DEF Progress
    <3> HIDE DEF q
    <3>2. q \in Nat
      BY <1>0, <3>1
    <3> QED
      BY <2>3, <3>1, <3>2
  <2> QED
    BY <1>0, <2>1, <2>2, <2>3
<1>4. /\ Framed(wire, b, start, sent, H) /\ At(b, start, H, q)
      /\ parseState # "type" => H < S
      /\ H < S => InPacket(p)
  BY <1>1 DEF InStep
<1>5. H = S => q = 0
  BY <1>2, <1>3, <1>4
<1>6. ASSUME H < S PROVE q < Len(Encode(p))
  <2>1. p \in Packet
    <3>1. H + 1 \in 1 .. S
      BY <1>2, <1>6
    <3> QED
      BY <1>0, <3>1, ElementOfSeq
  <2> DEFINE l == Len(p.data)
  <2>2. l \in Nat /\ Len(Encode(p)) = l + 2
    BY <2>1, EncodeProperties
  <2>3. parseState = "data" => parsedDataBytes < l
    BY <1>0, <1>4, <1>6 DEF InPacket
  <2> HIDE DEF l, q
  <2>4. q < l + 2
    BY <1>0, <1>3, <2>2, <2>3
  <2> QED
    BY <2>2, <2>4
<1> HIDE DEF q
<1>7. H < S /\ p \in Packet /\ Head(wire) = Encode(p)[q + 1]
  <2>1. PICK w \in Seq(Byte), s \in Seq(Packet), h \in Nat, k \in Nat :
           w = wire /\ s = sent /\ h = H /\ k = q
    BY <1>0, <1>2, <1>3
  <2>2. /\ w # << >> /\ h <= Len(s) /\ Framed(w, b, start, s, h)
        /\ Within(b, start, s, h, k)
    BY <1>2, <1>4, <1>5, <1>6, <2>1 DEF Within
  <2>3. /\ h < Len(s) /\ s[h + 1] \in Packet
        /\ Head(w) = Encode(s[h + 1])[k + 1]
    BY <2>2, NextByte
  <2> QED
    BY <2>1, <2>3
<1>8. Framed(Tail(wire), b + 1, start, sent, H)
  BY <1>0, <1>2, <1>4, ShiftFrame
<1> HIDE DEF p, H, S
<1>9. /\ HandledWasSent /\ InPacket(p) /\ H \in Nat /\ H < S
      /\ Framed(Tail(wire), b + 1, start, sent, H)
      /\ q \in Nat /\ At(b, start, H, q)
      /\ Head(wire) = Encode(p)[q + 1]
  BY <1>1, <1>2, <1>3, <1>4, <1>7, <1>8
<1> QED
  BY <1>7, <1>9 DEF p, H, S, q

(* A byte that does not complete a packet.                                  *)
LEMMA WithinPacket ==
    ASSUME NEW b \in Nat, NEW start \in [Nat -> Nat],
           Framed(Tail(wire), b + 1, start, sent, Len(handled)),
           Progress \in Nat, At(b, start, Len(handled), Progress),
           Len(handled) \in Nat, Len(handled) < Len(sent), HandledWasSent,
           wire' = Tail(wire), sent' = sent, handled' = handled,
           Progress' = Progress + 1, InPacket(sent[Len(handled) + 1])'
    PROVE  Synchronised'
<1>1. b + 1 \in Nat /\ At(b + 1, start, Len(handled), Progress')
  <2>1. PICK h \in Nat, q \in Nat : h = Len(handled) /\ q = Progress
    OBVIOUS
  <2>2. b + 1 \in Nat /\ At(b + 1, start, h, q + 1)
    BY <2>1, NextPlace
  <2> QED
    BY <2>1, <2>2
<1>2. InStep(b + 1, start)'
  BY <1>1 DEF InStep
<1>3. HandledWasSent'
  BY DEF HandledWasSent
<1> QED
  BY <1>1, <1>2, <1>3 DEF Synchronised

(* The byte that completes a packet.                                        *)
LEMMA EndOfPacket ==
    ASSUME NEW b \in Nat, NEW start \in [Nat -> Nat],
           Framed(Tail(wire), b + 1, start, sent, Len(handled)),
           Progress \in Nat, At(b, start, Len(handled), Progress),
           Len(handled) \in Nat, Len(handled) < Len(sent), sent \in Seq(Packet),
           HandledWasSent', Len(handled') = Len(handled) + 1,
           wire' = Tail(wire), sent' = sent, parseState' = "type",
           Progress + 1 = Len(Encode(sent[Len(handled) + 1]))
    PROVE  Synchronised'
<1>1. PICK s \in Seq(Packet), h \in Nat, q \in Nat :
         s = sent /\ h = Len(handled) /\ q = Progress
  OBVIOUS
<1>2. PICK w : w = Tail(wire)
  OBVIOUS
<1>3. h < Len(s) /\ q + 1 = Len(Encode(s[h + 1])) /\ At(b, start, h, q)
  BY <1>1
<1>4. PICK c \in Nat : c = b + 1 /\ AtEnd(c, start, s, h)
  BY <1>3, NextPlace
<1>5. Framed(w, c, start, s, h + 1) /\ At(c, start, h + 1, 0)
  <2>1. Framed(w, c, start, s, h)
    BY <1>1, <1>2, <1>4
  <2> QED
    BY <1>4, <2>1, NextFrame
<1>6. Progress' = 0
  BY DEF Progress
<1>7. InPacket(sent[Len(handled) + 1])'
  BY DEF InPacket
<1>8. Len(handled') = h + 1 /\ sent' = s /\ wire' = w
  BY <1>1, <1>2
<1>9. InStep(c, start)'
  BY <1>5, <1>6, <1>7, <1>8 DEF InStep
<1> QED
  BY <1>9 DEF Synchronised

LEMMA ReadTypeKeepsSync ==
    ASSUME TypeInv, Synchronised, ReadType
    PROVE  Synchronised'
<1> SUFFICES ASSUME ~desync PROVE Synchronised'
  BY DEF ReadType, Synchronised
<1>1. PICK b \in Nat, start \in [Nat -> Nat], p \in Packet :
              /\ HandledWasSent /\ InPacket(p)
              /\ Len(handled) \in Nat /\ Len(handled) < Len(sent)
              /\ p = sent[Len(handled) + 1]
              /\ Framed(Tail(wire), b + 1, start, sent, Len(handled))
              /\ Progress \in Nat /\ At(b, start, Len(handled), Progress)
              /\ Head(wire) = Encode(p)[Progress + 1]
  BY BeforeByte DEF ReadType
<1>2. /\ wire' = Tail(wire) /\ sent' = sent /\ handled' = handled /\ parseState' = "len"
      /\ parseState = "type" /\ rxPacket' = [rxPacket EXCEPT !.type = Head(wire)]
      /\ rxPacket \in RxPacket
  BY DEF ReadType, TypeInv, TypeOK
<1>3. Progress = 0 /\ Progress' = 1
  BY <1>2 DEF Progress
<1>4. Head(wire) = p.type
  <2>1. Progress + 1 = 1
    BY <1>3
  <2> QED
    BY <1>1, <2>1, EncodeProperties
<1>5. rxPacket'.type = p.type
  BY <1>2, <1>4 DEF RxPacket
<1>6. InPacket(sent[Len(handled) + 1])'
  BY <1>1, <1>2, <1>5 DEF InPacket
<1>7. Progress' = Progress + 1
  BY <1>3
<1> QED
  BY <1>1, <1>2, <1>6, <1>7, WithinPacket

LEMMA ReadLenKeepsSync ==
    ASSUME TypeInv, TypeInv', Synchronised, ReadLen
    PROVE  Synchronised'
<1> SUFFICES ASSUME ~desync PROVE Synchronised'
  BY DEF ReadLen, Synchronised
<1>1. PICK b \in Nat, start \in [Nat -> Nat], p \in Packet :
              /\ HandledWasSent /\ InPacket(p)
              /\ Len(handled) \in Nat /\ Len(handled) < Len(sent)
              /\ p = sent[Len(handled) + 1]
              /\ Framed(Tail(wire), b + 1, start, sent, Len(handled))
              /\ Progress \in Nat /\ At(b, start, Len(handled), Progress)
              /\ Head(wire) = Encode(p)[Progress + 1]
  BY BeforeByte DEF ReadLen
<1>2. /\ wire' = Tail(wire) /\ sent' = sent /\ parseState = "len" /\ parsedDataBytes = 0
      /\ rxPacket' = [rxPacket EXCEPT !.len = Head(wire)]
      /\ rxPacket \in RxPacket /\ sent \in Seq(Packet)
  BY DEF ReadLen, TypeInv, TypeOK, IndexBelowLen
<1>3. Progress = 1
  BY <1>2 DEF Progress
<1>4. Head(wire) = Len(p.data) /\ Len(p.data) \in Nat /\ Len(Encode(p)) = Len(p.data) + 2
  <2>1. Progress + 1 = 2
    BY <1>3
  <2> QED
    BY <1>1, <2>1, EncodeProperties
<1>5. rxPacket'.len = Len(p.data) /\ rxPacket'.type = p.type
  BY <1>1, <1>2, <1>4 DEF RxPacket, InPacket
<1>6. CASE Head(wire) = 0
  <2>1. Len(p.data) = 0 /\ Handle(rxPacket') /\ parseState' = "type"
    BY <1>4, <1>6 DEF ReadLen, ResetParseState
  <2>2. HandledWasSent' /\ Len(handled') = Len(handled) + 1
    <3>1. \A k \in 1 .. Len(p.data) : rxPacket'.data[k] = p.data[k]
      BY <2>1
    <3> QED
      BY <1>1, <1>2, <1>5, <2>1, <3>1, HandledIsSent
  <2>3. Progress + 1 = Len(Encode(sent[Len(handled) + 1]))
    BY <1>1, <1>3, <1>4, <2>1
  <2> QED
    BY <1>1, <1>2, <2>1, <2>2, <2>3, EndOfPacket
<1>7. CASE Head(wire) # 0
  <2>1. parseState' = "data" /\ parsedDataBytes' = 0 /\ handled' = handled
    BY <1>2, <1>7 DEF ReadLen
  <2>2. Progress' = Progress + 1
    <3>1. Progress' = 2 + parsedDataBytes'
      BY <2>1 DEF Progress
    <3> QED
      BY <1>3, <2>1, <3>1
  <2>3. InPacket(sent[Len(handled) + 1])'
    <3>1. \A k \in 1 .. 0 : FALSE
      OBVIOUS
    <3> QED
      BY <1>1, <1>2, <1>5, <2>1, <3>1 DEF InPacket
  <2> QED
    BY <1>1, <1>2, <2>1, <2>2, <2>3, WithinPacket
<1> QED
  BY <1>6, <1>7

(* The index of the data byte read next.                                    *)
LEMMA DataIndex ==
    ASSUME NEW j \in Nat, NEW l \in Nat, j < l
    PROVE  /\ (2 + j) + 1 = (j + 1) + 2 /\ j + 1 \in 1 .. l
           /\ j + 1 >= l => l = j + 1
           /\ \A k \in 1 .. j + 1 : k \in 1 .. l /\ (k = j + 1 \/ k \in 1 .. j)
           /\ MaxByte \in Nat /\ l <= MaxByte => \A k \in 1 .. l : k \in 1 .. MaxByte
OBVIOUS

LEMMA ReadDataKeepsSync ==
    ASSUME TypeInv, TypeInv', Synchronised, ReadData
    PROVE  Synchronised'
<1> SUFFICES ASSUME ~desync PROVE Synchronised'
  BY DEF ReadData, Synchronised
<1>1. PICK b \in Nat, start \in [Nat -> Nat], p \in Packet :
              /\ HandledWasSent /\ InPacket(p)
              /\ Len(handled) \in Nat /\ Len(handled) < Len(sent)
              /\ p = sent[Len(handled) + 1]
              /\ Framed(Tail(wire), b + 1, start, sent, Len(handled))
              /\ Progress \in Nat /\ At(b, start, Len(handled), Progress)
              /\ Head(wire) = Encode(p)[Progress + 1]
  BY BeforeByte DEF ReadData
<1> DEFINE j == parsedDataBytes
           l == Len(p.data)
<1>2. /\ wire' = Tail(wire) /\ sent' = sent /\ parseState = "data"
      /\ rxPacket' = [rxPacket EXCEPT !.data[j + 1] = Head(wire)]
      /\ rxPacket \in RxPacket /\ sent \in Seq(Packet)
      /\ j \in Nat /\ j < rxPacket.len /\ rxPacket.len \in Nat /\ rxPacket.len <= MaxByte
  <2>1. /\ wire' = Tail(wire) /\ sent' = sent /\ parseState = "data"
        /\ rxPacket' = [rxPacket EXCEPT !.data[j + 1] = Head(wire)]
    BY DEF ReadData
  <2>2. /\ rxPacket \in RxPacket /\ sent \in Seq(Packet) /\ j \in 0 .. MaxByte - 1
        /\ j < rxPacket.len
    BY <2>1 DEF TypeInv, TypeOK, IndexBelowLen
  <2>3. rxPacket.len \in Nat /\ rxPacket.len <= MaxByte
    BY <2>2, ParserAssumption DEF RxPacket, Byte
  <2>4. j \in Nat
    BY <2>2, ParserAssumption
  <2> QED
    BY <2>1, <2>2, <2>3, <2>4
<1>3. Progress = 2 + j
  BY <1>2 DEF Progress
<1>4. /\ rxPacket.type = p.type /\ rxPacket.len = l
      /\ \A k \in 1 .. j : rxPacket.data[k] = p.data[k]
  BY <1>1, <1>2 DEF InPacket
<1>5. /\ l \in Nat /\ Len(Encode(p)) = l + 2
      /\ \A k \in 1 .. l : Encode(p)[k + 2] = p.data[k]
  BY EncodeProperties
<1>6. /\ (2 + j) + 1 = (j + 1) + 2 /\ j + 1 \in 1 .. l
      /\ j + 1 >= l => l = j + 1
      /\ \A k \in 1 .. j + 1 : k \in 1 .. MaxByte /\ (k = j + 1 \/ k \in 1 .. j)
  <2>1. j \in Nat /\ l \in Nat /\ j < l /\ l <= MaxByte /\ MaxByte \in Nat
    BY <1>2, <1>4, <1>5, ParserAssumption
  <2>2. PICK m \in Nat, n \in Nat : m = j /\ n = l
    BY <2>1
  <2>3. m < n /\ n <= MaxByte
    BY <2>1, <2>2
  <2>4. /\ (2 + m) + 1 = (m + 1) + 2 /\ m + 1 \in 1 .. n
        /\ m + 1 >= n => n = m + 1
        /\ \A k \in 1 .. m + 1 : k \in 1 .. n /\ (k = m + 1 \/ k \in 1 .. m)
        /\ \A k \in 1 .. n : k \in 1 .. MaxByte
    BY <2>1, <2>3, DataIndex
  <2> QED
    BY <2>2, <2>4
<1>7. Head(wire) = p.data[j + 1]
  <2>1. Progress + 1 = (j + 1) + 2 /\ j + 1 \in 1 .. l
    BY <1>3, <1>6
  <2> QED
    BY <1>1, <1>5, <2>1
<1>8. /\ rxPacket'.type = p.type /\ rxPacket'.len = l
      /\ \A k \in 1 .. j + 1 : rxPacket'.data[k] = p.data[k]
  <2>1. /\ rxPacket.data \in [1 .. MaxByte -> Byte]
        /\ rxPacket'.data = [rxPacket.data EXCEPT ![j + 1] = Head(wire)]
        /\ rxPacket'.type = rxPacket.type /\ rxPacket'.len = rxPacket.len
    BY <1>2 DEF RxPacket
  <2>2. ASSUME NEW k \in 1 .. j + 1 PROVE rxPacket'.data[k] = p.data[k]
    <3>1. k \in 1 .. MaxByte /\ (k = j + 1 \/ k \in 1 .. j)
      BY <1>6
    <3> QED
      BY <1>2, <1>4, <1>7, <2>1, <3>1
  <2> QED
    BY <1>4, <2>1, <2>2
<1>9. CASE j + 1 >= rxPacket.len
  <2>1. Handle(rxPacket') /\ parseState' = "type"
    BY <1>9 DEF ReadData, ResetParseState
  <2>2. l = j + 1
    BY <1>4, <1>6, <1>9
  <2>3. HandledWasSent' /\ Len(handled') = Len(handled) + 1
    BY <1>1, <1>2, <1>8, <2>1, <2>2, HandledIsSent
  <2>4. Progress + 1 = Len(Encode(sent[Len(handled) + 1]))
    <3>1. Progress + 1 = l + 2
      BY <1>2, <1>3, <2>2
    <3> QED
      BY <1>1, <1>5, <3>1
  <2> QED
    BY <1>1, <1>2, <2>1, <2>3, <2>4, EndOfPacket
<1>10. CASE ~(j + 1 >= rxPacket.len)
  <2>1. parseState' = "data" /\ parsedDataBytes' = j + 1 /\ handled' = handled
    BY <1>2, <1>10 DEF ReadData
  <2>2. Progress' = Progress + 1
    <3>1. Progress' = 2 + parsedDataBytes'
      BY <2>1 DEF Progress
    <3> QED
      BY <1>2, <1>3, <2>1, <3>1
  <2>3. InPacket(sent[Len(handled) + 1])'
    BY <1>1, <1>2, <1>8, <2>1 DEF InPacket
  <2> QED
    BY <1>1, <1>2, <2>1, <2>2, <2>3, WithinPacket
<1> QED
  BY <1>9, <1>10

LEMMA SyncStep ==
    ASSUME TypeInv, TypeInv', Synchronised, [Next]_vars
    PROVE  Synchronised'
<1>1. CASE UNCHANGED vars
  BY <1>1 DEF vars, parser, Synchronised, HandledWasSent, InStep, InPacket, Progress
<1> QED
  BY <1>1, SendKeepsSync, ReconnectKeepsSync, ReadTypeKeepsSync, ReadLenKeepsSync,
     ReadDataKeepsSync DEF Next, ParseByte

(* As long as no connection broke within a packet, handleTelemetryCommand   *)
(* is given the packets the clients sent, complete and in order, for every  *)
(* set of packets and however the bytes were cut into reads.                *)
THEOREM DeliveredInOrderAlways == Spec => []DeliveredInOrder
<1>1. TypeInv /\ Synchronised => DeliveredInOrder
  <2> SUFFICES ASSUME TypeInv, Synchronised, ~desync PROVE IsPrefix(handled, sent)
    BY DEF DeliveredInOrder
  <2>1. handled \in Seq(Packet) /\ sent \in Seq(Packet) /\ HandledWasSent
    BY DEF TypeInv, Synchronised
  <2> QED
    BY <2>1 DEF IsPrefix, HandledWasSent
<1>2. Init => TypeInv /\ Synchronised
  BY TypeInvInit, SyncInit
<1>3. TypeInv /\ Synchronised /\ [Next]_vars => (TypeInv /\ Synchronised)'
  BY TypeInvStep, SyncStep
<1> QED
  BY <1>1, <1>2, <1>3, PTL DEF Spec
=============================================================================
