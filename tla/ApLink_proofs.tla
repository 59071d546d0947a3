---------------------------- MODULE ApLink_proofs ----------------------------
(***************************************************************************)
(* ApLink for every number of descriptors, messages, chunks and breaks.    *)
(***************************************************************************)
EXTENDS ApLink, FiniteSetTheorems, SequenceTheorems, WellFoundedInduction, TLAPS

(* The kernel hands out the lowest descriptor of a set: there is one.       *)
LEMMA LowestExists ==
    ASSUME NEW S \in SUBSET Nat, S # {}
    PROVE  Min(S) \in S
<1>1. PICK x \in S : \A y \in S : ~ (<<y, x>> \in OpToRel(<, Nat))
  BY NatLessThanWellFounded, WFMin
<1>2. \A y \in S : x <= y
  <2> SUFFICES ASSUME NEW y \in S, ~ (x <= y) PROVE FALSE
    OBVIOUS
  <2>1. x \in Nat /\ y \in Nat /\ y < x
    OBVIOUS
  <2> QED
    BY <1>1, <2>1 DEF OpToRel
<1> QED
  BY <1>1, <1>2 DEF Min

LEMMA FreeDescriptor ==
    ASSUME LinkAssumption, Free # {}
    PROVE  Min(Free) \in Fd /\ table[Min(Free)] = "free"
<1>1. Free \in SUBSET Nat
  BY DEF Free, Fd, LinkAssumption
<1>2. Min(Free) \in Free
  BY <1>1, LowestExists
<1> QED
  BY <1>2 DEF Free

(* While another component may still open one descriptor, a second is free. *)
LEMMA AnotherFree ==
    ASSUME NEW S, Cardinality(S) > 1, IsFiniteSet(S), NEW x \in S
    PROVE  S \ {x} # {}
<1> SUFFICES ASSUME S \ {x} = {} PROVE FALSE
  OBVIOUS
<1>1. S = {x}
  OBVIOUS
<1> QED
  BY <1>1, FS_Singleton

-----------------------------------------------------------------------------
(* Where a thread stands determines what it holds.                          *)

\* txLoop holds a message exactly between pop and send
HandPlace == (pc["tx"] = "send") <=> (hand # 0)

\* closeSocket closes a descriptor it found open
ClosePlace == \A t \in Threads : pc[t] = "close" => fd[t] \in Fd

\* a recv that waits has a connection: its descriptor's, or its own
RecvPlace ==
    /\ orphan # "no" => rxOn # NoFd
    /\ rxOn # NoFd /\ orphan = "no" => table[rxOn] \in {"up", "down", "other"}

\* init can always create its socket, starts both threads or none, and only
\* txLoop sends
StartPlace ==
    /\ pc["tx"] = "off" => Free # {}
    /\ \A t, u \in Threads : pc[t] \in {"off", "never"} => pc[u] = pc[t]
    /\ pc["rx"] # "send"

IInv == TypeOK /\ HandPlace /\ ClosePlace /\ RecvPlace /\ StartPlace

LEMMA PlaceInit == Init => IInv
<1> SUFFICES ASSUME Init PROVE IInv
  OBVIOUS
<1>0. LinkAssumption
  BY LinkAssumption
<1>1. TypeOK
  BY <1>0 DEF Init, TypeOK, Fd, NoFd, Threads, SocketState, Replacing, LinkAssumption
<1>2. HandPlace /\ ClosePlace /\ RecvPlace
  BY <1>0 DEF Init, HandPlace, ClosePlace, RecvPlace, Threads, NoFd
<1>3. StartPlace
  <2>1. 0 \in Fd
    BY <1>0 DEF LinkAssumption, Fd
  <2> QED
    BY <2>1 DEF Init, StartPlace, Free, Threads
<1> QED
  BY <1>1, <1>2, <1>3 DEF IInv

(* Everything of closeSocket and connectToServer, by either thread.         *)
LEMMA PlaceReconnect ==
    ASSUME IInv, LinkAssumption, NEW t \in Threads, Reconnect(t)
    PROVE  IInv'
<1> USE DEF IInv, At, Goto, Uses, kernel, threads, messages, ghosts
<1>0. NoFd \notin Fd /\ Free \subseteq Fd
  BY DEF NoFd, Fd, Free
<1>1. CASE CheckSocket(t)
  <2>1. TypeOK'
    BY <1>1 DEF CheckSocket, TypeOK, Threads, Replacing
  <2>2. HandPlace' /\ ClosePlace' /\ RecvPlace' /\ StartPlace'
    BY <1>1, <1>0 DEF CheckSocket, TypeOK, Threads, HandPlace, ClosePlace, RecvPlace, StartPlace, Free
  <2> QED
    BY <2>1, <2>2
<1>2. CASE Close(t)
  <2>0. fd[t] \in Fd /\ orphan' \in {"no", "up", "down", "other"}
    BY <1>2, <1>0 DEF Close, CloseDescriptor, TypeOK, Threads, ClosePlace, RecvPlace
  <2>1. TypeOK'
    BY <1>2, <2>0 DEF Close, CloseDescriptor, TypeOK, Threads, Replacing, SocketState
  <2>2. HandPlace' /\ ClosePlace' /\ StartPlace'
    BY <1>2, <1>0 DEF Close, CloseDescriptor, TypeOK, Threads, HandPlace, ClosePlace, StartPlace, Free
  <2>3. RecvPlace'
    BY <1>2, <1>0 DEF Close, CloseDescriptor, TypeOK, Threads, ClosePlace, RecvPlace
  <2> QED
    BY <2>1, <2>2, <2>3
<1>3. CASE ClearSocket(t)
  <2>1. TypeOK'
    BY <1>3 DEF ClearSocket, TypeOK, Threads, Replacing
  <2>2. HandPlace' /\ ClosePlace' /\ RecvPlace' /\ StartPlace'
    BY <1>3, <1>0 DEF ClearSocket, TypeOK, Threads, HandPlace, ClosePlace, RecvPlace, StartPlace, Free
  <2> QED
    BY <2>1, <2>2
<1>4. CASE Socket(t)
  <2>1. CASE Free = {}
    <3>1. TypeOK'
      BY <1>4, <2>1 DEF Socket, TypeOK, Threads, Replacing
    <3>2. HandPlace' /\ ClosePlace' /\ RecvPlace' /\ StartPlace'
      BY <1>4, <2>1, <1>0 DEF Socket, TypeOK, Threads, HandPlace, ClosePlace, RecvPlace, StartPlace, Free
    <3> QED
      BY <3>1, <3>2
  <2>2. CASE Free # {}
    <3>0. PICK d \in Fd : d = Min(Free) /\ table[d] = "free"
      BY <2>2, FreeDescriptor
    <3>1. /\ sockfd' = d /\ table' = [table EXCEPT ![d] = "new"]
          /\ pc[t] = "socket" /\ Uses(t)
          /\ pc' = [pc EXCEPT ![t] = "connect"]
          /\ UNCHANGED <<server, breaks, fd, then, rxOn, orphan, messages, strayed>>
      BY <1>4, <2>2, <3>0 DEF Socket
    <3>2. TypeOK'
      BY <3>1 DEF TypeOK, Threads, Replacing, SocketState
    <3>3. HandPlace' /\ ClosePlace' /\ RecvPlace' /\ StartPlace'
      BY <3>0, <3>1, <1>0 DEF TypeOK, Threads, HandPlace, ClosePlace, RecvPlace, StartPlace
    <3> QED
      BY <3>2, <3>3
  <2> QED
    BY <2>1, <2>2
<1>5. CASE ConnectWorks(t)
  <2>0. sockfd \in Fd /\ table[sockfd] = "new"
    BY <1>5 DEF ConnectWorks, TypeOK
  <2>1. TypeOK'
    BY <1>5, <2>0 DEF ConnectWorks, TypeOK, Threads, Replacing, SocketState
  <2>2. HandPlace' /\ ClosePlace' /\ RecvPlace' /\ StartPlace'
    BY <1>5, <1>0, <2>0 DEF ConnectWorks, TypeOK, Threads, HandPlace, ClosePlace, RecvPlace, StartPlace
  <2> QED
    BY <2>1, <2>2
<1>6. CASE ConnectFails(t)
  <2>1. TypeOK'
    BY <1>6 DEF ConnectFails, TypeOK, Threads, Replacing
  <2>2. HandPlace' /\ ClosePlace' /\ RecvPlace' /\ StartPlace'
    BY <1>6, <1>0 DEF ConnectFails, TypeOK, Threads, HandPlace, ClosePlace, RecvPlace, StartPlace, Free
  <2> QED
    BY <2>1, <2>2
<1>7. CASE Wake(t)
  <2>1. TypeOK'
    BY <1>7 DEF Wake, TypeOK, Threads, Replacing
  <2>2. HandPlace' /\ ClosePlace' /\ RecvPlace' /\ StartPlace'
    BY <1>7, <1>0 DEF Wake, TypeOK, Threads, HandPlace, ClosePlace, RecvPlace, StartPlace, Free
  <2> QED
    BY <2>1, <2>2
<1> QED
  BY <1>1, <1>2, <1>3, <1>4, <1>5, <1>6, <1>7 DEF Reconnect

LEMMA PlaceStep == IInv /\ [Next]_vars => IInv'
<1> SUFFICES ASSUME IInv, [Next]_vars PROVE IInv'
  OBVIOUS
<1> USE LinkAssumption DEF IInv, At, Goto, Uses, kernel, threads, messages, ghosts
<1>0. NoFd \notin Fd /\ Free \subseteq Fd
  BY DEF NoFd, Fd, Free
<1>1. CASE ServerGoes
  <2>0. breaks' \in 0 .. MaxBreaks
    BY <1>1 DEF ServerGoes, TypeOK, LinkAssumption
  <2>1. TypeOK'
    BY <1>1, <2>0 DEF ServerGoes, TypeOK, SocketState
  <2>2. HandPlace' /\ ClosePlace' /\ RecvPlace' /\ StartPlace'
    BY <1>1, <1>0 DEF ServerGoes, TypeOK, HandPlace, ClosePlace, RecvPlace, StartPlace, Free
  <2> QED
    BY <2>1, <2>2
<1>2. CASE ServerComes \/ ReadBytes
  <2>0. rxQueue' \in 0 .. MaxRx
    BY <1>2 DEF ServerComes, ReadBytes, TypeOK, LinkAssumption
  <2>1. TypeOK'
    BY <1>2, <2>0 DEF ServerComes, ReadBytes, TypeOK
  <2>2. HandPlace' /\ ClosePlace' /\ RecvPlace' /\ StartPlace'
    BY <1>2 DEF ServerComes, ReadBytes, HandPlace, ClosePlace, RecvPlace, StartPlace, Free
  <2> QED
    BY <2>1, <2>2
<1>3. CASE OtherOpens
  <2>1. IsFiniteSet(Free)
    <3>1. Descriptors - 1 \in Int /\ 0 \in Int
      BY DEF LinkAssumption
    <3>2. IsFiniteSet(Fd)
      BY <3>1, FS_Interval DEF Fd
    <3> QED
      BY <1>0, <3>2, FS_Subset
  <2>2. Free # {}
    <3> SUFFICES ASSUME Free = {} PROVE FALSE
      OBVIOUS
    <3> QED
      BY <1>3, FS_EmptySet DEF OtherOpens
  <2>3. PICK d \in Fd : d = Min(Free) /\ table[d] = "free"
    BY <2>2, FreeDescriptor
  <2>4. PICK e \in Fd : e # d /\ table[e] = "free"
    <3>1. d \in Free /\ Free \ {d} # {}
      BY <1>3, <2>1, <2>3, AnotherFree DEF OtherOpens, Free
    <3> QED
      BY <3>1 DEF Free
  <2>5. /\ table' = [table EXCEPT ![d] = "other"]
        /\ UNCHANGED <<server, breaks, sockfd, threads, messages, ghosts>>
    BY <1>3, <2>3 DEF OtherOpens
  <2>6. TypeOK'
    BY <2>5 DEF TypeOK, SocketState
  <2>7. HandPlace' /\ ClosePlace' /\ RecvPlace'
    BY <1>0, <2>3, <2>5 DEF TypeOK, HandPlace, ClosePlace, RecvPlace
  <2>8. StartPlace'
    <3>1. e \in Free'
      BY <2>4, <2>5 DEF TypeOK, Free
    <3> QED
      BY <2>5, <3>1 DEF StartPlace
  <2> QED
    BY <2>6, <2>7, <2>8
<1>4. ASSUME NEW d \in Fd, OtherCloses(d) PROVE IInv'
  <2>1. TypeOK'
    BY <1>4 DEF OtherCloses, CloseDescriptor, TypeOK, SocketState
  <2>2. HandPlace' /\ ClosePlace' /\ RecvPlace'
    BY <1>4, <1>0 DEF OtherCloses, CloseDescriptor, TypeOK, HandPlace, ClosePlace, RecvPlace
  <2>3. StartPlace'
    BY <1>4 DEF OtherCloses, CloseDescriptor, TypeOK, StartPlace, Free
  <2> QED
    BY <2>1, <2>2, <2>3
<1>5. CASE InitConnects
  <2>1. Free # {}
    BY <1>5 DEF InitConnects, StartPlace
  <2>2. PICK d \in Fd : d = Min(Free) /\ table[d] = "free"
    BY <2>1, FreeDescriptor
  <2>3. /\ pc["tx"] = "off" /\ sockfd' = d
        /\ table' = [table EXCEPT ![d] = "up"]
        /\ pc' = [t \in Threads |-> "work"]
        /\ UNCHANGED <<server, breaks, fd, then, rxOn, orphan, messages, ghosts>>
    BY <1>5, <2>2 DEF InitConnects
  <2>4. TypeOK'
    BY <2>3 DEF TypeOK, SocketState, Replacing
  <2>5. HandPlace' /\ ClosePlace' /\ RecvPlace' /\ StartPlace'
    BY <1>0, <2>2, <2>3 DEF TypeOK, Threads, HandPlace, ClosePlace, RecvPlace, StartPlace
  <2> QED
    BY <2>4, <2>5
<1>6. CASE InitFails
  <2>1. TypeOK'
    BY <1>6 DEF InitFails, TypeOK, Replacing
  <2>2. HandPlace' /\ ClosePlace' /\ RecvPlace' /\ StartPlace'
    BY <1>6 DEF InitFails, TypeOK, Threads, HandPlace, ClosePlace, RecvPlace, StartPlace
  <2> QED
    BY <2>1, <2>2
<1>7. CASE WriteBytes
  <2>1. written' \in 1 .. MaxMessages
    BY <1>7 DEF WriteBytes, TypeOK, LinkAssumption
  <2>2. txQueue' \in Seq(1 .. MaxMessages)
    BY <1>7, <2>1, AppendProperties DEF WriteBytes, TypeOK
  <2>3. TypeOK'
    BY <1>7, <2>1, <2>2 DEF WriteBytes, TypeOK
  <2>4. HandPlace' /\ ClosePlace' /\ RecvPlace' /\ StartPlace'
    BY <1>7 DEF WriteBytes, HandPlace, ClosePlace, RecvPlace, StartPlace, Free
  <2> QED
    BY <2>3, <2>4
<1>8. CASE Pop
  <2>1. hand' \in 1 .. MaxMessages /\ txQueue' \in Seq(1 .. MaxMessages)
    BY <1>8, HeadTailProperties DEF Pop, TypeOK
  <2>2. TypeOK'
    BY <1>8, <2>1 DEF Pop, TypeOK, Threads, Replacing
  <2>3. HandPlace' /\ ClosePlace' /\ RecvPlace' /\ StartPlace'
    BY <1>8, <2>1 DEF Pop, TypeOK, Threads, HandPlace, ClosePlace, RecvPlace, StartPlace, Free
  <2> QED
    BY <2>2, <2>3
<1>9. CASE SendWorks
  <2>1. hand \in 1 .. MaxMessages
    BY <1>9 DEF SendWorks, TypeOK, HandPlace, LinkAssumption
  <2>2. accepted' \in Seq(1 .. MaxMessages)
    BY <1>9, <2>1, AppendProperties DEF SendWorks, TypeOK
  <2>3. TypeOK'
    BY <1>9, <2>2 DEF SendWorks, TypeOK, Threads, Replacing, LinkAssumption
  <2>4. HandPlace' /\ ClosePlace' /\ RecvPlace' /\ StartPlace'
    BY <1>9 DEF SendWorks, TypeOK, Threads, HandPlace, ClosePlace, RecvPlace, StartPlace, Free
  <2> QED
    BY <2>3, <2>4
<1>10. CASE SendFails
  <2>1. TypeOK'
    BY <1>10 DEF SendFails, TypeOK, Threads, Replacing, LinkAssumption
  <2>2. HandPlace' /\ ClosePlace' /\ RecvPlace' /\ StartPlace'
    BY <1>10 DEF SendFails, TypeOK, Threads, HandPlace, ClosePlace, RecvPlace, StartPlace, Free
  <2> QED
    BY <2>1, <2>2
<1>11. CASE RecvBlocks
  <2>1. TypeOK'
    BY <1>11 DEF RecvBlocks, TypeOK
  <2>2. HandPlace' /\ ClosePlace' /\ RecvPlace' /\ StartPlace'
    BY <1>11 DEF RecvBlocks, TypeOK, HandPlace, ClosePlace, RecvPlace, StartPlace, Free
  <2> QED
    BY <2>1, <2>2
<1>12. CASE RecvReturnsData
  <2>1. TypeOK'
    BY <1>12 DEF RecvReturnsData, TypeOK, LinkAssumption
  <2>2. HandPlace' /\ ClosePlace' /\ RecvPlace' /\ StartPlace'
    BY <1>12 DEF RecvReturnsData, TypeOK, HandPlace, ClosePlace, RecvPlace, StartPlace, Free
  <2> QED
    BY <2>1, <2>2
<1>13. CASE RecvFails
  <2>1. TypeOK'
    BY <1>13 DEF RecvFails, TypeOK, Threads, Replacing
  <2>2. HandPlace' /\ ClosePlace' /\ RecvPlace' /\ StartPlace'
    BY <1>13 DEF RecvFails, TypeOK, Threads, HandPlace, ClosePlace, RecvPlace, StartPlace, Free
  <2> QED
    BY <2>1, <2>2
<1>14. ASSUME NEW t \in Threads, Reconnect(t) PROVE IInv'
  BY <1>14, PlaceReconnect
<1>15. CASE UNCHANGED vars
  <2>1. TypeOK'
    BY <1>15 DEF vars, TypeOK
  <2>2. HandPlace' /\ ClosePlace' /\ RecvPlace' /\ StartPlace'
    BY <1>15 DEF vars, HandPlace, ClosePlace, RecvPlace, StartPlace, Free
  <2> QED
    BY <2>1, <2>2
<1> QED
  BY <1>1, <1>2, <1>3, <1>4, <1>5, <1>6, <1>7, <1>8, <1>9, <1>10, <1>11, <1>12,
     <1>13, <1>14, <1>15 DEF Next, TxLoop, RxLoop, Threads

(* Type correctness of ApLink: in particular closeSocket never closes -1,   *)
(* init always gets a descriptor, and send always has a message in hand.    *)
THEOREM ApLinkTypeCorrect == Spec => []TypeOK
<1>1. IInv => TypeOK
  BY DEF IInv
<1> QED
  BY <1>1, PlaceInit, PlaceStep, PTL DEF Spec

-----------------------------------------------------------------------------
(* The order of the messages: those a connection took, then the one in      *)
(* hand, then those that wait, are numbered upwards without a repetition.   *)

Increasing(s) == \A j, k \in 1 .. Len(s) : j < k => s[j] < s[k]

Ordered(a, h, q, w) ==
    /\ Increasing(a) /\ Increasing(q)
    /\ \A j \in 1 .. Len(a), k \in 1 .. Len(q) : a[j] < q[k]
    /\ \A j \in 1 .. Len(a) : a[j] <= w /\ (h # 0 => a[j] < h)
    /\ \A k \in 1 .. Len(q) : h < q[k] /\ q[k] <= w
    /\ h <= w

LEMMA IncreasingAppend ==
    ASSUME NEW s \in Seq(Nat), NEW x \in Nat, Increasing(s),
           \A j \in 1 .. Len(s) : s[j] < x
    PROVE  /\ Append(s, x) \in Seq(Nat) /\ Increasing(Append(s, x))
           /\ Len(Append(s, x)) = Len(s) + 1
           /\ \A j \in 1 .. Len(Append(s, x)) :
                 \/ j \in 1 .. Len(s) /\ Append(s, x)[j] = s[j]
                 \/ Append(s, x)[j] = x
<1>1. Len(s) \in Nat
  BY LenProperties
<1>2. /\ Append(s, x) \in Seq(Nat) /\ Len(Append(s, x)) = Len(s) + 1
      /\ \A j \in 1 .. Len(s) : Append(s, x)[j] = s[j]
      /\ Append(s, x)[Len(s) + 1] = x
  BY AppendProperties
<1>3. \A j \in 1 .. Len(Append(s, x)) : j \in 1 .. Len(s) \/ j = Len(s) + 1
  BY <1>1, <1>2
<1>4. \A j \in 1 .. Len(Append(s, x)) :
        \/ j \in 1 .. Len(s) /\ Append(s, x)[j] = s[j]
        \/ Append(s, x)[j] = x
  BY <1>2, <1>3
<1>5. ASSUME NEW j \in 1 .. Len(Append(s, x)), NEW k \in 1 .. Len(Append(s, x)), j < k
      PROVE  Append(s, x)[j] < Append(s, x)[k]
  <2>1. j \in 1 .. Len(s) /\ Append(s, x)[j] = s[j]
    BY <1>1, <1>2, <1>5
  <2>2. CASE k \in 1 .. Len(s)
    BY <1>2, <1>5, <2>1, <2>2 DEF Increasing
  <2>3. CASE k = Len(s) + 1
    BY <1>2, <2>1, <2>3
  <2> QED
    BY <1>3, <2>2, <2>3
<1> QED
  BY <1>2, <1>4, <1>5 DEF Increasing

LEMMA WriteKeepsOrder ==
    ASSUME NEW a \in Seq(Nat), NEW h \in Nat, NEW q \in Seq(Nat), NEW w \in Nat,
           Ordered(a, h, q, w)
    PROVE  Ordered(a, h, Append(q, w + 1), w + 1)
<1>0. PICK v \in Nat : v = w + 1
  OBVIOUS
<1>1. a \in [1 .. Len(a) -> Nat] /\ q \in [1 .. Len(q) -> Nat]
  BY LenProperties
<1>2. \A k \in 1 .. Len(q) : q[k] < v
  BY <1>0, <1>1 DEF Ordered
<1>3. PICK r \in Seq(Nat) : r = Append(q, v)
  BY AppendProperties
<1>4. /\ Increasing(r)
      /\ \A k \in 1 .. Len(r) : (k \in 1 .. Len(q) /\ r[k] = q[k]) \/ r[k] = v
  BY <1>2, <1>3, IncreasingAppend DEF Ordered
<1>5. \A j \in 1 .. Len(a) : a[j] < v /\ a[j] <= v /\ (h # 0 => a[j] < h)
  BY <1>0, <1>1 DEF Ordered
<1>6. \A j \in 1 .. Len(a), k \in 1 .. Len(r) : a[j] < r[k]
  BY <1>4, <1>5 DEF Ordered
<1>7. h < v /\ h <= v /\ v <= v /\ \A k \in 1 .. Len(q) : h < q[k] /\ q[k] <= v
  BY <1>0, <1>1 DEF Ordered
<1>8. \A k \in 1 .. Len(r) : h < r[k] /\ r[k] <= v
  BY <1>4, <1>7
<1> QED
  BY <1>0, <1>3, <1>4, <1>5, <1>6, <1>7, <1>8 DEF Ordered

LEMMA PopKeepsOrder ==
    ASSUME NEW a \in Seq(Nat), NEW q \in Seq(Nat), NEW w \in Nat, q # << >>,
           Ordered(a, 0, q, w)
    PROVE  Ordered(a, Head(q), Tail(q), w)
<1>1. a \in [1 .. Len(a) -> Nat] /\ q \in [1 .. Len(q) -> Nat] /\ Len(q) \in Nat
  BY LenProperties
<1>2. PICK h \in Nat, r \in Seq(Nat) : h = Head(q) /\ r = Tail(q)
  BY HeadTailProperties
<1>3. /\ Len(q) >= 1 /\ h = q[1] /\ Len(r) = Len(q) - 1
      /\ \A k \in 1 .. Len(r) : r[k] = q[k + 1]
  BY <1>1, <1>2, HeadTailProperties, EmptySeq
<1>4. \A k \in 1 .. Len(r) : k + 1 \in 1 .. Len(q) /\ 1 < k + 1
  BY <1>1, <1>3
<1>5. 1 \in 1 .. Len(q)
  BY <1>1, <1>3
<1>6. Increasing(r)
  <2> SUFFICES ASSUME NEW j \in 1 .. Len(r), NEW k \in 1 .. Len(r), j < k
               PROVE  r[j] < r[k]
    BY DEF Increasing
  <2>1. j + 1 < k + 1
    OBVIOUS
  <2> QED
    BY <1>3, <1>4, <2>1 DEF Ordered, Increasing
<1>7. \A k \in 1 .. Len(r) : h < r[k] /\ r[k] <= w
  BY <1>3, <1>4, <1>5 DEF Ordered, Increasing
<1>8. \A j \in 1 .. Len(a), k \in 1 .. Len(r) : a[j] < r[k]
  BY <1>3, <1>4 DEF Ordered
<1>9. (\A j \in 1 .. Len(a) : a[j] <= w /\ a[j] < h) /\ h <= w
  BY <1>3, <1>5 DEF Ordered
<1> QED
  BY <1>2, <1>6, <1>7, <1>8, <1>9 DEF Ordered

LEMMA SendKeepsOrder ==
    ASSUME NEW a \in Seq(Nat), NEW h \in Nat \ {0}, NEW q \in Seq(Nat), NEW w \in Nat,
           Ordered(a, h, q, w)
    PROVE  Ordered(Append(a, h), 0, q, w) /\ Ordered(a, 0, q, w)
<1>1. a \in [1 .. Len(a) -> Nat] /\ q \in [1 .. Len(q) -> Nat]
  BY LenProperties
<1>2. PICK b \in Seq(Nat) : b = Append(a, h)
  BY AppendProperties
<1>3. /\ Increasing(b)
      /\ \A j \in 1 .. Len(b) : (j \in 1 .. Len(a) /\ b[j] = a[j]) \/ b[j] = h
  BY <1>2, IncreasingAppend DEF Ordered
<1>4. \A j \in 1 .. Len(b), k \in 1 .. Len(q) : b[j] < q[k]
  BY <1>1, <1>3 DEF Ordered
<1>5. \A j \in 1 .. Len(b) : b[j] <= w
  BY <1>1, <1>3 DEF Ordered
<1>6. \A k \in 1 .. Len(q) : 0 < q[k] /\ q[k] <= w
  BY <1>1 DEF Ordered
<1> QED
  BY <1>2, <1>3, <1>4, <1>5, <1>6 DEF Ordered

OrderInv == Ordered(accepted, hand, txQueue, written)

(* Until the first break the first connection is the only one, and neither  *)
(* thread has had a reason to replace it.                                   *)
Unbroken ==
    breaks = 0 =>
        \/ /\ pc["tx"] \in {"off", "never"} /\ pc["rx"] = pc["tx"]
           /\ rxOn = NoFd /\ orphan = "no"
        \/ /\ sockfd \in Fd /\ table[sockfd] = "up"
           /\ pc["tx"] \in {"work", "send"} /\ pc["rx"] = "work"
           /\ rxOn \in {NoFd, sockfd} /\ orphan = "no"

NothingLost ==
    breaks = 0 => Len(accepted) + Len(txQueue) + (IF hand = 0 THEN 0 ELSE 1) = written

LEMMA OrderInit == Init => OrderInv /\ Unbroken /\ NothingLost
<1> SUFFICES ASSUME Init PROVE OrderInv /\ Unbroken /\ NothingLost
  OBVIOUS
<1>1. Len(<< >>) = 0 /\ 1 .. 0 = {}
  BY EmptySeq
<1>2. Ordered(<< >>, 0, << >>, 0)
  BY <1>1 DEF Ordered, Increasing
<1> QED
  BY <1>1, <1>2 DEF Init, OrderInv, Unbroken, NothingLost, Threads

(* Nobody but writeBytes, pop and send touches the messages.                *)
LEMMA OrderStep == IInv /\ OrderInv /\ [Next]_vars => OrderInv'
<1> SUFFICES ASSUME IInv, OrderInv, [Next]_vars PROVE OrderInv'
  OBVIOUS
<1>0. /\ accepted \in Seq(Nat) /\ txQueue \in Seq(Nat)
      /\ hand \in Nat /\ written \in Nat
  <2>1. 1 .. MaxMessages \subseteq Nat
    BY LinkAssumption DEF LinkAssumption
  <2>2. Seq(1 .. MaxMessages) \subseteq Seq(Nat)
    BY <2>1, SeqMonotonic
  <2> QED
    BY <2>2, LinkAssumption DEF IInv, TypeOK, LinkAssumption
<1>1. CASE WriteBytes
  BY <1>0, <1>1, WriteKeepsOrder DEF WriteBytes, OrderInv
<1>2. CASE Pop
  <2>1. hand = 0
    BY <1>2 DEF Pop, IInv, HandPlace
  <2> QED
    BY <1>0, <1>2, <2>1, PopKeepsOrder DEF Pop, OrderInv
<1>3. CASE SendWorks \/ SendFails
  <2>1. hand \in Nat \ {0}
    BY <1>0, <1>3 DEF SendWorks, SendFails, IInv, HandPlace
  <2>2. Ordered(Append(accepted, hand), 0, txQueue, written) /\ Ordered(accepted, 0, txQueue, written)
    BY <1>0, <2>1, SendKeepsOrder DEF OrderInv
  <2>3. /\ accepted' = Append(accepted, hand) \/ accepted' = accepted
        /\ hand' = 0 /\ txQueue' = txQueue /\ written' = written
    BY <1>3 DEF SendWorks, SendFails
  <2> QED
    BY <2>2, <2>3 DEF OrderInv
<1>4. CASE UNCHANGED <<txQueue, hand, written, accepted>>
  BY <1>4 DEF OrderInv
<1>5. ASSUME NEW t \in Threads, Reconnect(t) PROVE UNCHANGED <<txQueue, hand, written, accepted>>
  BY <1>5 DEF Reconnect, CheckSocket, Close, ClearSocket, Socket, ConnectWorks, ConnectFails, Wake, messages
<1>6. ASSUME NEW d \in Fd, OtherCloses(d) PROVE UNCHANGED <<txQueue, hand, written, accepted>>
  BY <1>6 DEF OtherCloses, messages
<1>7. ServerGoes \/ ServerComes \/ OtherOpens \/ InitConnects \/ InitFails \/ ReadBytes
        \/ RecvBlocks \/ RecvReturnsData \/ RecvFails \/ UNCHANGED vars
        => UNCHANGED <<txQueue, hand, written, accepted>>
  BY DEF ServerGoes, ServerComes, OtherOpens, InitConnects, InitFails, ReadBytes,
         RecvBlocks, RecvReturnsData, RecvFails, vars, messages
<1> QED
  BY <1>1, <1>2, <1>3, <1>4, <1>5, <1>6, <1>7 DEF Next, TxLoop, RxLoop, Threads

LEMMA UnbrokenStep == IInv /\ Unbroken /\ [Next]_vars => Unbroken'
<1> DEFINE Waiting == /\ pc["tx"] \in {"off", "never"} /\ pc["rx"] = pc["tx"]
                      /\ rxOn = NoFd /\ orphan = "no"
           Up == /\ sockfd \in Fd /\ table[sockfd] = "up"
                 /\ pc["tx"] \in {"work", "send"} /\ pc["rx"] = "work"
                 /\ rxOn \in {NoFd, sockfd} /\ orphan = "no"
<1> SUFFICES ASSUME IInv, Unbroken, [Next]_vars, breaks' = 0
             PROVE  Waiting' \/ Up'
  BY DEF Unbroken
<1>0. /\ NoFd \notin Fd /\ table \in [Fd -> SocketState] /\ breaks \in Nat
      /\ pc \in [Threads -> Replacing \cup {"off", "never", "work", "send", "sleep"}]
  BY LinkAssumption DEF IInv, TypeOK, NoFd, Fd, LinkAssumption
<1>1. ~ ServerGoes /\ breaks = 0
  <2>1. ~ ServerGoes
    BY <1>0 DEF ServerGoes
  <2> QED
    BY <2>1 DEF Next, TxLoop, RxLoop, Reconnect, ServerComes, OtherOpens, OtherCloses,
         InitConnects, InitFails, WriteBytes, ReadBytes, Pop, SendWorks, SendFails,
         RecvBlocks, RecvReturnsData, RecvFails, CheckSocket, Close, ClearSocket, Socket,
         ConnectWorks, ConnectFails, Wake, vars, kernel
<1>2. Waiting \/ Up
  BY <1>1 DEF Unbroken
<1> HIDE DEF Waiting, Up
<1>3. ASSUME NEW t \in Threads PROVE ~ Reconnect(t)
  BY <1>2 DEF Waiting, Up, Reconnect, CheckSocket, Close, ClearSocket, Socket, ConnectWorks, ConnectFails, Wake, Threads
<1>4. ~ SendFails /\ ~ RecvFails
  BY <1>0, <1>2 DEF Waiting, Up, SendFails, RecvFails, RecvConnection, At
<1>5. CASE OtherOpens
  <2>1. Free # {} /\ Min(Free) \in Fd /\ table[Min(Free)] = "free"
    <3>1. Free # {}
      BY <1>5, FS_EmptySet DEF OtherOpens
    <3> QED
      BY <3>1, FreeDescriptor, LinkAssumption
  <2>2. UNCHANGED <<sockfd, pc, rxOn, orphan>> /\ table' = [table EXCEPT ![Min(Free)] = "other"]
    BY <1>5 DEF OtherOpens, threads
  <2> QED
    BY <1>0, <1>2, <2>1, <2>2 DEF Waiting, Up
<1>6. ASSUME NEW d \in Fd, OtherCloses(d)
      PROVE  Waiting' \/ Up'
  BY <1>0, <1>2, <1>6 DEF Waiting, Up, OtherCloses, CloseDescriptor
<1>7. CASE InitConnects
  <2>1. Free # {}
    BY <1>7 DEF InitConnects, IInv, StartPlace
  <2>2. PICK d \in Fd : d = Min(Free)
    BY <2>1, FreeDescriptor, LinkAssumption
  <2>3. /\ pc["tx"] = "off" /\ sockfd' = d /\ table' = [table EXCEPT ![d] = "up"]
        /\ pc' = [t \in Threads |-> "work"] /\ UNCHANGED <<rxOn, orphan>>
    BY <1>7, <2>2 DEF InitConnects
  <2> QED
    BY <1>0, <1>2, <2>3 DEF Waiting, Up, Threads
<1>8. CASE InitFails
  BY <1>0, <1>2, <1>8 DEF Waiting, Up, InitFails, Threads, kernel
<1>9. CASE Pop \/ SendWorks
  BY <1>0, <1>2, <1>9 DEF Waiting, Up, Pop, SendWorks, Goto, Threads, kernel
<1>10. CASE RecvBlocks \/ RecvReturnsData
  BY <1>0, <1>2, <1>10 DEF Waiting, Up, RecvBlocks, RecvReturnsData, kernel
<1>11. CASE ServerComes \/ WriteBytes \/ ReadBytes \/ UNCHANGED vars
  BY <1>2, <1>11 DEF Waiting, Up, ServerComes, WriteBytes, ReadBytes, vars, kernel, threads
<1> QED
  BY <1>1, <1>3, <1>4, <1>5, <1>6, <1>7, <1>8, <1>9, <1>10, <1>11 DEF Next, TxLoop, RxLoop, Threads

LEMMA NothingLostStep ==
    IInv /\ Unbroken /\ NothingLost /\ [Next]_vars => NothingLost'
<1> SUFFICES ASSUME IInv, Unbroken, NothingLost, [Next]_vars, breaks' = 0
             PROVE  NothingLost'
  BY DEF NothingLost
<1> DEFINE n == Len(accepted)
           m == Len(txQueue)
<1>0. /\ breaks \in Nat /\ written \in Nat /\ n \in Nat /\ m \in Nat
      /\ accepted \in Seq(1 .. MaxMessages) /\ txQueue \in Seq(1 .. MaxMessages)
      /\ hand \in 0 .. MaxMessages /\ MaxMessages \in Nat
  BY LinkAssumption, LenProperties DEF IInv, TypeOK, LinkAssumption
<1>1. ASSUME UNCHANGED <<txQueue, hand, written, accepted>>, breaks = 0
      PROVE  NothingLost'
  BY <1>1 DEF NothingLost
<1>2. CASE ServerGoes
  BY <1>0, <1>2 DEF ServerGoes
<1>3. CASE WriteBytes
  <2>1. /\ breaks = 0 /\ written' = written + 1 /\ hand' = hand /\ accepted' = accepted
        /\ txQueue' = Append(txQueue, written + 1) /\ written + 1 \in 1 .. MaxMessages
    BY <1>0, <1>3 DEF WriteBytes, kernel
  <2>2. Len(txQueue') = m + 1
    BY <1>0, <2>1, AppendProperties
  <2>3. n + m + (IF hand = 0 THEN 0 ELSE 1) = written
    BY <2>1 DEF NothingLost
  <2> HIDE DEF n, m
  <2>4. n + (m + 1) + (IF hand = 0 THEN 0 ELSE 1) = written + 1
    BY <1>0, <2>3
  <2> USE DEF n, m
  <2> QED
    BY <2>1, <2>2, <2>4 DEF NothingLost
<1>4. CASE Pop
  <2>1. /\ breaks = 0 /\ hand = 0 /\ written' = written /\ accepted' = accepted
        /\ txQueue # << >> /\ txQueue' = Tail(txQueue) /\ hand' = Head(txQueue)
    BY <1>4 DEF Pop, kernel, IInv, HandPlace
  <2>2. Len(txQueue') = m - 1 /\ hand' # 0
    BY <1>0, <2>1, HeadTailProperties
  <2>3. n + m + 0 = written
    BY <2>1 DEF NothingLost
  <2> HIDE DEF n, m
  <2>4. n + (m - 1) + 1 = written
    BY <1>0, <2>3
  <2> USE DEF n, m
  <2> QED
    BY <2>1, <2>2, <2>4 DEF NothingLost
<1>5. CASE SendWorks
  <2>1. /\ breaks = 0 /\ hand \in 1 .. MaxMessages /\ hand # 0 /\ hand' = 0
        /\ written' = written /\ txQueue' = txQueue
    BY <1>0, <1>5 DEF SendWorks, kernel, IInv, HandPlace
  <2>2. At(sockfd) = "up"
    BY <1>5, <2>1, LinkAssumption DEF SendWorks, Unbroken, At, NoFd, Fd, LinkAssumption
  <2>3. accepted' = Append(accepted, hand)
    BY <1>5, <2>2 DEF SendWorks
  <2>4. Len(accepted') = n + 1
    BY <1>0, <2>1, <2>3, AppendProperties
  <2>5. n + m + 1 = written
    BY <2>1 DEF NothingLost
  <2> HIDE DEF n, m
  <2>6. (n + 1) + m + 0 = written
    BY <1>0, <2>5
  <2> USE DEF n, m
  <2> QED
    BY <2>1, <2>4, <2>6 DEF NothingLost
<1>6. CASE SendFails
  <2>1. breaks = 0 /\ pc["tx"] = "send" /\ At(sockfd) # "up"
    BY <1>6 DEF SendFails, kernel
  <2> QED
    BY <2>1, LinkAssumption DEF Unbroken, At, NoFd, Fd, LinkAssumption
<1>7. ASSUME NEW t \in Threads, Reconnect(t) PROVE NothingLost'
  <2>1. UNCHANGED <<txQueue, hand, written, accepted>> /\ breaks' = breaks
    BY <1>7 DEF Reconnect, CheckSocket, Close, ClearSocket, Socket, ConnectWorks, ConnectFails, Wake,
                messages, kernel
  <2> QED
    BY <1>1, <2>1
<1>8. ASSUME NEW d \in Fd, OtherCloses(d) PROVE NothingLost'
  <2>1. UNCHANGED <<txQueue, hand, written, accepted>> /\ breaks' = breaks
    BY <1>8 DEF OtherCloses, messages
  <2> QED
    BY <1>1, <2>1
<1>9. CASE \/ ServerComes \/ OtherOpens \/ InitConnects \/ InitFails \/ ReadBytes
           \/ RecvBlocks \/ RecvReturnsData \/ RecvFails \/ UNCHANGED vars
  <2>1. UNCHANGED <<txQueue, hand, written, accepted>> /\ breaks' = breaks
    BY <1>9 DEF ServerComes, OtherOpens, InitConnects, InitFails, ReadBytes,
         RecvBlocks, RecvReturnsData, RecvFails, vars, messages, kernel
  <2> QED
    BY <1>1, <2>1
<1> QED
  BY <1>2, <1>3, <1>4, <1>5, <1>6, <1>7, <1>8, <1>9 DEF Next, TxLoop, RxLoop, Threads

(* Messages reach the autopilot in the order written, none twice, whatever  *)
(* the two threads do to each other's socket; and before the first break    *)
(* every message written is accepted, in hand or still queued.              *)
THEOREM MessagesInOrderAlways == Spec => []MessagesInOrder
<1>1. OrderInv /\ NothingLost => MessagesInOrder
  BY DEF OrderInv, Ordered, Increasing, NothingLost, MessagesInOrder
<1> QED
  BY <1>1, PlaceInit, PlaceStep, OrderInit, OrderStep, UnbrokenStep, NothingLostStep, PTL DEF Spec

-----------------------------------------------------------------------------
(* As long as the threads keep out of each other's way, the one that        *)
(* replaces the socket has it for itself.                                   *)

Busy == Replacing \cup {"sleep"}

\* no two threads between a failed call and the reconnection
OneReplaces == \A t, u \in Threads : t # u /\ pc[t] \in Busy => pc[u] \notin Busy

\* sockfd is the link's, except between close and the assignment after it
SockfdIsOwn ==
    (\A t \in Threads : pc[t] # "clear") /\ sockfd # NoFd => sockfd \in Own

\* what the thread that replaces the socket knows of it
ReplacerKnows ==
    \A t \in Threads :
        /\ pc[t] = "close" => fd[t] = sockfd
        /\ pc[t] = "clear" => Own = {}
        /\ pc[t] \in {"socket", "sleep", "off", "never"} => sockfd = NoFd

AloneInv ==
    ~overlap => /\ ~strayed /\ Own \subseteq {sockfd}
                /\ OneReplaces /\ SockfdIsOwn /\ ReplacerKnows

LEMMA AloneInit == Init => AloneInv
BY DEF Init, AloneInv, OneReplaces, SockfdIsOwn, ReplacerKnows, Own, Busy, Replacing, Threads

(* What a step of t that uses the socket knows while there is no overlap:   *)
(* it is the only one, and sockfd is the link's unless t has just closed it.*)
LEMMA AloneUses ==
    ASSUME AloneInv, TypeOK, NEW t \in Threads, Uses(t), ~overlap', pc[t] # "clear"
    PROVE  /\ ~overlap
           /\ \A u \in Threads : u # t => pc[u] \notin Busy
           /\ sockfd # NoFd => sockfd \in Own /\ At(sockfd) \in {"new", "up", "down"}
<1>1. ~overlap /\ \A u \in Threads : u # t => pc[u] \notin Busy
  BY DEF Uses, Busy, TypeOK
<1>2. \A u \in Threads : pc[u] # "clear"
  BY <1>1 DEF Busy, Replacing
<1>3. sockfd # NoFd => sockfd \in Own
  BY <1>1, <1>2 DEF AloneInv, SockfdIsOwn
<1> QED
  BY <1>1, <1>3 DEF Own, At

LEMMA AloneReconnect ==
    ASSUME IInv, LinkAssumption, AloneInv, NEW t \in Threads, Reconnect(t), ~overlap'
    PROVE  AloneInv'
<1>0. /\ TypeOK /\ NoFd \notin Fd /\ Own \subseteq Fd
      /\ pc \in [Threads -> Replacing \cup {"off", "never", "work", "send", "sleep"}]
      /\ fd \in [Threads -> Fd \cup {NoFd}] /\ then \in [Threads -> {"socket", "sleep"}]
      /\ table \in [Fd -> SocketState] /\ sockfd \in Fd \cup {NoFd}
  BY DEF IInv, TypeOK, NoFd, Fd, Own
<1>1. ~overlap
  BY DEF Reconnect, CheckSocket, Close, ClearSocket, Socket, ConnectWorks, ConnectFails, Wake, Uses, ghosts
<1>2. /\ pc[t] \in Busy /\ \A u \in Threads : u # t => pc[u] \notin Busy
  <2>1. pc[t] \in Busy
    BY DEF Reconnect, CheckSocket, Close, ClearSocket, Socket, ConnectWorks, ConnectFails, Wake, Busy, Replacing
  <2> QED
    BY <1>1, <2>1 DEF AloneInv, OneReplaces
<1>3. \A u \in Threads : pc[u] \notin {"off", "never"}
  BY <1>2 DEF IInv, StartPlace, Busy, Replacing
<1>4. ~strayed /\ Own \subseteq {sockfd} /\ SockfdIsOwn /\ ReplacerKnows
  BY <1>1 DEF AloneInv
<1>5. ASSUME NEW where, Goto(t, where), where # "off", where # "never"
      PROVE  /\ pc'[t] = where
             /\ \A u \in Threads : u # t => /\ pc'[u] = pc[u] /\ pc'[u] \notin Busy
                                            /\ pc'[u] \notin {"off", "never"}
             /\ OneReplaces'
             /\ ReplacerKnows' <=> /\ where = "close" => fd'[t] = sockfd'
                                   /\ where = "clear" => Own' = {}
                                   /\ where \in {"socket", "sleep"} => sockfd' = NoFd
             /\ SockfdIsOwn' <=> (where # "clear" /\ sockfd' # NoFd => sockfd' \in Own')
  <2>1. /\ pc'[t] = where
        /\ \A u \in Threads : u # t => /\ pc'[u] = pc[u] /\ pc'[u] \notin Busy
                                       /\ pc'[u] \notin {"off", "never"}
    BY <1>0, <1>2, <1>3, <1>5 DEF Goto
  <2>2. OneReplaces'
    BY <2>1 DEF OneReplaces
  <2>3. \A u \in Threads : u # t => pc'[u] \notin {"close", "clear", "socket", "sleep", "off", "never"}
    BY <2>1 DEF Busy, Replacing
  <2>4. ReplacerKnows' <=> /\ where = "close" => fd'[t] = sockfd'
                           /\ where = "clear" => Own' = {}
                           /\ where \in {"socket", "sleep"} => sockfd' = NoFd
    BY <1>5, <2>1, <2>3 DEF ReplacerKnows
  <2>5. SockfdIsOwn' <=> (where # "clear" /\ sockfd' # NoFd => sockfd' \in Own')
    BY <2>1, <2>3 DEF SockfdIsOwn
  <2> QED
    BY <2>1, <2>2, <2>4, <2>5
<1> DEFINE Kept == ~strayed' /\ Own' \subseteq {sockfd'} /\ OneReplaces' /\ SockfdIsOwn' /\ ReplacerKnows'
<1> SUFFICES Kept
  BY DEF AloneInv
<1>6. CASE CheckSocket(t)
  <2>1. /\ Uses(t) /\ pc[t] = "check" /\ fd' = [fd EXCEPT ![t] = sockfd]
        /\ UNCHANGED <<table, sockfd, strayed>>
    BY <1>6 DEF CheckSocket, kernel
  <2>2. Own' = Own /\ fd'[t] = sockfd
    BY <1>0, <2>1 DEF Own
  <2>3. sockfd # NoFd => sockfd \in Own
    BY <1>0, <2>1, AloneUses
  <2>4. CASE sockfd = NoFd
    <3>1. Goto(t, then[t]) /\ then[t] \in {"socket", "sleep"}
      BY <1>0, <1>6, <2>4 DEF CheckSocket
    <3> QED
      BY <1>4, <1>5, <2>1, <2>2, <2>4, <3>1
  <2>5. CASE sockfd # NoFd
    <3>1. Goto(t, "close")
      BY <1>6, <2>5 DEF CheckSocket
    <3> QED
      BY <1>4, <1>5, <2>1, <2>2, <2>3, <3>1
  <2> QED
    BY <2>4, <2>5
<1>7. CASE Close(t)
  <2>1. /\ Uses(t) /\ pc[t] = "close" /\ Goto(t, "clear") /\ sockfd' = sockfd
        /\ table' = [table EXCEPT ![fd[t]] = "free"]
        /\ strayed' = (strayed \/ table[fd[t]] = "other")
    BY <1>7 DEF Close, CloseDescriptor
  <2>2. fd[t] = sockfd /\ sockfd \in Fd /\ sockfd # NoFd
    BY <1>0, <1>4, <2>1 DEF ReplacerKnows, IInv, ClosePlace
  <2>3. At(sockfd) \in {"new", "up", "down"}
    BY <1>0, <2>1, <2>2, AloneUses
  <2>4. ~strayed'
    BY <1>4, <2>1, <2>2, <2>3 DEF At
  <2>5. Own' = {}
    BY <1>0, <1>4, <2>1, <2>2 DEF Own
  <2> QED
    BY <1>5, <2>1, <2>4, <2>5
<1>8. CASE ClearSocket(t)
  <2>1. /\ pc[t] = "clear" /\ sockfd' = NoFd /\ Goto(t, then[t]) /\ UNCHANGED <<table, strayed>>
    BY <1>8 DEF ClearSocket, kernel
  <2>2. Own' = {} /\ then[t] \in {"socket", "sleep"}
    BY <1>0, <1>4, <2>1 DEF Own, ReplacerKnows
  <2> QED
    BY <1>4, <1>5, <2>1, <2>2
<1>9. CASE Socket(t)
  <2>1. pc[t] = "socket" /\ strayed' = strayed
    BY <1>9 DEF Socket
  <2>2. sockfd = NoFd /\ Own = {}
    BY <1>0, <1>4, <2>1 DEF ReplacerKnows
  <2>3. CASE Free = {}
    <3>1. sockfd' = NoFd /\ table' = table /\ Goto(t, "sleep")
      BY <1>9, <2>3 DEF Socket
    <3>2. Own' = {}
      BY <2>2, <3>1 DEF Own
    <3> QED
      BY <1>4, <1>5, <2>1, <3>1, <3>2
  <2>4. CASE Free # {}
    <3>1. PICK d \in Fd : d = Min(Free)
      BY <2>4, FreeDescriptor
    <3>2. sockfd' = d /\ table' = [table EXCEPT ![d] = "new"] /\ Goto(t, "connect")
      BY <1>9, <2>4, <3>1 DEF Socket
    <3>3. Own' = {d}
      BY <1>0, <2>2, <3>2 DEF Own
    <3> QED
      BY <1>4, <1>5, <2>1, <3>2, <3>3
  <2> QED
    BY <2>3, <2>4
<1>10. CASE ConnectWorks(t)
  <2>1. /\ Uses(t) /\ pc[t] = "connect" /\ At(sockfd) = "new" /\ Goto(t, "work")
        /\ table' = [table EXCEPT ![sockfd] = "up"] /\ UNCHANGED <<sockfd, strayed>>
    BY <1>10 DEF ConnectWorks
  <2>2. sockfd \in Fd /\ sockfd \in Own
    BY <1>0, <2>1 DEF At, Own
  <2>3. Own' = Own
    BY <1>0, <2>1, <2>2 DEF Own
  <2> QED
    BY <1>4, <1>5, <2>1, <2>2, <2>3
<1>11. CASE ConnectFails(t)
  <2>1. /\ Uses(t) /\ pc[t] = "connect" /\ Goto(t, "check")
        /\ strayed' = (strayed \/ At(sockfd) = "other") /\ UNCHANGED <<table, sockfd>>
    BY <1>11 DEF ConnectFails, kernel
  <2>2. Own' = Own /\ (sockfd # NoFd => sockfd \in Own /\ At(sockfd) \in {"new", "up", "down"})
    BY <1>0, <2>1, AloneUses DEF Own
  <2>3. ~strayed'
    BY <1>4, <2>1, <2>2 DEF At
  <2> QED
    BY <1>4, <1>5, <2>1, <2>2, <2>3
<1>12. CASE Wake(t)
  <2>1. pc[t] = "sleep" /\ Goto(t, "socket") /\ UNCHANGED <<table, sockfd, strayed>>
    BY <1>12 DEF Wake, kernel, ghosts
  <2>2. Own' = Own /\ sockfd = NoFd
    BY <1>4, <2>1 DEF Own, ReplacerKnows
  <2> QED
    BY <1>4, <1>5, <2>1, <2>2
<1> QED
  BY <1>6, <1>7, <1>8, <1>9, <1>10, <1>11, <1>12 DEF Reconnect

LEMMA AloneStep == IInv /\ AloneInv /\ [Next]_vars => AloneInv'
<1> SUFFICES ASSUME IInv, AloneInv, [Next]_vars, ~overlap' PROVE AloneInv'
  BY DEF AloneInv
<1>0. /\ TypeOK /\ NoFd \notin Fd /\ Own \subseteq Fd /\ LinkAssumption
      /\ pc \in [Threads -> Replacing \cup {"off", "never", "work", "send", "sleep"}]
      /\ table \in [Fd -> SocketState] /\ sockfd \in Fd \cup {NoFd}
  BY LinkAssumption DEF IInv, TypeOK, NoFd, Fd, Own
<1>1. ASSUME Own' = Own, UNCHANGED <<sockfd, pc, fd, overlap, strayed>> PROVE AloneInv'
  BY <1>1 DEF AloneInv, OneReplaces, SockfdIsOwn, ReplacerKnows
<1>2. ASSUME UNCHANGED <<table, sockfd, fd>>, ~overlap, ~strayed', NEW t \in Threads, NEW where,
             Goto(t, where), where \notin {"close", "clear", "socket", "sleep", "off", "never"},
             pc[t] # "clear", where \in Busy => \A u \in Threads : u # t => pc[u] \notin Busy
      PROVE  AloneInv'
  <2>1. Own' = Own /\ Own \subseteq {sockfd} /\ OneReplaces /\ SockfdIsOwn /\ ReplacerKnows
    BY <1>2 DEF AloneInv, Own
  <2>2. pc'[t] = where /\ \A u \in Threads : u # t => pc'[u] = pc[u]
    BY <1>0, <1>2 DEF Goto
  <2>3. OneReplaces'
    BY <1>2, <2>1, <2>2 DEF OneReplaces
  <2>4. SockfdIsOwn' /\ ReplacerKnows'
    BY <1>2, <2>1, <2>2 DEF SockfdIsOwn, ReplacerKnows
  <2> QED
    BY <1>2, <2>1, <2>3, <2>4 DEF AloneInv
<1>3. CASE ServerGoes
  <2>1. Own' = Own
    BY <1>0, <1>3 DEF ServerGoes, Own
  <2> QED
    BY <1>1, <1>3, <2>1 DEF ServerGoes, ghosts
<1>4. CASE OtherOpens
  <2>1. Free # {}
    BY <1>4, FS_EmptySet DEF OtherOpens
  <2>2. PICK d \in Fd : d = Min(Free) /\ table[d] = "free"
    BY <1>0, <2>1, FreeDescriptor
  <2>3. table' = [table EXCEPT ![d] = "other"]
    BY <1>4, <2>2 DEF OtherOpens
  <2>4. Own' = Own
    BY <1>0, <2>2, <2>3 DEF Own
  <2> QED
    BY <1>1, <1>4, <2>4 DEF OtherOpens, threads, ghosts
<1>5. ASSUME NEW d \in Fd, OtherCloses(d) PROVE AloneInv'
  <2>1. Own' = Own
    BY <1>0, <1>5 DEF OtherCloses, CloseDescriptor, Own
  <2> QED
    BY <1>1, <1>5, <2>1 DEF OtherCloses, ghosts
<1>6. CASE InitConnects
  <2>1. ~overlap /\ ~strayed /\ pc["tx"] = "off" /\ ~strayed' /\ pc' = [t \in Threads |-> "work"]
    BY <1>6 DEF InitConnects, ghosts, AloneInv
  <2>2. sockfd = NoFd /\ Own = {}
    BY <1>0, <2>1 DEF AloneInv, ReplacerKnows, Threads
  <2>3. PICK d \in Fd : d = Min(Free)
    BY <1>0, <2>1, FreeDescriptor DEF IInv, StartPlace
  <2>4. sockfd' = d /\ table' = [table EXCEPT ![d] = "up"]
    BY <1>6, <2>3 DEF InitConnects
  <2>5. Own' = {sockfd'}
    BY <1>0, <2>2, <2>4 DEF Own
  <2>6. \A t \in Threads : pc'[t] = "work"
    BY <2>1
  <2>7. OneReplaces' /\ SockfdIsOwn' /\ ReplacerKnows'
    BY <2>5, <2>6 DEF OneReplaces, SockfdIsOwn, ReplacerKnows, Busy, Replacing
  <2> QED
    BY <2>1, <2>5, <2>7 DEF AloneInv
<1>7. CASE InitFails
  <2>1. /\ ~overlap /\ ~strayed' /\ pc["tx"] = "off" /\ UNCHANGED <<table, sockfd>>
        /\ pc' = [t \in Threads |-> "never"]
    BY <1>7 DEF InitFails, ghosts, kernel, AloneInv
  <2>2. sockfd = NoFd /\ Own' = {}
    BY <1>0, <2>1 DEF AloneInv, ReplacerKnows, Threads, Own
  <2>3. \A t \in Threads : pc'[t] = "never"
    BY <2>1
  <2>4. OneReplaces' /\ SockfdIsOwn' /\ ReplacerKnows'
    BY <2>1, <2>2, <2>3 DEF OneReplaces, SockfdIsOwn, ReplacerKnows, Busy, Replacing
  <2> QED
    BY <2>1, <2>2, <2>4 DEF AloneInv
<1>8. CASE Pop
  <2>1. /\ UNCHANGED <<table, sockfd, fd, overlap, strayed>> /\ Goto("tx", "send") /\ pc["tx"] = "work"
    BY <1>8 DEF Pop, kernel, ghosts
  <2> QED
    BY <1>2, <2>1 DEF Threads, Busy, Replacing, AloneInv
<1>9. CASE SendWorks
  <2>1. /\ UNCHANGED <<table, sockfd, fd>> /\ Goto("tx", "work") /\ pc["tx"] = "send" /\ Uses("tx")
        /\ strayed' = (strayed \/ At(sockfd) = "other")
    BY <1>9 DEF SendWorks, kernel
  <2>2. ~overlap /\ ~strayed'
    BY <1>0, <2>1, AloneUses DEF Threads, AloneInv, At
  <2> QED
    BY <1>2, <2>1, <2>2 DEF Threads, Busy, Replacing
<1>10. CASE SendFails
  <2>1. /\ UNCHANGED <<table, sockfd, fd>> /\ Goto("tx", "check") /\ pc["tx"] = "send" /\ Uses("tx")
        /\ strayed' = (strayed \/ At(sockfd) = "other")
    BY <1>10 DEF SendFails, kernel
  <2>2. ~overlap /\ ~strayed' /\ \A u \in Threads : u # "tx" => pc[u] \notin Busy
    BY <1>0, <2>1, AloneUses DEF Threads, AloneInv, At
  <2> QED
    BY <1>2, <2>1, <2>2 DEF Threads
<1>11. CASE RecvBlocks
  <2>1. /\ UNCHANGED <<table, sockfd, pc, fd>> /\ pc["rx"] = "work" /\ Uses("rx")
        /\ strayed' = (strayed \/ At(sockfd) = "other")
    BY <1>11 DEF RecvBlocks, kernel
  <2>2. ~overlap /\ ~strayed'
    BY <1>0, <2>1, AloneUses DEF Threads, AloneInv, At
  <2>3. Goto("rx", "work")
    BY <1>0, <2>1 DEF Goto, Threads
  <2> QED
    BY <1>2, <2>1, <2>2, <2>3 DEF Threads, Busy, Replacing
<1>12. CASE RecvFails
  <2>1. /\ UNCHANGED <<table, sockfd, fd, strayed>> /\ Goto("rx", "check") /\ pc["rx"] = "work" /\ Uses("rx")
    BY <1>12 DEF RecvFails, kernel
  <2>2. ~overlap /\ ~strayed' /\ \A u \in Threads : u # "rx" => pc[u] \notin Busy
    BY <1>0, <2>1, AloneUses DEF Threads, AloneInv
  <2> QED
    BY <1>2, <2>1, <2>2 DEF Threads
<1>13. CASE ServerComes \/ WriteBytes \/ ReadBytes \/ RecvReturnsData \/ UNCHANGED vars
  <2>1. UNCHANGED <<table, sockfd, pc, fd, overlap, strayed>>
    BY <1>13 DEF ServerComes, WriteBytes, ReadBytes, RecvReturnsData, vars, kernel, threads, ghosts
  <2>2. Own' = Own
    BY <2>1 DEF Own
  <2> QED
    BY <1>1, <2>1, <2>2
<1>14. ASSUME NEW t \in Threads, Reconnect(t) PROVE AloneInv'
  BY <1>0, <1>14, AloneReconnect
<1> QED
  BY <1>3, <1>4, <1>5, <1>6, <1>7, <1>8, <1>9, <1>10, <1>11, <1>12, <1>13, <1>14
     DEF Next, TxLoop, RxLoop, Threads

(* Until one thread uses the socket while the other replaces it, the link   *)
(* leaks no descriptor and neither sends on, receives from nor closes one   *)
(* that belongs to another part of the program: all such trouble takes both *)
(* threads.                                                                 *)
THEOREM AloneIsCleanAlways == Spec => []AloneIsClean
<1>1. AloneInv => AloneIsClean
  BY DEF AloneInv, AloneIsClean
<1> QED
  BY <1>1, PlaceInit, PlaceStep, AloneInit, AloneStep, PTL DEF Spec
==============================================================================
