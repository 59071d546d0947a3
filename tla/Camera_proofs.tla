---------------------------- MODULE Camera_proofs ----------------------------
(***************************************************************************)
(* HysteresisLock for every FramesRequired, AllowedMissed and UintMax: the *)
(* two counters say what the whole history says.  Then Camera, which       *)
(* drives the lock, for every number of frame buffers, chunk size, image   *)
(* size and set of clients.                                                *)
(***************************************************************************)
EXTENDS Camera, FiniteSetTheorems, SequenceTheorems, TLAPS

\* missed is the length of the run of misses that ends history h
TrailingMisses(h, missed) ==
    /\ missed \in 0 .. Len(h)
    /\ \A k \in Len(h) - missed + 1 .. Len(h) : ~h[k]
    /\ missed < Len(h) => h[Len(h) - missed]

(* The inductive invariant: LockMatchesHistory alone is not inductive, the  *)
(* counters themselves must be tied to the history.                         *)
CountersMatchHistory ==
    Len(history) <= UintMax =>
        /\ lock.okFrames = Cardinality(Counting(history))
        /\ TrailingMisses(history, lock.missedConsecutiveFrames)

IInv == TypeOK /\ CountersMatchHistory

(* The frames that count are finitely many, so the library's facts about    *)
(* Cardinality apply to them.                                               *)
LEMMA CountingFinite ==
    ASSUME NEW h \in Seq(BOOLEAN)
    PROVE  /\ IsFiniteSet(Counting(h))
           /\ Cardinality(Counting(h)) \in Nat
           /\ Cardinality(Counting(h)) <= Len(h)
<1>1. Len(h) \in Nat
  BY LenProperties
<1>2. IsFiniteSet(1 .. Len(h)) /\ Cardinality(1 .. Len(h)) = Len(h)
  BY <1>1, FS_Interval
<1>3. Counting(h) \subseteq 1 .. Len(h)
  BY DEF Counting
<1>4. /\ IsFiniteSet(Counting(h))
      /\ Cardinality(Counting(h)) <= Cardinality(1 .. Len(h))
  BY <1>2, <1>3, FS_Subset
<1> QED
  BY <1>2, <1>4, FS_CardinalityType

(* A frame that saw the target adds itself to the frames that count and     *)
(* cancels none (the first branch of HysteresisLock::update).               *)
LEMMA CountingSeen ==
    ASSUME NEW h \in Seq(BOOLEAN)
    PROVE  Counting(Append(h, TRUE)) = Counting(h) \cup {Len(h) + 1}
<1> DEFINE g == Append(h, TRUE)
<1>1. /\ Len(h) \in Nat
      /\ Len(g) = Len(h) + 1
      /\ \A k \in 1 .. Len(h) : g[k] = h[k]
      /\ g[Len(h) + 1] = TRUE
  BY LenProperties, AppendProperties
<1> HIDE DEF g
<1>2. ASSUME NEW m \in 1 .. Len(h)
      PROVE  MissRun(g, m) <=> MissRun(h, m)
  BY <1>1, LockAssumption DEF MissRun
<1>3. ~MissRun(g, Len(h) + 1)
  <2>1. Len(h) + 1 \in Len(h) + 1 .. Len(h) + 1 + AllowedMissed - 1
    BY <1>1, LockAssumption
  <2> QED
    BY <2>1, <1>1 DEF MissRun
<1>4. ASSUME NEW n \in 1 .. Len(h)
      PROVE  n \in Counting(g) <=> n \in Counting(h)
  BY <1>1, <1>2, <1>3 DEF Counting
<1>5. Len(h) + 1 \in Counting(g)
  BY <1>1 DEF Counting
<1>6. Counting(g) \subseteq 1 .. Len(h) + 1 /\ Counting(h) \subseteq 1 .. Len(h)
  BY <1>1 DEF Counting
<1>7. Counting(g) = Counting(h) \cup {Len(h) + 1}
  BY <1>1, <1>4, <1>5, <1>6
<1> QED
  BY <1>7 DEF g

(* A missed frame that does not complete a run of AllowedMissed cancels     *)
(* nothing.                                                                 *)
LEMMA CountingShortMiss ==
    ASSUME NEW h \in Seq(BOOLEAN), NEW missed \in Nat,
           TrailingMisses(h, missed), missed + 1 < AllowedMissed
    PROVE  Counting(Append(h, FALSE)) = Counting(h)
<1> DEFINE g == Append(h, FALSE)
<1>1. /\ Len(h) \in Nat
      /\ Len(g) = Len(h) + 1
      /\ \A k \in 1 .. Len(h) : g[k] = h[k]
      /\ g[Len(h) + 1] = FALSE
  BY LenProperties, AppendProperties
<1> HIDE DEF g
<1>2. ASSUME NEW m \in 2 .. Len(h) + 1, MissRun(g, m)
      PROVE  m <= Len(h) /\ MissRun(h, m)
  <2>1. m + AllowedMissed - 1 \in m .. m + AllowedMissed - 1
    BY LockAssumption
  <2>2. m + AllowedMissed - 1 <= Len(h) + 1
    BY <2>1, <1>1, <1>2 DEF MissRun
  <2>3. missed < Len(h) /\ h[Len(h) - missed]
    BY <2>2, <1>1, LockAssumption DEF TrailingMisses
  <2>4. Len(h) - missed \in 1 .. Len(h) /\ g[Len(h) - missed]
    BY <2>3, <1>1
  <2>5. Len(h) - missed \notin m .. m + AllowedMissed - 1
    BY <2>4, <1>2 DEF MissRun
  <2>6. m + AllowedMissed - 1 <= Len(h)
    BY <2>2, <2>4, <2>5, <1>1, LockAssumption
  <2> QED
    BY <2>6, <1>1, <1>2, LockAssumption DEF MissRun
<1>3. ASSUME NEW m \in 1 .. Len(h), MissRun(h, m)
      PROVE  MissRun(g, m)
  BY <1>1, <1>3, LockAssumption DEF MissRun
<1>4. ASSUME NEW n \in 1 .. Len(h)
      PROVE  n \in Counting(g) <=> n \in Counting(h)
  BY <1>1, <1>2, <1>3 DEF Counting
<1>5. Counting(g) \subseteq 1 .. Len(h) /\ Counting(h) \subseteq 1 .. Len(h)
  BY <1>1 DEF Counting
<1>6. Counting(g) = Counting(h)
  BY <1>4, <1>5
<1> QED
  BY <1>6 DEF g

(* A missed frame that completes a run of AllowedMissed cancels every       *)
(* earlier sighting (okFrames = 0 in HysteresisLock::update).               *)
LEMMA CountingLongMiss ==
    ASSUME NEW h \in Seq(BOOLEAN), NEW missed \in Nat,
           TrailingMisses(h, missed), missed + 1 >= AllowedMissed
    PROVE  Counting(Append(h, FALSE)) = {}
<1> DEFINE g == Append(h, FALSE)
           start == Len(h) + 2 - AllowedMissed
<1>1. /\ Len(h) \in Nat
      /\ Len(g) = Len(h) + 1
      /\ \A k \in 1 .. Len(h) : g[k] = h[k]
      /\ g[Len(h) + 1] = FALSE
  BY LenProperties, AppendProperties
<1> HIDE DEF g
<1>2. SUFFICES ASSUME NEW n \in Counting(g) PROVE FALSE
  BY DEF g
<1>3. n \in 1 .. Len(h) + 1 /\ g[n] /\ \A m \in n + 1 .. Len(h) + 1 : ~MissRun(g, m)
  BY <1>1 DEF Counting
<1>4. n <= Len(h) /\ n <= Len(h) - missed
  BY <1>1, <1>3 DEF TrailingMisses
<1>5. start \in n + 1 .. Len(h) + 1
  BY <1>1, <1>3, <1>4, LockAssumption
<1>6. MissRun(g, start)
  <2>1. SUFFICES ASSUME NEW k \in start .. start + AllowedMissed - 1
                 PROVE  k <= Len(g) /\ ~g[k]
    BY DEF MissRun
  <2>2. k \in Len(h) - missed + 1 .. Len(h) + 1 /\ k >= 1
    BY <1>1, <1>3, <1>5, LockAssumption DEF TrailingMisses
  <2> QED
    BY <2>2, <1>1 DEF TrailingMisses
<1> QED
  BY <1>3, <1>5, <1>6

(* HysteresisLock::update keeps both counters in range: type correctness.   *)
LEMMA LockTypeCorrect == Spec => []TypeOK
<1>1. Init => TypeOK
  BY LockAssumption DEF Init, TypeOK, LockInit, Lock, Uint
<1>2. TypeOK /\ [Next]_vars => TypeOK'
  <2>1. SUFFICES ASSUME TypeOK, [Next]_vars PROVE TypeOK'
    OBVIOUS
  <2>2. CASE Next
    <3>1. PICK b \in BOOLEAN : Update(b)
      BY <2>2 DEF Next
    <3>2. lock' \in Lock
      BY <2>1, <3>1, LockAssumption
         DEF TypeOK, Update, LockUpdate, Seen, Missed, Increment, Lock, Uint
    <3>3. history' \in Seq(BOOLEAN)
      BY <2>1, <3>1, AppendProperties DEF TypeOK, Update
    <3> QED
      BY <3>2, <3>3 DEF TypeOK
  <2>3. CASE UNCHANGED vars
    BY <2>1, <2>3 DEF TypeOK, vars
  <2> QED
    BY <2>1, <2>2, <2>3
<1> QED
  BY <1>1, <1>2, PTL DEF Spec

(* The counters keep matching the history when one more frame is recorded.  *)
LEMMA UpdatePreservesCounters ==
    ASSUME IInv, NEW b \in BOOLEAN, Update(b)
    PROVE  CountersMatchHistory'
<1> DEFINE h == history
           missed == lock.missedConsecutiveFrames
<1>1. /\ h \in Seq(BOOLEAN)
      /\ lock.okFrames \in Uint /\ missed \in Uint
      /\ Len(h) \in Nat
  BY LenProperties DEF IInv, TypeOK, Lock
<1>2. /\ history' = Append(h, b)
      /\ Len(history') = Len(h) + 1
      /\ \A k \in 1 .. Len(h) : history'[k] = h[k]
      /\ history'[Len(h) + 1] = b
  BY <1>1, AppendProperties DEF Update
<1>3. SUFFICES ASSUME Len(history') <= UintMax
               PROVE  /\ lock'.okFrames = Cardinality(Counting(history'))
                      /\ TrailingMisses(history', lock'.missedConsecutiveFrames)
  BY DEF CountersMatchHistory
<1>4. /\ lock.okFrames = Cardinality(Counting(h))
      /\ TrailingMisses(h, missed)
      /\ lock.okFrames <= Len(h) /\ missed <= Len(h)
      /\ Len(h) < UintMax
  BY <1>1, <1>2, <1>3, CountingFinite, LockAssumption
     DEF IInv, CountersMatchHistory, TrailingMisses
<1>5. CASE b
  <2>1. /\ lock'.okFrames = lock.okFrames + 1
        /\ lock'.missedConsecutiveFrames = 0
    BY <1>1, <1>4, <1>5, LockAssumption
       DEF Update, LockUpdate, Seen, Increment, Uint
  <2>2. Counting(history') = Counting(h) \cup {Len(h) + 1}
    BY <1>1, <1>2, <1>5, CountingSeen
  <2>3. Len(h) + 1 \notin Counting(h)
    BY <1>1 DEF Counting
  <2>4. Cardinality(Counting(history')) = Cardinality(Counting(h)) + 1
    <3>1. IsFiniteSet(Counting(h))
      BY <1>1, CountingFinite
    <3>2. Cardinality(Counting(h) \cup {Len(h) + 1}) = Cardinality(Counting(h)) + 1
      BY <2>3, <3>1, FS_AddElement
    <3> QED
      BY <2>2, <3>2
  <2>5. TrailingMisses(history', 0)
    BY <1>1, <1>2, <1>5 DEF TrailingMisses
  <2> QED
    BY <1>4, <2>1, <2>4, <2>5
<1>6. CASE ~b
  <2>1. /\ lock'.missedConsecutiveFrames = missed + 1
        /\ missed + 1 >= AllowedMissed => lock'.okFrames = 0
        /\ missed + 1 < AllowedMissed => lock'.okFrames = lock.okFrames
    BY <1>1, <1>4, <1>6, LockAssumption
       DEF Update, LockUpdate, Missed, Increment, Uint
  <2>2. TrailingMisses(history', missed + 1)
    BY <1>1, <1>2, <1>4, <1>6 DEF TrailingMisses
  <2>3. lock'.okFrames = Cardinality(Counting(history'))
    <3>a. b = FALSE
      BY <1>6, Zenon
    <3>b. missed \in Nat /\ AllowedMissed \in Nat
      BY <1>1, LockAssumption DEF Uint
    <3>c. history' = Append(h, FALSE)
      BY <3>a, <1>2
    <3> HIDE DEF h, missed
    <3>1. CASE missed + 1 < AllowedMissed
      BY <1>1, <1>4, <2>1, <3>b, <3>c, <3>1, CountingShortMiss
    <3>2. CASE missed + 1 >= AllowedMissed
      <4>1. Counting(history') = {}
        BY <1>1, <1>4, <3>b, <3>c, <3>2, CountingLongMiss
      <4> QED
        BY <2>1, <3>2, <4>1, FS_EmptySet
    <3> QED
      BY <3>1, <3>2, <3>b
  <2> QED
    BY <2>1, <2>2, <2>3
<1> QED
  BY <1>5, <1>6

(* The lock HysteresisLock::update reports is the one the whole history     *)
(* defines, for all values of the constants.                                *)
THEOREM LockMatchesHistoryAlways == Spec => []LockMatchesHistory
<1>1. Init => CountersMatchHistory
  <2>1. SUFFICES ASSUME Init PROVE CountersMatchHistory
    OBVIOUS
  <2>2. history = << >> /\ Len(history) = 0 /\ lock = LockInit
    BY <2>1 DEF Init
  <2>3. Counting(history) = {}
    BY <2>2 DEF Counting
  <2>4. TrailingMisses(history, 0)
    BY <2>2 DEF TrailingMisses
  <2> QED
    BY <2>2, <2>3, <2>4, FS_EmptySet DEF CountersMatchHistory, LockInit
<1>2. TypeOK /\ CountersMatchHistory /\ [Next]_vars => CountersMatchHistory'
  <2>1. SUFFICES ASSUME TypeOK, CountersMatchHistory, [Next]_vars
                 PROVE  CountersMatchHistory'
    OBVIOUS
  <2>2. CASE Next
    BY <2>1, <2>2, UpdatePreservesCounters DEF Next, IInv
  <2>3. CASE UNCHANGED vars
    BY <2>1, <2>3 DEF vars, CountersMatchHistory, Counting, MissRun, TrailingMisses
  <2> QED
    BY <2>1, <2>2, <2>3
<1>3. CountersMatchHistory => LockMatchesHistory
  BY DEF CountersMatchHistory, LockMatchesHistory, HasLock
<1> QED
  BY <1>1, <1>2, <1>3, LockTypeCorrect, PTL DEF Spec

-----------------------------------------------------------------------------
(* The camera behind which the lock sits. *)

\* Linux never takes a frame buffer
NoFailures == ~OnEsp32 => jpegFailures = 0 /\ buffers = FbCount

ClientTypeOK ==
    /\ platform \in {"linux", "esp32"}
    /\ step \in Steps
    /\ udp \in Clients \cup {NoClient, "off"}
    /\ client \in Clients \cup {NoClient, "left"}

BufferTypeOK == buffers \in Nat /\ jpegFailures \in Nat

BufferInv == BufferTypeOK /\ NoFailures /\ BuffersAccounted

-----------------------------------------------------------------------------
(* The detector behind the camera. *)

(* Whatever becomes of the captures, the detector's lock takes only the     *)
(* steps of a lock that is told of each frame handed over.                  *)
THEOREM CameraDrivesLock == CameraSpec => Spec
<1>1. CameraInit => Init
  BY DEF CameraInit
<1>2. [CameraNext]_cameraVars => [Next]_vars
  BY DEF CameraNext, CaptureStep, cameraVars, ClientConnects, ClientLeaves, DisconnectClient,
         Capture, InitUdpBroadcast, NoFrame, GetFrame, DetectTags, Encode, EncodeFails,
         SendChunk, ImageSent
<1> QED
  BY <1>1, <1>2, PTL DEF CameraSpec, Spec

(* The lock is the one the frames the detector was given define.            *)
THEOREM CameraLockMatchesHistory == CameraSpec => []LockMatchesHistory
  BY CameraDrivesLock, LockMatchesHistoryAlways, PTL

-----------------------------------------------------------------------------
(* The control of capture() and the broadcast's address. *)

LEMMA ClientTypesInit == CameraInit => ClientTypeOK
BY Zenon DEF CameraInit, ClientTypeOK, Steps

LEMMA ClientTypesStep ==
    ASSUME ClientTypeOK, [CameraNext]_cameraVars
    PROVE  ClientTypeOK'
<1> USE DEF Steps, ClientTypeOK
<1>1. CASE (\E c \in Clients : ClientConnects(c)) \/ ClientLeaves \/ DisconnectClient
  BY <1>1 DEF ClientConnects, ClientLeaves, DisconnectClient, device
<1>2. CASE Capture \/ InitUdpBroadcast
  BY <1>2 DEF Capture, InitUdpBroadcast, device
<1>3. CASE NoFrame \/ GetFrame \/ DetectTags \/ EncodeFails \/ SendChunk \/ ImageSent
  BY <1>3 DEF NoFrame, GetFrame, DetectTags, EncodeFails, SendChunk, ImageSent, device
<1>4. CASE \E length \in 0 .. MaxImage : Encode(length)
  BY <1>4 DEF Encode, device
<1>5. CASE UNCHANGED cameraVars
  BY <1>5 DEF cameraVars, device
<1> QED
  BY <1>1, <1>2, <1>3, <1>4, <1>5 DEF CameraNext, CaptureStep

-----------------------------------------------------------------------------
(* The frame buffers. *)

LEMMA BufferInvInit == CameraInit => BufferInv
BY CameraAssumption
   DEF CameraInit, BufferInv, BufferTypeOK, NoFailures, BuffersAccounted, OnEsp32

LEMMA BufferInvStep ==
    ASSUME BufferInv, [CameraNext]_cameraVars
    PROVE  BufferInv'
<1> USE CameraAssumption DEF BufferInv, BufferTypeOK, NoFailures, BuffersAccounted, OnEsp32
<1>1. CASE \/ \E c \in Clients : ClientConnects(c)
           \/ ClientLeaves \/ DisconnectClient \/ UNCHANGED cameraVars
  <2>1. UNCHANGED <<platform, buffers, jpegFailures, step>>
    BY <1>1 DEF ClientConnects, ClientLeaves, DisconnectClient, cameraVars, device, frames
  <2> QED
    BY <2>1
<1>2. CASE Capture \/ InitUdpBroadcast \/ NoFrame \/ SendChunk \/ ImageSent \/ DetectTags
  <2>1. UNCHANGED <<platform, buffers, jpegFailures>>
    BY <1>2 DEF Capture, InitUdpBroadcast, NoFrame, SendChunk, ImageSent, DetectTags,
                device, frames
  <2>2. (step \in {"detect", "encode"}) = (step' \in {"detect", "encode"})
    BY <1>2 DEF Capture, InitUdpBroadcast, NoFrame, SendChunk, ImageSent, DetectTags
  <2> QED
    BY <2>1, <2>2
<1>3. CASE GetFrame
  BY <1>3 DEF GetFrame, device
<1>4. CASE \E length \in 0 .. MaxImage : Encode(length)
  BY <1>4 DEF Encode, device
<1>5. CASE EncodeFails
  BY <1>5 DEF EncodeFails, device
<1> QED
  BY <1>1, <1>2, <1>3, <1>4, <1>5 DEF CameraNext, CaptureStep

(* No frame buffer is lost but by an image that could not be encoded.       *)
THEOREM BuffersAccountedAlways == CameraSpec => []BuffersAccounted
<1>1. BufferInv => BuffersAccounted
  BY DEF BufferInv
<1> QED
  BY <1>1, BufferInvInit, BufferInvStep, PTL DEF CameraSpec

-----------------------------------------------------------------------------
(* The image in chunks. *)

\* the bytes of the first n chunks
Covered(n) == IF n * ChunkSize > image THEN image ELSE n * ChunkSize

SendingInv ==
    /\ image \in 0 .. MaxImage /\ chunk \in 0 .. NumChunks
    /\ sent = Covered(chunk)
    /\ step # "send" => chunk = NumChunks

(* The number of chunks is the least one that covers the image.             *)
LEMMA NumChunksProperties ==
    ASSUME image \in Nat
    PROVE  /\ NumChunks \in Nat /\ NumChunks <= image
           /\ NumChunks * ChunkSize >= image
           /\ \A n \in Nat : n < NumChunks => n * ChunkSize < image
<1> DEFINE q == image \div ChunkSize
           r == image % ChunkSize
<1>1. /\ q \in Nat /\ r \in 0 .. ChunkSize - 1
      /\ image = q * ChunkSize + r
  BY CameraAssumption
<1>2. q <= image /\ (r > 0 => q + 1 <= image)
  BY <1>1, CameraAssumption
<1> QED
  BY <1>1, <1>2, CameraAssumption DEF NumChunks

LEMMA SendingInvInit == CameraInit => SendingInv
BY CameraAssumption, NumChunksProperties DEF CameraInit, SendingInv, Covered

(* Every step but SendChunk and the start of an image leaves them alone.    *)
LEMMA SendingUnchanged ==
    ASSUME SendingInv, UNCHANGED sending, step' = "send" => step = "send",
           step = "send" /\ step' # "send" => chunk = NumChunks
    PROVE  SendingInv'
BY DEF SendingInv, sending, Covered, NumChunks

LEMMA SendingInvStep ==
    ASSUME SendingInv, [CameraNext]_cameraVars
    PROVE  SendingInv'
<1>1. CASE \/ \E c \in Clients : ClientConnects(c)
           \/ ClientLeaves \/ DisconnectClient \/ UNCHANGED cameraVars
  <2>1. UNCHANGED <<step, sending>>
    BY <1>1 DEF ClientConnects, ClientLeaves, DisconnectClient, cameraVars
  <2> QED
    BY <2>1, SendingUnchanged
<1>2. CASE \/ Capture \/ InitUdpBroadcast \/ NoFrame \/ GetFrame \/ DetectTags
           \/ EncodeFails \/ ImageSent
  <2>1. UNCHANGED sending /\ step' # "send" /\ (step = "send" => chunk = NumChunks)
    BY <1>2 DEF Capture, InitUdpBroadcast, NoFrame, GetFrame, DetectTags, EncodeFails,
                ImageSent
  <2> QED
    BY <2>1, SendingUnchanged
<1>3. CASE \E length \in 0 .. MaxImage : Encode(length)
  <2>1. PICK length \in 0 .. MaxImage : Encode(length)
    BY <1>3
  <2>2. CASE OnEsp32 /\ udp = "off"
    <3>1. step = "encode" /\ step' = "idle" /\ UNCHANGED sending
      BY <2>1, <2>2 DEF Encode
    <3> QED
      BY <3>1, SendingUnchanged
  <2>3. CASE ~(OnEsp32 /\ udp = "off")
    <3>1. step' = "send" /\ image' = length /\ chunk' = 0 /\ sent' = 0
      BY <2>1, <2>3 DEF Encode
    <3>2. /\ length \div ChunkSize \in Nat /\ 0 * ChunkSize = 0
          /\ length \in Nat
      BY CameraAssumption
    <3>3. NumChunks' \in Nat
      BY <3>1, <3>2 DEF NumChunks
    <3> QED
      BY <3>1, <3>2, <3>3, CameraAssumption DEF SendingInv, Covered
  <2> QED
    BY <2>2, <2>3
<1>4. CASE SendChunk
  <2>1. /\ step = "send" /\ step' = "send" /\ image' = image
        /\ chunk < NumChunks /\ chunk' = chunk + 1
        /\ sent' = sent + (IF chunk * ChunkSize + ChunkSize > image
                           THEN image - chunk * ChunkSize ELSE ChunkSize)
    BY <1>4 DEF SendChunk
  <2>2. /\ image \in Nat /\ chunk \in Nat /\ NumChunks \in Nat
        /\ chunk * ChunkSize \in Nat /\ chunk * ChunkSize < image
        /\ (chunk + 1) * ChunkSize = chunk * ChunkSize + ChunkSize
    BY <2>1, CameraAssumption, NumChunksProperties DEF SendingInv
  <2>3. sent = chunk * ChunkSize
    BY <2>2 DEF SendingInv, Covered
  <2>4. sent' = Covered(chunk + 1)
    BY <2>1, <2>2, <2>3, CameraAssumption DEF Covered
  <2>5. NumChunks' = NumChunks
    BY <2>1 DEF NumChunks
  <2> QED
    BY <2>1, <2>2, <2>4, <2>5 DEF SendingInv, Covered
<1> QED
  BY <1>1, <1>2, <1>3, <1>4 DEF CameraNext, CaptureStep

LEMMA ImageInChunks == ASSUME SendingInv PROVE ImageSentWhole
<1>1. /\ image \in Nat /\ chunk \in Nat /\ sent = Covered(chunk)
      /\ step # "send" => chunk = NumChunks
  BY CameraAssumption, NumChunksProperties DEF SendingInv
<1>2. NumChunks * ChunkSize >= image /\ NumChunks * ChunkSize \in Nat
      /\ chunk * ChunkSize \in Nat
  BY <1>1, CameraAssumption, NumChunksProperties
<1> QED
  BY <1>1, <1>2 DEF ImageSentWhole, Covered

(* An image that was sent was sent whole, for every length and chunk size.  *)
THEOREM ImageSentWholeAlways == CameraSpec => []ImageSentWhole
  BY SendingInvInit, SendingInvStep, ImageInChunks, PTL DEF CameraSpec

-----------------------------------------------------------------------------
(* Type correctness: the parts above bound buffers, chunk and sent.         *)
LEMMA CameraTypes ==
    ASSUME TypeOK, ClientTypeOK, BufferInv, SendingInv, isInitialized \in BOOLEAN
    PROVE  CameraTypeOK
<1>1. buffers \in 0 .. FbCount /\ jpegFailures \in 0 .. FbCount
  BY CameraAssumption DEF BufferInv, BufferTypeOK, NoFailures, BuffersAccounted, OnEsp32
<1>2. /\ image \in 0 .. MaxImage /\ chunk \in 0 .. MaxImage
      /\ sent \in Nat /\ sent <= image
  <2>1. image \in 0 .. MaxImage /\ chunk \in 0 .. NumChunks /\ NumChunks <= image
        /\ NumChunks \in Nat
    BY CameraAssumption, NumChunksProperties DEF SendingInv
  <2>2. chunk * ChunkSize \in Nat
    BY <2>1, CameraAssumption
  <2> QED
    BY <2>1, <2>2, CameraAssumption DEF SendingInv, Covered
<1>3. sent \in 0 .. MaxImage
  BY <1>2, CameraAssumption
<1> QED
  BY <1>1, <1>2, <1>3 DEF CameraTypeOK, ClientTypeOK

(* Camera is type correct: frame buffers, chunks and bytes stay in range.   *)
THEOREM CameraTypeCorrect == CameraSpec => []CameraTypeOK
<1>1. CameraInit => isInitialized \in BOOLEAN
  BY DEF CameraInit
<1>2. isInitialized \in BOOLEAN /\ [CameraNext]_cameraVars => (isInitialized \in BOOLEAN)'
  <2>1. ASSUME [CameraNext]_cameraVars PROVE isInitialized' = isInitialized
    BY <2>1 DEF CameraNext, CaptureStep, cameraVars, device, ClientConnects, ClientLeaves,
           DisconnectClient, Capture, InitUdpBroadcast, NoFrame, GetFrame, DetectTags,
           Encode, EncodeFails, SendChunk, ImageSent
  <2> QED
    BY <2>1
<1> QED
  BY <1>1, <1>2, CameraDrivesLock, LockTypeCorrect, ClientTypesInit, ClientTypesStep,
     BufferInvInit, BufferInvStep, SendingInvInit, SendingInvStep, CameraTypes, PTL
     DEF CameraSpec
==============================================================================
