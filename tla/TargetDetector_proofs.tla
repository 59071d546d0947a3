------------------------ MODULE TargetDetector_proofs ------------------------
(***************************************************************************)
(* TargetDetector for every set of tags, every table size, timeout, clock  *)
(* width and frame contents: type correctness, one entry per tag, entries  *)
(* that are the latest detections, nothing stale kept, nothing fresh lost; *)
(* the array implements TagStore's map; and what TagReport sends about it. *)
(***************************************************************************)
EXTENDS TagReport, FiniteSetTheorems, SequenceTheorems, FunctionTheorems, TLAPS

\* UniqueIds of any list of tags
Unique(s) == \A j, k \in 1 .. Len(s) : s[j].id = s[k].id => j = k

(* How old an entry can be: a frame period more while the sweep of the      *)
(* current frame has not looked at it yet.                                  *)
SweepBound ==
    \A k \in 1 .. Len(tags) :
        /\ age[tags[k].id] <= Timeout + MaxGap + gap
        /\ (pc # "sweep" \/ k < i) => age[tags[k].id] <= Timeout + gap

IInv == TypeOK /\ UniqueIds /\ EntriesAreLatest /\ SweepBound

-----------------------------------------------------------------------------
(* What the tracker's operators do to a list of tags. *)

(* TagTracker::removeAt removes one entry and keeps the others in order.    *)
LEMMA RemoveAtProperties ==
    ASSUME NEW s \in Seq(Tag), NEW n \in 1 .. Len(s)
    PROVE  /\ RemoveAt(s, n) \in Seq(Tag)
           /\ Len(RemoveAt(s, n)) = Len(s) - 1
           /\ \A k \in 1 .. Len(s) - 1 :
                 RemoveAt(s, n)[k] = s[IF k < n THEN k ELSE k + 1]
<1>1. Len(s) \in Nat /\ \A k \in 1 .. Len(s) : s[k] \in Tag
  BY LenProperties, ElementOfSeq
<1>2. Len(s) - 1 \in Nat
  BY <1>1
<1>3. \A k \in 1 .. Len(s) - 1 :
         (IF k < n THEN s[k] ELSE s[k + 1]) \in Tag
  BY <1>1
<1>4. RemoveAt(s, n) \in [1 .. Len(s) - 1 -> Tag]
  BY <1>3 DEF RemoveAt
<1>5. RemoveAt(s, n) \in Seq(Tag) /\ Len(RemoveAt(s, n)) = Len(s) - 1
  BY <1>2, <1>4, SeqDef, LenProperties
<1> QED
  BY <1>5 DEF RemoveAt

(* The search loops stop at the entry with the id they look for.            *)
LEMMA IndexOfProperties ==
    ASSUME NEW s \in Seq(Tag), Unique(s), NEW id, TagExists(s, id)
    PROVE  IndexOf(s, id) \in 1 .. Len(s) /\ s[IndexOf(s, id)].id = id
<1>1. Len(s) \in Nat
  BY LenProperties
<1>2. PICK k \in 1 .. Len(s) : s[k].id = id
  BY DEF TagExists
<1>3. \A j \in 1 .. k - 1 : j \in 1 .. Len(s) /\ s[j].id # id
  BY <1>1, <1>2 DEF Unique
<1> QED
  BY <1>2, <1>3 DEF IndexOf

(* TagTracker::updateTag replaces, adds or ignores, and touches no other    *)
(* entry.                                                                   *)
LEMMA UpdateTagProperties ==
    ASSUME NEW s \in Seq(Tag), Unique(s), Len(s) <= MaxTags, NEW t \in Tag
    PROVE  /\ UpdateTag(s, t) \in Seq(Tag)
           /\ Len(UpdateTag(s, t)) <= MaxTags
           /\ Len(s) <= Len(UpdateTag(s, t))
           /\ Unique(UpdateTag(s, t))
           /\ \A k \in 1 .. Len(UpdateTag(s, t)) :
                 \/ UpdateTag(s, t)[k] = t
                 \/ k <= Len(s) /\ UpdateTag(s, t)[k] = s[k] /\ s[k].id # t.id
           /\ \A k \in 1 .. Len(s) : UpdateTag(s, t)[k].id = s[k].id
           /\ Len(s) < MaxTags => TagExists(UpdateTag(s, t), t.id)
<1> DEFINE u == UpdateTag(s, t)
<1>1. Len(s) \in Nat /\ \A k \in 1 .. Len(s) : s[k] \in Tag
  BY LenProperties, ElementOfSeq
<1>2. CASE TagExists(s, t.id)
  <2> DEFINE n == IndexOf(s, t.id)
  <2>1. n \in 1 .. Len(s) /\ s[n].id = t.id
    BY <1>2, IndexOfProperties
  <2> HIDE DEF n
  <2>2. u = [s EXCEPT ![n] = t]
    BY <1>2 DEF UpdateTag, n
  <2>3. /\ u \in Seq(Tag) /\ Len(u) = Len(s)
        /\ \A k \in 1 .. Len(s) : u[k] = IF k = n THEN t ELSE s[k]
    BY <2>1, <2>2, ExceptSeq
  <2>4. \A k \in 1 .. Len(s) : k # n => s[k].id # t.id
    BY <2>1 DEF Unique
  <2>5. \A k \in 1 .. Len(s) : u[k].id = s[k].id
    BY <2>1, <2>3
  <2> HIDE DEF u
  <2>6. Unique(u)
    BY <2>3, <2>5 DEF Unique
  <2>7. TagExists(u, t.id)
    BY <2>1, <2>3 DEF TagExists
  <2> QED
    BY <1>1, <2>3, <2>4, <2>5, <2>6, <2>7 DEF u
<1>3. CASE ~TagExists(s, t.id) /\ Len(s) < MaxTags
  <2>1. u = Append(s, t)
    BY <1>3 DEF UpdateTag
  <2>2. /\ u \in Seq(Tag) /\ Len(u) = Len(s) + 1
        /\ \A k \in 1 .. Len(s) : u[k] = s[k]
        /\ u[Len(s) + 1] = t
    BY <2>1, AppendProperties
  <2>3. \A k \in 1 .. Len(s) : s[k].id # t.id
    BY <1>3 DEF TagExists
  <2> HIDE DEF u
  <2>4. Unique(u)
    <3>1. SUFFICES ASSUME NEW j \in 1 .. Len(u), NEW k \in 1 .. Len(u),
                          u[j].id = u[k].id
                   PROVE  j = k
      BY DEF Unique
    <3>2. CASE j <= Len(s) /\ k <= Len(s)
      BY <3>1, <3>2, <2>2, <1>1 DEF Unique
    <3>3. CASE j <= Len(s) /\ k = Len(s) + 1
      BY <3>1, <3>3, <2>2, <2>3, <1>1
    <3>4. CASE j = Len(s) + 1 /\ k <= Len(s)
      BY <3>1, <3>4, <2>2, <2>3, <1>1
    <3> QED
      BY <3>2, <3>3, <3>4, <2>2, <1>1
  <2>5. TagExists(u, t.id)
    BY <1>1, <2>2 DEF TagExists
  <2>6. \A k \in 1 .. Len(u) :
           \/ u[k] = t
           \/ k <= Len(s) /\ u[k] = s[k] /\ s[k].id # t.id
    BY <1>1, <2>2, <2>3
  <2>7. Len(u) <= MaxTags /\ Len(s) <= Len(u)
    BY <1>1, <1>3, <2>2, TrackerAssumption
  <2>8. \A k \in 1 .. Len(s) : u[k].id = s[k].id
    BY <2>2
  <2> QED
    BY <2>2, <2>4, <2>5, <2>6, <2>7, <2>8 DEF u
<1>4. CASE ~TagExists(s, t.id) /\ ~(Len(s) < MaxTags)
  <2>1. u = s
    BY <1>4 DEF UpdateTag
  <2> QED
    BY <1>1, <1>4, <2>1 DEF TagExists, Unique
<1> QED
  BY <1>2, <1>3, <1>4

(* A list of different tags that misses one of them is shorter than the     *)
(* number of tags, so a large enough tracker has room for it.               *)
LEMMA RoomForMissingTag ==
    ASSUME NEW s \in Seq(Tag), Unique(s), NEW id \in Ids, ~TagExists(s, id),
           Cardinality(Ids) <= MaxTags
    PROVE  Len(s) < MaxTags
<1> DEFINE others == Ids \ {id}
           f == [k \in 1 .. Len(s) |-> s[k].id]
<1>1. Len(s) \in Nat /\ \A k \in 1 .. Len(s) : s[k] \in Tag
  BY LenProperties, ElementOfSeq
<1>2. f \in [1 .. Len(s) -> others]
  BY <1>1 DEF TagExists, Tag
<1>3. IsFiniteSet(others) /\ Cardinality(others) = Cardinality(Ids) - 1
  <2>1. IsFiniteSet(Ids)
    BY DetectorAssumption, Zenon
  <2> QED
    BY <2>1, FS_RemoveElement
<1>4. IsFiniteSet(1 .. Len(s)) /\ Cardinality(1 .. Len(s)) = Len(s)
  <2> DEFINE n == Len(s)
  <2>1. n \in Nat
    BY <1>1
  <2> HIDE DEF n
  <2>2. IsFiniteSet(1 .. n) /\ Cardinality(1 .. n) = IF 1 > n THEN 0 ELSE n - 1 + 1
    BY <2>1, FS_Interval
  <2>3. (IF 1 > n THEN 0 ELSE n - 1 + 1) = n
    BY <2>1
  <2> QED
    BY <2>2, <2>3 DEF n
<1>5. \A j, k \in 1 .. Len(s) : f[j] = f[k] => j = k
  BY DEF Unique
<1>6. Cardinality(1 .. Len(s)) <= Cardinality(others)
  <2> HIDE DEF f, others
  <2>1. SUFFICES ASSUME Cardinality(others) < Cardinality(1 .. Len(s)) PROVE FALSE
    BY <1>3, <1>4, FS_CardinalityType
  <2>2. \E j, k \in 1 .. Len(s) : j # k /\ f[j] = f[k]
    BY <2>1, <1>2, <1>3, <1>4, FS_PigeonHole
  <2> QED
    BY <2>2, <1>5
<1>7. Cardinality(Ids) \in Nat
  BY DetectorAssumption, FS_CardinalityType
<1> QED
  BY <1>1, <1>3, <1>4, <1>6, <1>7, TrackerAssumption

(* The list of detections the handler works on is a prefix of the frame's.  *)
LEMMA CutFrame ==
    ASSUME NEW frame \in Frames
    PROVE  SubSeq(frame, 1, Len(frame) % CountMod) \in Seq(Detection)
<1>1. frame \in Seq(Detection) /\ Len(frame) \in Nat
  BY DetectorAssumption, LenProperties
<1>2. Len(frame) % CountMod \in 0 .. Len(frame)
  BY <1>1, DetectorAssumption
<1>3. \A k \in 1 .. Len(frame) % CountMod : frame[k] \in Detection
  BY <1>1, <1>2, ElementOfSeq
<1> QED
  BY <1>2, <1>3, SubSeqProperties

-----------------------------------------------------------------------------
(* The invariant. *)

(* Type correctness is kept by every step; the lookup of the locked tag     *)
(* (FinishFrame) is well defined because ids are unique.                    *)
LEMMA TypeOKStep ==
    ASSUME TypeOK, UniqueIds, [Next]_vars
    PROVE  TypeOK'
<1> USE TrackerAssumption, LockAssumption, DetectorAssumption
<1>0. /\ \A k \in 1 .. Len(tags) : tags[k] \in Tag
      /\ Len(tags) \in Nat /\ Len(detections) \in Nat
      /\ \A k \in 1 .. Len(detections) : detections[k] \in Detection
      /\ Unique(tags)
  BY LenProperties, ElementOfSeq DEF TypeOK, UniqueIds, Unique
<1>1. CASE Tick
  BY <1>1 DEF Tick, TypeOK, Millis, NextMilli, local
<1>2. CASE BeginFrame
  BY <1>2 DEF BeginFrame, TypeOK
<1>3. CASE RemoveOldTag
  <2>1. i \in 1 .. Len(tags)
    BY <1>0, <1>3 DEF RemoveOldTag, TypeOK
  <2>2. tags' \in Seq(Tag) /\ Len(tags') <= MaxTags
    BY <1>0, <1>3, <2>1, RemoveAtProperties DEF RemoveOldTag, TypeOK
  <2> QED
    BY <1>3, <2>2 DEF RemoveOldTag, TypeOK, local, ghosts
<1>4. CASE KeepTag
  BY <1>4 DEF KeepTag, TypeOK, ghosts
<1>5. CASE Detect
  <2>1. detections' \in Seq(Detection)
    BY <1>5, CutFrame DEF Detect
  <2>2. tag' \in Tag \cup {Uninitialised} /\ targetTagFound' \in BOOLEAN
    BY <1>5, Zenon DEF Detect
  <2> QED
    BY <1>5, <2>1, <2>2, SMTT(20) DEF Detect, TypeOK, ghosts
<1>6. CASE UpdateDetection
  <2>1. detections[i] \in Detection
    BY <1>0, <1>6 DEF UpdateDetection, TypeOK
  <2>2. tag' \in Tag
    BY <1>6, <2>1 DEF UpdateDetection, TypeOK, Tag, Detection
  <2>3. tags' \in Seq(Tag) /\ Len(tags') <= MaxTags
    BY <1>0, <1>6, <2>2, UpdateTagProperties DEF UpdateDetection, TypeOK
  <2>4. age' \in [Ids -> 0 .. AgeCap] /\ latest' \in [Ids -> Positions \cup {Zeros}]
    BY <1>6, <2>1 DEF UpdateDetection, TypeOK, Detection
  <2>5. targetTagFound' \in BOOLEAN
    BY <1>6 DEF UpdateDetection, TypeOK
  <2> QED
    BY <1>6, <2>2, <2>3, <2>4, <2>5, SMTT(20) DEF UpdateDetection, TypeOK
<1>7. CASE FinishFrame
  <2>1. lock' \in Lock
    BY <1>7 DEF FinishFrame, TypeOK, LockUpdate, Seen, Missed, Increment, Lock, Uint
  <2>2. landing' \in LandingTarget
    <3>1. CASE ~HasLock(lock')
      BY <1>7, <3>1 DEF FinishFrame, TypeOK
    <3>2. CASE HasLock(lock')
      <4>1. PICK t \in LocalTags :
               landing' = [id |-> GetTag(tags, TargetTagId, t).id,
                           pos |-> GetTag(tags, TargetTagId, t).pos]
        BY <1>7, <3>2 DEF FinishFrame, CalculateLandingTarget
      <4>2. t.id \in Ids \cup {NoId} /\ t.pos \in Positions \cup {Garbage}
        BY DEF LocalTags, TypeOK, Tag
      <4>3. CASE TagExists(tags, t.id)
        <5>1. tags[IndexOf(tags, t.id)] \in Tag
          BY <1>0, <4>3, IndexOfProperties DEF TypeOK
        <5> QED
          BY <4>1, <4>3, <5>1 DEF GetTag, GetTagFound, LandingTarget, Tag
      <4>4. CASE ~TagExists(tags, t.id)
        BY <4>1, <4>2, <4>4 DEF GetTag, GetTagFound, LandingTarget
      <4> QED
        BY <4>3, <4>4
    <3> QED
      BY <3>1, <3>2
  <2>3. detections' \in Seq(Detection)
    BY <1>7, EmptySeq DEF FinishFrame
  <2>4. tag' \in Tag \cup {Uninitialised} /\ targetTagFound' \in BOOLEAN
    BY <1>7, Zenon DEF FinishFrame
  <2> QED
    BY <1>7, <2>1, <2>2, <2>3, <2>4 DEF FinishFrame, TypeOK, ghosts
<1>8. CASE UNCHANGED vars
  BY <1>8 DEF TypeOK, vars, local, ghosts
<1> QED
  BY <1>1, <1>2, <1>3, <1>4, <1>5, <1>6, <1>7, <1>8 DEF Next, DetectTagsInImage

(* Only removeAt and updateTag change the table, and both keep ids unique.  *)
LEMMA UniqueIdsStep ==
    ASSUME TypeOK, UniqueIds, [Next]_vars
    PROVE  UniqueIds'
<1> USE TrackerAssumption, DetectorAssumption
<1>0. /\ Len(tags) \in Nat /\ Len(detections) \in Nat
      /\ \A k \in 1 .. Len(detections) : detections[k] \in Detection
      /\ Unique(tags)
  BY LenProperties, ElementOfSeq DEF TypeOK, UniqueIds, Unique
<1>1. CASE RemoveOldTag
  <2>1. i \in 1 .. Len(tags) /\ tags' = RemoveAt(tags, i)
    BY <1>0, <1>1 DEF RemoveOldTag, TypeOK
  <2>2. /\ Len(tags') = Len(tags) - 1
        /\ \A k \in 1 .. Len(tags) - 1 : tags'[k] = tags[IF k < i THEN k ELSE k + 1]
    BY <2>1, RemoveAtProperties DEF TypeOK
  <2>3. SUFFICES ASSUME NEW j \in 1 .. Len(tags) - 1, NEW k \in 1 .. Len(tags) - 1,
                        tags'[j].id = tags'[k].id
                 PROVE  j = k
    BY <2>2 DEF UniqueIds
  <2> QED
    BY <1>0, <2>1, <2>2, <2>3 DEF Unique
<1>2. CASE UpdateDetection
  <2>1. tag' \in Tag
    BY <1>0, <1>2 DEF UpdateDetection, TypeOK, Tag, Detection
  <2>2. Unique(tags')
    BY <1>0, <1>2, <2>1, UpdateTagProperties DEF UpdateDetection, TypeOK
  <2> QED
    BY <2>2 DEF UniqueIds, Unique
<1>3. CASE UNCHANGED tags
  BY <1>3 DEF UniqueIds
<1> QED
  BY <1>1, <1>2, <1>3
     DEF Next, DetectTagsInImage, Tick, BeginFrame, KeepTag, Detect, FinishFrame, vars

(* The program starts with an empty tracker and no lock.                    *)
LEMMA DetectorInit ==
    ASSUME Init
    PROVE  TypeOK /\ UniqueIds
<1>1. Len(tags) = 0 /\ tags \in Seq(Tag) /\ detections \in Seq(Detection)
  BY EmptySeq DEF Init
<1>2. tag \in Tag \cup {Uninitialised} /\ targetTagFound \in BOOLEAN
  BY Zenon DEF Init
<1> QED
  BY <1>1, <1>2, TrackerAssumption, LockAssumption, DetectorAssumption
     DEF Init, TypeOK, UniqueIds, LockInit, Lock, Uint, Millis, LandingTarget

(* TargetDetector is type correct and its tracker holds one entry per tag,  *)
(* for every table size and every frame.                                    *)
THEOREM DetectorTypeCorrect == Spec => [](TypeOK /\ UniqueIds)
<1>1. Init => TypeOK /\ UniqueIds
  BY DetectorInit
<1>2. TypeOK /\ UniqueIds /\ [Next]_vars => (TypeOK /\ UniqueIds)'
  BY TypeOKStep, UniqueIdsStep
<1> QED
  BY <1>1, <1>2, PTL DEF Spec

(* The unsigned difference of two clock readings grows with the clock,      *)
(* across its wrap, until it is about to wrap itself.                       *)
LEMMA ElapsedTick ==
    ASSUME NEW t \in Millis, NEW seen \in Millis, Elapsed(t, seen) + 1 < ClockMod
    PROVE  Elapsed(NextMilli(t), seen) = Elapsed(t, seen) + 1
<1>1. /\ ClockMod \in Nat /\ t \in Nat /\ seen \in Nat
      /\ t < ClockMod /\ seen < ClockMod
  BY TrackerAssumption DEF Millis
<1>2. CASE t >= seen
  BY <1>1, <1>2 DEF Elapsed, NextMilli
<1>3. CASE t < seen
  BY <1>1, <1>3 DEF Elapsed, NextMilli
<1> QED
  BY <1>1, <1>2, <1>3

(* What the invariant says of the entries and of the loop variables.        *)
LEMMA InvariantFacts ==
    ASSUME IInv
    PROVE  /\ TypeOK /\ UniqueIds /\ EntriesAreLatest /\ SweepBound
           /\ Unique(tags) /\ tags \in Seq(Tag) /\ Len(tags) <= MaxTags
           /\ Len(tags) \in Nat /\ Len(detections) \in Nat
           /\ i \in Nat /\ i >= 1
           /\ now \in Millis /\ gap \in Nat /\ gap <= MaxGap
           /\ \A id \in Ids : age[id] \in Nat
           /\ \A k \in 1 .. Len(tags) :
                 /\ tags[k] \in Tag
                 /\ tags[k].id \in Ids
                 /\ tags[k].lastSeen \in Millis
           /\ \A k \in 1 .. Len(detections) :
                 /\ detections[k] \in Detection
                 /\ detections[k].id \in Ids
<1>1. TypeOK /\ UniqueIds /\ EntriesAreLatest /\ SweepBound
  BY DEF IInv
<1>2. tags \in Seq(Tag) /\ detections \in Seq(Detection)
  BY <1>1 DEF TypeOK
<1>3. Len(tags) \in Nat /\ Len(detections) \in Nat
  BY <1>2, LenProperties
<1>4. \A k \in 1 .. Len(tags) : tags[k] \in Tag
  BY <1>2, ElementOfSeq
<1>5. \A k \in 1 .. Len(detections) : detections[k] \in Detection
  BY <1>2, ElementOfSeq
<1>6. \A t \in Tag : t.id \in Ids /\ t.lastSeen \in Millis
  BY DEF Tag
<1>7. \A d \in Detection : d.id \in Ids
  BY DEF Detection
<1>8. Unique(tags)
  BY <1>1 DEF UniqueIds, Unique
<1>9. /\ Len(tags) <= MaxTags /\ i \in Nat /\ i >= 1
      /\ now \in Millis /\ gap \in Nat /\ gap <= MaxGap
      /\ \A id \in Ids : age[id] \in Nat
  BY <1>1, DetectorAssumption DEF TypeOK
<1> QED
  BY <1>1, <1>2, <1>3, <1>4, <1>5, <1>6, <1>7, <1>8, <1>9

(* One iteration of the loop over the detections: the table afterwards.     *)
LEMMA UpdateFacts ==
    ASSUME IInv, UpdateDetection
    PROVE  /\ tag' \in Tag /\ tag'.id \in Ids /\ tag'.lastSeen = now
           /\ latest'[tag'.id] = tag'.pos /\ age'[tag'.id] = 0
           /\ \A id \in Ids : id # tag'.id => age'[id] = age[id] /\ latest'[id] = latest[id]
           /\ Len(tags') \in Nat /\ Len(tags) <= Len(tags')
           /\ \A k \in 1 .. Len(tags') :
                 \/ tags'[k] = tag'
                 \/ k <= Len(tags) /\ tags'[k] = tags[k] /\ tags[k].id # tag'.id
           /\ \A k \in 1 .. Len(tags) : tags'[k].id = tags[k].id
           /\ Len(tags) < MaxTags => TagExists(tags', tag'.id)
<1>1. detections[i] \in Detection
  BY InvariantFacts DEF UpdateDetection
<1>2. tag' = [id |-> detections[i].id, pos |-> detections[i].pos, lastSeen |-> now]
  BY DEF UpdateDetection
<1>3. tag' \in Tag /\ tag'.id \in Ids /\ tag'.lastSeen = now
  BY <1>1, <1>2, InvariantFacts DEF Tag, Detection
<1>4. /\ latest'[tag'.id] = tag'.pos /\ age'[tag'.id] = 0
      /\ \A id \in Ids : id # tag'.id => age'[id] = age[id] /\ latest'[id] = latest[id]
  <2>1. age \in [Ids -> 0 .. AgeCap] /\ latest \in [Ids -> Positions \cup {Zeros}]
    BY InvariantFacts DEF TypeOK
  <2>2. /\ age' = [age EXCEPT ![detections[i].id] = 0]
        /\ latest' = [latest EXCEPT ![detections[i].id] = detections[i].pos]
    BY DEF UpdateDetection
  <2> QED
    BY <1>2, <1>3, <2>1, <2>2
<1>5. tags' = UpdateTag(tags, tag')
  BY DEF UpdateDetection
<1>6. PICK t \in Tag : t = tag'
  BY <1>3
<1>7. tags \in Seq(Tag) /\ Unique(tags) /\ Len(tags) <= MaxTags
  BY InvariantFacts
<1>8. /\ Len(UpdateTag(tags, t)) \in Nat
      /\ Len(tags) <= Len(UpdateTag(tags, t))
      /\ \A k \in 1 .. Len(UpdateTag(tags, t)) :
            \/ UpdateTag(tags, t)[k] = t
            \/ k <= Len(tags) /\ UpdateTag(tags, t)[k] = tags[k] /\ tags[k].id # t.id
      /\ \A k \in 1 .. Len(tags) : UpdateTag(tags, t)[k].id = tags[k].id
      /\ Len(tags) < MaxTags => TagExists(UpdateTag(tags, t), t.id)
  BY <1>7, UpdateTagProperties, LenProperties
<1> QED
  BY <1>3, <1>4, <1>5, <1>6, <1>8

(* One removal: the table afterwards.                                       *)
LEMMA RemoveFacts ==
    ASSUME IInv, RemoveOldTag
    PROVE  /\ i \in 1 .. Len(tags)
           /\ Len(tags') = Len(tags) - 1
           /\ \A k \in 1 .. Len(tags) - 1 : tags'[k] = tags[IF k < i THEN k ELSE k + 1]
           /\ age[tags[i].id] > Timeout
<1>1. i \in 1 .. Len(tags) /\ tags' = RemoveAt(tags, i) /\ tags \in Seq(Tag)
  BY InvariantFacts DEF RemoveOldTag
<1>2. age[tags[i].id] > Timeout
  BY <1>1, InvariantFacts DEF RemoveOldTag, IsOld, EntriesAreLatest
<1> QED
  BY <1>1, <1>2, RemoveAtProperties

(* Every entry stays the latest detection of its tag: SweepBound keeps ages *)
(* below the wrap of hal_millis(), so the unsigned difference is the age.   *)
LEMMA EntriesStep ==
    ASSUME IInv, [Next]_vars
    PROVE  EntriesAreLatest'
<1> USE TrackerAssumption, DetectorAssumption
<1>1. CASE Tick
  <2>1. SUFFICES ASSUME NEW k \in 1 .. Len(tags)
                 PROVE  /\ tags[k].pos = latest[tags[k].id]
                        /\ Elapsed(now', tags[k].lastSeen) = age'[tags[k].id]
    BY <1>1 DEF Tick, EntriesAreLatest
  <2> DEFINE a == age[tags[k].id]
             seen == tags[k].lastSeen
  <2>2. /\ tags[k].pos = latest[tags[k].id] /\ Elapsed(now, seen) = a
        /\ tags[k].id \in Ids /\ a \in Nat /\ seen \in Millis /\ now \in Millis
        /\ a <= Timeout + MaxGap + gap
    BY InvariantFacts DEF EntriesAreLatest, SweepBound
  <2>3. gap \in Nat /\ gap < MaxGap /\ now' = NextMilli(now)
    BY <1>1, InvariantFacts DEF Tick
  <2>4. age'[tags[k].id] = IF a = AgeCap THEN AgeCap ELSE a + 1
    BY <1>1, <2>2 DEF Tick
  <2> HIDE DEF a, seen
  <2>5. a + 1 < ClockMod /\ a < AgeCap
    BY <2>2, <2>3
  <2>6. Elapsed(NextMilli(now), seen) = a + 1
    BY <2>2, <2>5, ElapsedTick
  <2> QED
    BY <2>2, <2>3, <2>4, <2>5, <2>6 DEF seen
<1>2. CASE RemoveOldTag
  <2>1. ASSUME NEW k \in 1 .. Len(tags')
        PROVE  \E j \in 1 .. Len(tags) : tags'[k] = tags[j]
    <3> DEFINE j == IF k < i THEN k ELSE k + 1
    <3>1. Len(tags) \in Nat /\ Len(tags') = Len(tags) - 1 /\ i \in 1 .. Len(tags)
      BY <1>2, RemoveFacts, InvariantFacts
    <3>2. k \in 1 .. Len(tags) - 1 /\ j \in 1 .. Len(tags)
      BY <3>1
    <3>3. tags'[k] = tags[j]
      BY <1>2, <3>2, RemoveFacts
    <3> QED
      BY <3>2, <3>3, Zenon
  <2>2. now' = now /\ age' = age /\ latest' = latest
    BY <1>2 DEF RemoveOldTag, ghosts
  <2> QED
    BY <2>1, <2>2, InvariantFacts DEF EntriesAreLatest
<1>3. CASE UpdateDetection
  <2>1. Elapsed(now, now) = 0 /\ now' = now
    BY <1>3, InvariantFacts DEF Elapsed, Millis, UpdateDetection
  <2>2. SUFFICES ASSUME NEW k \in 1 .. Len(tags')
                 PROVE  /\ tags'[k].pos = latest'[tags'[k].id]
                        /\ Elapsed(now, tags'[k].lastSeen) = age'[tags'[k].id]
    BY <2>1 DEF EntriesAreLatest
  <2>3. CASE tags'[k] = tag'
    BY <1>3, <2>1, <2>3, UpdateFacts
  <2>4. CASE k <= Len(tags) /\ tags'[k] = tags[k] /\ tags[k].id # tag'.id
    <3>1. k \in 1 .. Len(tags) /\ tags[k].id \in Ids
      BY <1>3, <2>4, UpdateFacts, InvariantFacts
    <3>2. age'[tags[k].id] = age[tags[k].id] /\ latest'[tags[k].id] = latest[tags[k].id]
      BY <1>3, <2>4, <3>1, UpdateFacts
    <3> QED
      BY <2>4, <3>1, <3>2, InvariantFacts DEF EntriesAreLatest
  <2> QED
    BY <1>3, <2>3, <2>4, UpdateFacts
<1>4. CASE UNCHANGED <<now, tags, age, latest>>
  BY <1>4, InvariantFacts DEF EntriesAreLatest
<1> QED
  BY <1>1, <1>2, <1>3, <1>4
     DEF Next, DetectTagsInImage, BeginFrame, KeepTag, Detect, FinishFrame, vars, ghosts

(* removeOldTags looks at every entry once per frame.                       *)
LEMMA SweepStep ==
    ASSUME IInv, [Next]_vars
    PROVE  SweepBound'
<1> USE TrackerAssumption, DetectorAssumption
<1>0. /\ SweepBound /\ Len(tags) \in Nat
      /\ i \in Nat /\ gap \in Nat /\ gap <= MaxGap
      /\ \A k \in 1 .. Len(tags) : tags[k].id \in Ids /\ age[tags[k].id] \in Nat
  BY InvariantFacts
<1>1. CASE Tick
  <2>1. \A k \in 1 .. Len(tags) :
           /\ age'[tags[k].id] \in Nat
           /\ age'[tags[k].id] <= age[tags[k].id] + 1
    BY <1>0, <1>1 DEF Tick
  <2>2. pc' = pc /\ i' = i /\ tags' = tags /\ gap' = gap + 1
    BY <1>1 DEF Tick, local
  <2>3. SUFFICES ASSUME NEW k \in 1 .. Len(tags)
                 PROVE  /\ age'[tags[k].id] <= Timeout + MaxGap + (gap + 1)
                        /\ (pc # "sweep" \/ k < i)
                              => age'[tags[k].id] <= Timeout + (gap + 1)
    BY <2>2 DEF SweepBound
  <2> DEFINE a == age[tags[k].id]
             b == age'[tags[k].id]
  <2>4. /\ a \in Nat /\ b \in Nat /\ b <= a + 1
        /\ a <= Timeout + MaxGap + gap
        /\ (pc # "sweep" \/ k < i) => a <= Timeout + gap
    BY <1>0, <2>1 DEF SweepBound
  <2>5. Timeout \in Nat /\ MaxGap \in Nat /\ gap \in Nat
    BY <1>0 DEF TrackerAssumption, DetectorAssumption
  <2> HIDE DEF a, b
  <2>6. /\ b <= Timeout + MaxGap + (gap + 1)
        /\ (pc # "sweep" \/ k < i) => b <= Timeout + (gap + 1)
    BY <2>4, <2>5
  <2> QED
    BY <2>6 DEF b
<1>2. CASE BeginFrame
  BY <1>0, <1>2 DEF BeginFrame, SweepBound
<1>3. CASE RemoveOldTag
  <2>1. i' = i /\ pc = "sweep" /\ pc' = pc /\ age' = age /\ gap' = gap
    BY <1>3 DEF RemoveOldTag, local, ghosts
  <2>2. SUFFICES ASSUME NEW k \in 1 .. Len(tags) - 1
                 PROVE  /\ age[tags'[k].id] <= Timeout + MaxGap + gap
                        /\ k < i => age[tags'[k].id] <= Timeout + gap
    BY <1>3, <2>1, RemoveFacts DEF SweepBound
  <2>a. tags'[k] = tags[IF k < i THEN k ELSE k + 1]
    BY <1>3, RemoveFacts
  <2>b. k \in 1 .. Len(tags) /\ k + 1 \in 1 .. Len(tags)
    BY <1>0
  <2>3. CASE k < i
    <3>1. tags'[k] = tags[k] /\ k \in 1 .. Len(tags)
      BY <2>3, <2>a, <2>b
    <3> QED
      BY <1>0, <2>3, <3>1 DEF SweepBound
  <2>4. CASE ~(k < i)
    <3>1. tags'[k] = tags[k + 1] /\ k + 1 \in 1 .. Len(tags)
      BY <2>4, <2>a, <2>b
    <3> QED
      BY <1>0, <2>4, <3>1 DEF SweepBound
  <2> QED
    BY <2>3, <2>4
<1>4. CASE KeepTag
  <2>1. i \in 1 .. Len(tags) /\ age[tags[i].id] <= Timeout
    BY <1>0, <1>4, InvariantFacts DEF KeepTag, IsOld, EntriesAreLatest
  <2>2. pc = "sweep" /\ i' = i + 1 /\ UNCHANGED <<pc, tags, age, gap>>
    BY <1>4 DEF KeepTag, ghosts
  <2>3. SUFFICES ASSUME NEW k \in 1 .. Len(tags)
                 PROVE  /\ age[tags[k].id] <= Timeout + MaxGap + gap
                        /\ k < i + 1 => age[tags[k].id] <= Timeout + gap
    BY <2>2 DEF SweepBound
  <2>4. k < i + 1 => k < i \/ k = i
    BY <1>0
  <2>5. k = i => age[tags[k].id] <= Timeout + gap
    BY <1>0, <2>1
  <2>6. /\ age[tags[k].id] <= Timeout + MaxGap + gap
        /\ k < i => age[tags[k].id] <= Timeout + gap
    BY <1>0, <2>3, Zenon DEF SweepBound
  <2> QED
    BY <2>4, <2>5, <2>6, Zenon
<1>5. CASE Detect
  BY <1>0, <1>5 DEF Detect, SweepBound, ghosts
<1>6. CASE UpdateDetection
  <2>1. pc = "update" /\ pc' = pc /\ gap' = gap
    BY <1>6 DEF UpdateDetection
  <2>2. SUFFICES ASSUME NEW k \in 1 .. Len(tags')
                 PROVE  /\ age'[tags'[k].id] <= Timeout + gap
                        /\ age'[tags'[k].id] <= Timeout + MaxGap + gap
    BY <2>1 DEF SweepBound
  <2>3. CASE tags'[k] = tag'
    <3>1. age'[tags'[k].id] = 0
      BY <1>6, <2>3, UpdateFacts
    <3> QED
      BY <1>0, <3>1
  <2>4. CASE k <= Len(tags) /\ tags'[k] = tags[k] /\ tags[k].id # tag'.id
    <3>1. k \in 1 .. Len(tags) /\ tags[k].id \in Ids
      BY <1>0, <1>6, <2>4, UpdateFacts
    <3>2. age'[tags[k].id] = age[tags[k].id]
      BY <1>6, <2>4, <3>1, UpdateFacts
    <3> QED
      BY <1>0, <2>1, <2>4, <3>1, <3>2 DEF SweepBound
  <2> QED
    BY <1>6, <2>3, <2>4, UpdateFacts
<1>7. CASE FinishFrame
  BY <1>0, <1>7 DEF FinishFrame, SweepBound, ghosts
<1>8. CASE UNCHANGED vars
  BY <1>0, <1>8 DEF SweepBound, vars, local, ghosts
<1> QED
  BY <1>1, <1>2, <1>3, <1>4, <1>5, <1>6, <1>7, <1>8 DEF Next, DetectTagsInImage

(* The inductive invariant.                                                 *)
THEOREM DetectorInvariant == Spec => []IInv
<1>1. Init => EntriesAreLatest /\ SweepBound
  BY DEF Init, EntriesAreLatest, SweepBound
<1>2. IInv /\ [Next]_vars => (EntriesAreLatest /\ SweepBound)'
  BY EntriesStep, SweepStep
<1> QED
  BY <1>1, <1>2, DetectorTypeCorrect, PTL DEF Spec, IInv

(* removeOldTags drops only what timed out and updateTag drops nothing.     *)
LEMMA TrackedStep ==
    ASSUME IInv, [Next]_vars, NEW id \in Ids, Tracked(id), ~Tracked(id)'
    PROVE  age[id] > Timeout
<1>0. PICK k \in 1 .. Len(tags) : tags[k].id = id
  BY DEF Tracked, TagExists
<1>1. CASE RemoveOldTag
  <2>1. CASE k = i
    BY <1>0, <1>1, <2>1, RemoveFacts
  <2>2. CASE k < i
    <3>1. k \in 1 .. Len(tags') /\ tags'[k] = tags[k]
      BY <1>1, <2>2, RemoveFacts, InvariantFacts
    <3> QED
      BY <1>0, <3>1 DEF Tracked, TagExists
  <2>3. CASE k > i
    <3>1. k - 1 \in 1 .. Len(tags') /\ tags'[k - 1] = tags[k]
      BY <1>1, <2>3, RemoveFacts, InvariantFacts
    <3> QED
      BY <1>0, <3>1 DEF Tracked, TagExists
  <2> QED
    BY <1>1, <2>1, <2>2, <2>3, RemoveFacts
<1>2. CASE UpdateDetection
  <2>1. k \in 1 .. Len(tags') /\ tags'[k].id = tags[k].id
    BY <1>2, UpdateFacts, InvariantFacts
  <2> QED
    BY <1>0, <2>1 DEF Tracked, TagExists
<1>3. CASE UNCHANGED tags
  BY <1>3 DEF Tracked, TagExists
<1> QED
  BY <1>1, <1>2, <1>3
     DEF Next, DetectTagsInImage, Tick, BeginFrame, KeepTag, Detect, FinishFrame, vars

(* With an entry for every tag, what is detected is tracked from then on    *)
(* until it times out.                                                      *)
LEMMA FreshStep ==
    ASSUME IInv, FreshTagsTracked, [Next]_vars
    PROVE  FreshTagsTracked'
<1> USE TrackerAssumption, DetectorAssumption
<1>1. SUFFICES ASSUME Cardinality(Ids) <= MaxTags, NEW id \in Ids, age'[id] <= Timeout
               PROVE  Tracked(id)'
  BY DEF FreshTagsTracked
<1>2. age[id] \in Nat
  BY InvariantFacts
<1>3. CASE age[id] <= Timeout
  BY <1>1, <1>2, <1>3, TrackedStep DEF FreshTagsTracked
<1>4. CASE age[id] > Timeout
  <2>1. UpdateDetection
    BY <1>1, <1>2, <1>4
       DEF Next, DetectTagsInImage, Tick, BeginFrame, RemoveOldTag, KeepTag, Detect,
           FinishFrame, vars, ghosts
  <2>2. id = tag'.id
    BY <1>1, <1>2, <1>4, <2>1, UpdateFacts
  <2>3. CASE Tracked(id)
    <3>1. PICK k \in 1 .. Len(tags) : tags[k].id = id
      BY <2>3 DEF Tracked, TagExists
    <3>2. k \in 1 .. Len(tags') /\ tags'[k].id = id
      BY <2>1, <3>1, UpdateFacts, InvariantFacts
    <3> QED
      BY <3>2 DEF Tracked, TagExists
  <2>4. CASE ~Tracked(id)
    <3>1. Len(tags) < MaxTags
      BY <1>1, <2>4, InvariantFacts, RoomForMissingTag DEF Tracked
    <3>2. TagExists(tags', id)
      BY <2>1, <2>2, <3>1, UpdateFacts
    <3> QED
      BY <3>2 DEF Tracked
  <2> QED
    BY <2>3, <2>4
<1> QED
  BY <1>2, <1>3, <1>4

(* Each entry of TagTracker is the latest detection of its tag, with a time *)
(* stamp that hal_millis() wrapping does not falsify.                       *)
THEOREM EntriesAreLatestAlways == Spec => []EntriesAreLatest
  BY DetectorInvariant, PTL DEF IInv

(* After removeOldTags no timed-out tag is left.                            *)
THEOREM OnlyFreshTagsTrackedAlways == Spec => []OnlyFreshTagsTracked
<1>1. IInv => OnlyFreshTagsTracked
  BY DEF IInv, SweepBound, OnlyFreshTagsTracked, Tracked, TagExists
<1> QED
  BY <1>1, DetectorInvariant, PTL

(* No fresh tag is missing from a tracker that has room for every tag.      *)
THEOREM FreshTagsTrackedAlways == Spec => []FreshTagsTracked
<1>1. Init => FreshTagsTracked
  BY TrackerAssumption, DetectorAssumption DEF Init, FreshTagsTracked
<1>2. IInv /\ FreshTagsTracked /\ [Next]_vars => FreshTagsTracked'
  BY FreshStep
<1> QED
  BY <1>1, <1>2, DetectorInvariant, PTL DEF Spec

(* A tag leaves the tracker only by its timeout, also when the tracker is   *)
(* full.                                                                    *)
THEOREM OnlyTimeoutRemovesAlways == Spec => OnlyTimeoutRemoves
<1>1. IInv /\ [Next]_vars
         => [\A id \in Ids : Tracked(id) /\ ~Tracked(id)' => age[id] > Timeout]_vars
  BY TrackedStep
<1> QED
  BY <1>1, DetectorInvariant, PTL DEF Spec, OnlyTimeoutRemoves

-----------------------------------------------------------------------------
(* The lock and the tracker. *)

\* the time n frame periods can take
Periods(n) == n * MaxGap

(* How long ago a locked target was seen: the frames missed since, and the  *)
(* frame being worked on, each took at most one period.                     *)
LockAge ==
    /\ pc = "update" /\ targetTagFound => age[TargetTagId] <= gap
    /\ HasLock(lock) =>
          /\ lock.missedConsecutiveFrames < AllowedMissed
          /\ age[TargetTagId] <= Periods(lock.missedConsecutiveFrames)
                                   + (IF pc = "idle" THEN 0 ELSE MaxGap) + gap

(* The arithmetic of frame periods.                                         *)
LEMMA PeriodsProperties ==
    ASSUME NEW n \in Nat
    PROVE  /\ Periods(n) \in Nat
           /\ Periods(0) = 0
           /\ Periods(n + 1) = Periods(n) + MaxGap
           /\ n < AllowedMissed => Periods(n) + MaxGap <= AllowedMissed * MaxGap
<1>1. MaxGap \in Nat /\ AllowedMissed \in Nat
  BY LockAssumption, DetectorAssumption
<1>2. Periods(n) \in Nat /\ Periods(0) = 0
  BY <1>1 DEF Periods
<1>3. Periods(n + 1) = Periods(n) + MaxGap
  BY <1>1 DEF Periods
<1>4. ASSUME n < AllowedMissed
      PROVE  (n + 1) * MaxGap <= AllowedMissed * MaxGap
  <2>1. PICK d \in Nat : AllowedMissed = (n + 1) + d
    <3>1. AllowedMissed - (n + 1) \in Nat /\ AllowedMissed = (n + 1) + (AllowedMissed - (n + 1))
      BY <1>1, <1>4
    <3> QED
      BY <3>1
  <2>2. AllowedMissed * MaxGap = (n + 1) * MaxGap + d * MaxGap
    BY <1>1, <2>1
  <2>3. d * MaxGap \in Nat /\ (n + 1) * MaxGap \in Nat
    BY <1>1
  <2>4. AllowedMissed * MaxGap \in Nat
    BY <1>1
  <2> QED
    BY <2>2, <2>3, <2>4
<1> QED
  BY <1>2, <1>3, <1>4 DEF Periods

(* The age of a locked target stays within the periods its misses took.     *)
LEMMA LockAgeStep ==
    ASSUME IInv, LockAge, [Next]_vars
    PROVE  LockAge'
<1> DEFINE T == TargetTagId
           m == lock.missedConsecutiveFrames
<1> USE LockAssumption, DetectorAssumption
<1>0. /\ T \in Ids /\ age[T] \in Nat
      /\ lock \in Lock /\ m \in Nat /\ m <= UintMax
      /\ gap \in Nat /\ gap <= MaxGap
      /\ pc \in {"idle", "sweep", "update"}
      /\ Periods(m) \in Nat /\ Periods(m + 1) = Periods(m) + MaxGap /\ Periods(0) = 0
  <2>1. lock \in Lock /\ m \in Nat /\ m <= UintMax
    BY InvariantFacts DEF TypeOK, Lock, Uint
  <2>2. pc \in {"idle", "sweep", "update"}
    BY InvariantFacts DEF TypeOK
  <2> QED
    BY <2>1, <2>2, InvariantFacts, PeriodsProperties
<1>1. CASE Tick
  <2>1. /\ pc' = pc /\ lock' = lock /\ targetTagFound' = targetTagFound /\ gap' = gap + 1
        /\ age'[T] \in Nat /\ age'[T] <= age[T] + 1
    BY <1>0, <1>1 DEF Tick, local
  <2>2. pc' = "update" /\ targetTagFound' => age'[T] <= gap'
    <3>1. pc' = "update" /\ targetTagFound' => age[T] <= gap
      BY <2>1, Zenon DEF LockAge
    <3> QED
      BY <1>0, <2>1, <3>1
  <2>3. HasLock(lock') =>
           /\ lock'.missedConsecutiveFrames < AllowedMissed
           /\ age'[T] <= Periods(lock'.missedConsecutiveFrames)
                            + (IF pc' = "idle" THEN 0 ELSE MaxGap) + gap'
    <3> DEFINE slack == IF pc = "idle" THEN 0 ELSE MaxGap
    <3>1. SUFFICES ASSUME HasLock(lock)
                   PROVE  m < AllowedMissed /\ age'[T] <= Periods(m) + slack + (gap + 1)
      BY <2>1
    <3>2. m < AllowedMissed /\ age[T] <= Periods(m) + slack + gap
      BY <3>1 DEF LockAge
    <3>3. slack \in Nat
      BY <1>0
    <3> DEFINE b == age'[T]
               p == Periods(m)
    <3>4. b \in Nat /\ age[T] \in Nat /\ b <= age[T] + 1 /\ p \in Nat /\ gap \in Nat
      BY <1>0, <2>1
    <3>5. age[T] <= p + slack + gap
      BY <3>2
    <3> HIDE DEF slack, b, p
    <3>6. b <= p + slack + (gap + 1)
      BY <3>3, <3>4, <3>5
    <3> QED
      BY <3>2, <3>6 DEF b, p
  <2> QED
    BY <2>2, <2>3 DEF LockAge
<1>2. CASE BeginFrame
  BY <1>0, <1>2 DEF BeginFrame, LockAge, HasLock
<1>3. CASE RemoveOldTag \/ KeepTag
  BY <1>0, <1>3 DEF RemoveOldTag, KeepTag, LockAge, HasLock, local, ghosts
<1>4. CASE Detect
  BY <1>0, <1>4 DEF Detect, LockAge, HasLock, ghosts
<1>5. CASE UpdateDetection
  <2>1. /\ pc = "update" /\ pc' = pc /\ lock' = lock /\ gap' = gap
        /\ tag'.id = detections[i].id
        /\ targetTagFound' = (targetTagFound \/ detections[i].id = T)
    BY <1>5 DEF UpdateDetection
  <2>2. CASE tag'.id = T
    BY <1>0, <1>5, <2>1, <2>2, UpdateFacts DEF LockAge, HasLock
  <2>3. CASE tag'.id # T
    <3>1. age'[T] = age[T]
      BY <1>0, <1>5, <2>3, UpdateFacts
    <3>2. targetTagFound' = targetTagFound
      BY <2>1, <2>3, InvariantFacts, Zenon DEF TypeOK
    <3> QED
      BY <1>0, <2>1, <3>1, <3>2 DEF LockAge, HasLock
  <2> QED
    BY <2>2, <2>3
<1>6. CASE FinishFrame
  <2>1. /\ pc = "update" /\ pc' = "idle" /\ gap' = gap /\ age' = age
        /\ lock' = LockUpdate(lock, targetTagFound)
    BY <1>6 DEF FinishFrame, ghosts
  <2>2. CASE targetTagFound
    <3>1. lock'.missedConsecutiveFrames = 0
      BY <2>1, <2>2 DEF LockUpdate, Seen
    <3>2. age[T] <= gap
      BY <2>1, <2>2, Zenon DEF LockAge
    <3>3. age'[T] <= Periods(lock'.missedConsecutiveFrames) + 0 + gap'
      BY <1>0, <2>1, <3>1, <3>2
    <3> QED
      BY <2>1, <3>1, <3>3 DEF LockAge
  <2>3. CASE ~targetTagFound
    <3>1. lock' = Missed(lock)
      BY <2>1, <2>3 DEF LockUpdate
    <3>2. SUFFICES ASSUME HasLock(lock')
                   PROVE  /\ lock'.missedConsecutiveFrames < AllowedMissed
                          /\ age'[T] <= Periods(lock'.missedConsecutiveFrames) + 0 + gap'
      BY <2>1 DEF LockAge
    <3>3. HasLock(lock) /\ Increment(m) < AllowedMissed
      BY <1>0, <3>1, <3>2 DEF Missed, HasLock, Increment, Lock, Uint
    <3>4. lock'.missedConsecutiveFrames = m + 1 /\ m + 1 < AllowedMissed
      BY <1>0, <3>1, <3>3 DEF LockAge, Missed, Increment
    <3> QED
      BY <1>0, <2>1, <3>3, <3>4 DEF LockAge
  <2> QED
    BY <2>2, <2>3
<1>7. CASE UNCHANGED vars
  BY <1>7 DEF LockAge, HasLock, vars, local, ghosts
<1> QED
  BY <1>1, <1>2, <1>3, <1>4, <1>5, <1>6, <1>7 DEF Next, DetectTagsInImage

(* A locked target was seen so recently that the tracker still has it.      *)
LEMMA LockedTargetIsTracked ==
    ASSUME Cardinality(Ids) <= MaxTags, AllowedMissed * MaxGap <= Timeout,
           IInv, LockAge, FreshTagsTracked
    PROVE  LockedTargetTracked
<1>1. SUFFICES ASSUME pc = "idle", HasLock(lock)
               PROVE  Tracked(TargetTagId)
  BY DEF LockedTargetTracked
<1> DEFINE m == lock.missedConsecutiveFrames
<1>2. /\ m \in Nat /\ gap \in Nat /\ gap <= MaxGap /\ TargetTagId \in Ids
      /\ age[TargetTagId] \in Nat
  BY InvariantFacts, DetectorAssumption DEF TypeOK, Lock, Uint
<1>3. Periods(m) \in Nat /\ Periods(m) + MaxGap <= AllowedMissed * MaxGap
  BY <1>1, <1>2, PeriodsProperties DEF LockAge
<1>4. age[TargetTagId] <= Periods(m) + gap
  BY <1>1, <1>2, <1>3 DEF LockAge
<1>5. AllowedMissed * MaxGap \in Nat /\ Timeout \in Nat /\ MaxGap \in Nat
  BY LockAssumption, TrackerAssumption, DetectorAssumption
<1>6. age[TargetTagId] <= Timeout
  BY <1>2, <1>3, <1>4, <1>5
<1> QED
  BY <1>1, <1>2, <1>6 DEF FreshTagsTracked

(* When AllowedMissed frame periods fit into the timeout and the tracker    *)
(* has an entry for every tag, a locked target is still tracked: the lock   *)
(* never outlives the record getLockedTag returns.                          *)
THEOREM LockedTargetTrackedAlways ==
    ASSUME Cardinality(Ids) <= MaxTags, AllowedMissed * MaxGap <= Timeout
    PROVE  Spec => []LockedTargetTracked
<1>1. Init => LockAge
  BY LockAssumption, DetectorAssumption DEF Init, LockAge, HasLock, LockInit
<1>2. IInv /\ LockAge /\ [Next]_vars => LockAge'
  BY LockAgeStep
<1>3. IInv /\ LockAge /\ FreshTagsTracked => LockedTargetTracked
  BY LockedTargetIsTracked
<1> QED
  BY <1>1, <1>2, <1>3, DetectorInvariant, FreshTagsTrackedAlways, PTL DEF Spec

-----------------------------------------------------------------------------
(* The array is a map from tag to latest measurement: TargetDetector        *)
(* implements TagStore.                                                     *)

\* the tags of a list of entries, and their measurements
IdsOf(s) == {s[k].id : k \in 1 .. Len(s)}

MapOf(s) == [id \in IdsOf(s) |-> s[IndexOf(s, id)].pos]

LEMMA TrackedIsMap ==
    /\ TrackedPositions = MapOf(tags)
    /\ TrackedPositions' = MapOf(tags')
BY DEF TrackedPositions, TrackedIds, MapOf, IdsOf

(* The search finds the entry itself, since no other has its tag.           *)
LEMMA MapProperties ==
    ASSUME NEW s \in Seq(Tag), Unique(s)
    PROVE  /\ DOMAIN MapOf(s) = IdsOf(s)
           /\ \A k \in 1 .. Len(s) : s[k].id \in IdsOf(s) /\ MapOf(s)[s[k].id] = s[k].pos
<1>1. DOMAIN MapOf(s) = IdsOf(s)
  BY DEF MapOf
<1>2. ASSUME NEW k \in 1 .. Len(s)
      PROVE  s[k].id \in IdsOf(s) /\ MapOf(s)[s[k].id] = s[k].pos
  <2>1. s[k].id \in IdsOf(s) /\ TagExists(s, s[k].id)
    BY DEF IdsOf, TagExists
  <2>2. IndexOf(s, s[k].id) \in 1 .. Len(s) /\ s[IndexOf(s, s[k].id)].id = s[k].id
    BY <2>1, IndexOfProperties
  <2>3. IndexOf(s, s[k].id) = k
    BY <2>2 DEF Unique
  <2> QED
    BY <2>1, <2>3 DEF MapOf
<1> QED
  BY <1>1, <1>2

(* tag_count is the number of different tags.                               *)
LEMMA MapSize ==
    ASSUME NEW s \in Seq(Tag), Unique(s)
    PROVE  Cardinality(IdsOf(s)) = Len(s)
<1> DEFINE n == Len(s)
           f == [k \in 1 .. n |-> s[k].id]
<1>1. n \in Nat
  BY LenProperties
<1>2. f \in [1 .. n -> IdsOf(s)]
  BY DEF IdsOf
<1>3. \A j, k \in 1 .. n : f[j] = f[k] => j = k
  BY DEF Unique
<1>4. \A id \in IdsOf(s) : \E k \in 1 .. n : f[k] = id
  BY DEF IdsOf
<1>5. ExistsBijection(1 .. n, IdsOf(s))
  <2> HIDE DEF f, n
  <2>1. f \in Bijection(1 .. n, IdsOf(s))
    BY <1>2, <1>3, <1>4, Fun_IsBij
  <2> QED
    BY <2>1 DEF ExistsBijection
<1>6. IsFiniteSet(1 .. n) /\ Cardinality(1 .. n) = n
  <2> HIDE DEF n
  <2>1. IsFiniteSet(1 .. n) /\ Cardinality(1 .. n) = IF 1 > n THEN 0 ELSE n - 1 + 1
    BY <1>1, FS_Interval
  <2>2. (IF 1 > n THEN 0 ELSE n - 1 + 1) = n
    BY <1>1
  <2> QED
    BY <2>1, <2>2
<1> QED
  BY <1>5, <1>6, FS_Bijection

-----------------------------------------------------------------------------
(* removeAt takes one tag out of the map and leaves the others.             *)
LEMMA RemoveFromMap ==
    ASSUME NEW s \in Seq(Tag), Unique(s), NEW n \in 1 .. Len(s), Unique(RemoveAt(s, n))
    PROVE  MapOf(RemoveAt(s, n)) = [j \in IdsOf(s) \ {s[n].id} |-> MapOf(s)[j]]
<1> DEFINE r == RemoveAt(s, n)
<1>1. /\ r \in Seq(Tag) /\ Len(s) \in Nat /\ Len(r) = Len(s) - 1
      /\ \A k \in 1 .. Len(s) - 1 : r[k] = s[IF k < n THEN k ELSE k + 1]
  BY RemoveAtProperties, LenProperties
<1> HIDE DEF r
<1>2. ASSUME NEW k \in 1 .. Len(r)
      PROVE  \E j \in 1 .. Len(s) : j # n /\ r[k] = s[j]
  <2>1. CASE k < n
    BY <1>1, <2>1
  <2>2. CASE k >= n
    <3>1. k + 1 \in 1 .. Len(s) /\ k + 1 # n /\ r[k] = s[k + 1]
      BY <1>1, <2>2
    <3> QED
      BY <3>1
  <2> QED
    BY <1>1, <2>1, <2>2
<1>3. ASSUME NEW j \in 1 .. Len(s), j # n
      PROVE  \E k \in 1 .. Len(r) : r[k] = s[j]
  <2>1. CASE j < n
    BY <1>1, <2>1
  <2>2. CASE j > n
    <3>1. j - 1 \in 1 .. Len(r) /\ r[j - 1] = s[j]
      BY <1>1, <2>2
    <3> QED
      BY <3>1
  <2> QED
    BY <1>1, <1>3, <2>1, <2>2
<1>4. IdsOf(r) = IdsOf(s) \ {s[n].id}
  <2>1. ASSUME NEW id \in IdsOf(r) PROVE id \in IdsOf(s) \ {s[n].id}
    <3>1. PICK k \in 1 .. Len(r) : r[k].id = id
      BY DEF IdsOf
    <3>2. PICK j \in 1 .. Len(s) : j # n /\ r[k] = s[j]
      BY <1>2
    <3> QED
      BY <3>1, <3>2 DEF IdsOf, Unique
  <2>2. ASSUME NEW id \in IdsOf(s) \ {s[n].id} PROVE id \in IdsOf(r)
    <3>1. PICK j \in 1 .. Len(s) : s[j].id = id
      BY DEF IdsOf
    <3>2. PICK k \in 1 .. Len(r) : r[k] = s[j]
      BY <1>3, <3>1
    <3> QED
      BY <3>1, <3>2 DEF IdsOf
  <2> QED
    BY <2>1, <2>2
<1>5. ASSUME NEW id \in IdsOf(r) PROVE MapOf(r)[id] = MapOf(s)[id]
  <2>1. PICK k \in 1 .. Len(r) : r[k].id = id
    BY DEF IdsOf
  <2>2. PICK j \in 1 .. Len(s) : r[k] = s[j]
    BY <1>2
  <2>3. MapOf(r)[r[k].id] = r[k].pos
    BY <1>1, MapProperties DEF r
  <2>4. MapOf(s)[s[j].id] = s[j].pos
    BY MapProperties
  <2> QED
    BY <2>1, <2>2, <2>3, <2>4
<1>6. MapOf(r) = [j \in IdsOf(r) |-> MapOf(s)[j]]
  BY <1>5 DEF MapOf
<1> QED
  BY <1>4, <1>6 DEF r

(* updateTag puts a tag into the map, or leaves the map alone when it is    *)
(* full of others.                                                          *)
LEMMA UpdateMap ==
    ASSUME NEW s \in Seq(Tag), Unique(s), Len(s) <= MaxTags, NEW t \in Tag
    PROVE  IF t.id \in IdsOf(s) \/ Cardinality(IdsOf(s)) < MaxTags
           THEN MapOf(UpdateTag(s, t)) =
                  [j \in IdsOf(s) \cup {t.id} |-> IF j = t.id THEN t.pos ELSE MapOf(s)[j]]
           ELSE MapOf(UpdateTag(s, t)) = MapOf(s)
<1> DEFINE u == UpdateTag(s, t)
<1>1. /\ u \in Seq(Tag) /\ Unique(u) /\ Len(s) \in Nat /\ Len(u) \in Nat
      /\ Len(s) <= Len(u)
      /\ \A k \in 1 .. Len(u) :
            u[k] = t \/ (k <= Len(s) /\ u[k] = s[k] /\ s[k].id # t.id)
      /\ \A k \in 1 .. Len(s) : u[k].id = s[k].id
      /\ Len(s) < MaxTags => TagExists(u, t.id)
  BY UpdateTagProperties, LenProperties
<1>2. Cardinality(IdsOf(s)) = Len(s)
  BY MapSize
<1>3. t.id \in IdsOf(s) <=> TagExists(s, t.id)
  BY DEF IdsOf, TagExists
<1>4. ASSUME ~(t.id \in IdsOf(s) \/ Len(s) < MaxTags) PROVE u = s
  BY <1>3, <1>4 DEF UpdateTag
<1>5. ASSUME t.id \in IdsOf(s) \/ Len(s) < MaxTags
      PROVE  MapOf(u) = [j \in IdsOf(s) \cup {t.id} |->
                            IF j = t.id THEN t.pos ELSE MapOf(s)[j]]
  <2> HIDE DEF u
  <2>1. t.id \in IdsOf(u)
    <3>1. CASE t.id \in IdsOf(s)
      BY <1>1, <3>1 DEF IdsOf
    <3>2. CASE Len(s) < MaxTags
      BY <1>1, <3>2 DEF IdsOf, TagExists
    <3> QED
      BY <1>5, <3>1, <3>2
  <2>2. IdsOf(u) = IdsOf(s) \cup {t.id}
    <3>1. IdsOf(s) \subseteq IdsOf(u)
      BY <1>1 DEF IdsOf
    <3>2. IdsOf(u) \subseteq IdsOf(s) \cup {t.id}
      BY <1>1 DEF IdsOf
    <3> QED
      BY <2>1, <3>1, <3>2
  <2>3. ASSUME NEW k \in 1 .. Len(u)
        PROVE  MapOf(u)[u[k].id] = IF u[k].id = t.id THEN t.pos ELSE MapOf(s)[u[k].id]
    <3>1. MapOf(u)[u[k].id] = u[k].pos
      BY <1>1, MapProperties
    <3>2. CASE u[k] = t
      BY <3>1, <3>2
    <3>3. CASE k <= Len(s) /\ u[k] = s[k] /\ s[k].id # t.id
      <4>1. MapOf(s)[s[k].id] = s[k].pos
        BY <1>1, <3>3, MapProperties
      <4> QED
        BY <3>1, <3>3, <4>1
    <3> QED
      BY <1>1, <3>2, <3>3
  <2>4. \A id \in IdsOf(u) : MapOf(u)[id] = IF id = t.id THEN t.pos ELSE MapOf(s)[id]
    BY <2>3 DEF IdsOf
  <2> QED
    BY <2>2, <2>4 DEF MapOf
<1> QED
  BY <1>2, <1>4, <1>5

-----------------------------------------------------------------------------
(* The refinement. *)

LEMMA StoreInit == ASSUME Init PROVE Store!Init
<1>1. Len(tags) = 0 /\ age = [id \in Ids |-> AgeCap]
  BY DEF Init
<1>2. TrackedIds = {}
  BY <1>1 DEF TrackedIds
<1>3. TrackedPositions = [id \in {} |-> CHOOSE p \in Positions : TRUE]
  BY <1>2 DEF TrackedPositions
<1> QED
  BY <1>1, <1>3 DEF Store!Init

LEMMA StoreStep ==
    ASSUME IInv, IInv', [Next]_vars
    PROVE  [Store!Next]_Store!storeVars
<1>0. /\ tags \in Seq(Tag) /\ Unique(tags) /\ Len(tags) <= MaxTags
      /\ Unique(tags')
      /\ DOMAIN TrackedPositions = IdsOf(tags)
  BY InvariantFacts, TrackedIsMap, MapProperties DEF IInv, UniqueIds, Unique
<1>1. CASE Tick
  <2>1. TrackedPositions' = TrackedPositions
    BY <1>1, TrackedIsMap DEF Tick
  <2>2. Store!Pass
    BY <1>1, <2>1 DEF Store!Pass, Tick
  <2> QED
    BY <2>2 DEF Store!Next
<1>2. CASE RemoveOldTag
  <2>1. /\ i \in 1 .. Len(tags) /\ age[tags[i].id] > Timeout /\ tags[i].id \in Ids
        /\ tags' = RemoveAt(tags, i) /\ age' = age
    BY <1>2, RemoveFacts, InvariantFacts DEF RemoveOldTag, ghosts
  <2>2. tags[i].id \in IdsOf(tags)
    BY <2>1 DEF IdsOf
  <2>3. MapOf(tags') = [j \in IdsOf(tags) \ {tags[i].id} |-> MapOf(tags)[j]]
    BY <1>0, <2>1, RemoveFromMap
  <2>4. Store!Forget(tags[i].id)
    BY <1>0, <2>1, <2>2, <2>3, TrackedIsMap DEF Store!Forget
  <2> QED
    BY <2>1, <2>4 DEF Store!Next
<1>3. CASE UpdateDetection
  <2> DEFINE det == detections[i]
  <2>1. /\ det \in Detection /\ now \in Millis
        /\ tag' = [id |-> det.id, pos |-> det.pos, lastSeen |-> now]
        /\ tags' = UpdateTag(tags, tag')
        /\ age' = [age EXCEPT ![det.id] = 0]
    BY <1>3, InvariantFacts DEF UpdateDetection
  <2>2. /\ det.id \in Ids /\ det.pos \in Positions /\ tag' \in Tag
        /\ tag'.id = det.id /\ tag'.pos = det.pos
    BY <2>1 DEF Detection, Tag
  <2>3. PICK t \in Tag : t = tag'
    BY <2>2
  <2>4. IF t.id \in IdsOf(tags) \/ Cardinality(IdsOf(tags)) < MaxTags
        THEN MapOf(tags') =
               [j \in IdsOf(tags) \cup {t.id} |-> IF j = t.id THEN t.pos ELSE MapOf(tags)[j]]
        ELSE MapOf(tags') = MapOf(tags)
    BY <1>0, <2>1, <2>3, UpdateMap
  <2>5. Store!Cardinality(IdsOf(tags)) = Cardinality(IdsOf(tags))
    BY Zenon DEF Store!Cardinality, Cardinality
  <2>6. Store!See(det.id, det.pos)
    BY <1>0, <2>5, <2>1, <2>2, <2>3, <2>4, TrackedIsMap DEF Store!See
  <2> QED
    BY <2>2, <2>6 DEF Store!Next
<1>4. CASE BeginFrame \/ KeepTag \/ Detect \/ FinishFrame \/ UNCHANGED vars
  <2>1. tags' = tags /\ age' = age
    BY <1>4 DEF BeginFrame, KeepTag, Detect, FinishFrame, vars, ghosts
  <2>2. TrackedPositions' = TrackedPositions
    BY <2>1, TrackedIsMap
  <2> QED
    BY <2>1, <2>2 DEF Store!storeVars
<1> QED
  BY <1>1, <1>2, <1>3, <1>4 DEF Next, DetectTagsInImage

(* The array with its searches and shifts, the wrapping time stamps and the *)
(* sweep implement the store of latest measurements.                        *)
THEOREM DetectorImplementsStore == Spec => ImplementsTagStore
<1>1. Init => Store!Init
  BY StoreInit
<1>2. IInv /\ IInv' /\ [Next]_vars => [Store!Next]_Store!storeVars
  BY StoreStep
<1> QED
  BY <1>1, <1>2, DetectorInvariant, PTL DEF Spec, ImplementsTagStore, Store!Spec

-----------------------------------------------------------------------------
(* What the tag detection packet promises, for every detector, as long as   *)
(* TARGET_TAG_ID is 0: the id a zeroed static tag_t carries.                *)

\* the static record of Telemetry::update only ever is the target's
StaticIsTarget == lockedTag.id = TargetTagId

\* the packet just sent describes the detector as it is
ReportIsCurrent ==
    sent # NoReport =>
        /\ pc = "idle"
        /\ sent.tags = tags
        /\ sent.hasLock = Tracked(TargetTagId)
        /\ Tracked(TargetTagId) => sent.lockedTag = tags[IndexOf(tags, TargetTagId)]

(* The detector's invariants hold next to the reports too.                  *)
LEMMA ReportDetectorInvariant == ReportSpec => [](IInv /\ FreshTagsTracked /\ LockAge)
<1>1. ReportInit => IInv /\ FreshTagsTracked /\ LockAge
  <2>1. SUFFICES ASSUME Init PROVE IInv /\ FreshTagsTracked /\ LockAge
    BY DEF ReportInit
  <2>2. TypeOK /\ UniqueIds
    BY <2>1, DetectorInit
  <2>3. EntriesAreLatest /\ SweepBound /\ LockAge /\ FreshTagsTracked
    BY <2>1, TrackerAssumption, LockAssumption, DetectorAssumption
       DEF Init, EntriesAreLatest, SweepBound, LockAge, HasLock, LockInit, FreshTagsTracked
  <2> QED
    BY <2>2, <2>3 DEF IInv
<1>2. ASSUME IInv, FreshTagsTracked, LockAge, [ReportNext]_reportVars
      PROVE  (IInv /\ FreshTagsTracked /\ LockAge)'
  <2>1. [Next]_vars
    BY <1>2 DEF ReportNext, DetectorStep, SendTags, reportVars
  <2>2. TypeOK' /\ UniqueIds'
    BY <1>2, <2>1, TypeOKStep, UniqueIdsStep DEF IInv
  <2>3. EntriesAreLatest' /\ SweepBound'
    BY <1>2, <2>1, EntriesStep, SweepStep
  <2>4. FreshTagsTracked' /\ LockAge'
    BY <1>2, <2>1, FreshStep, LockAgeStep
  <2> QED
    BY <2>2, <2>3, <2>4 DEF IInv
<1> QED
  BY <1>1, <1>2, PTL DEF ReportSpec

(* getLockedTag never leaves another tag in the static record, and the      *)
(* packet shows the detector's present state.                               *)
LEMMA ReportStep ==
    ASSUME IInv, StaticIsTarget, ReportIsCurrent, [ReportNext]_reportVars
    PROVE  StaticIsTarget' /\ ReportIsCurrent'
<1>1. CASE SendTags
  <2>1. tags \in Seq(Tag) /\ Unique(tags)
    BY InvariantFacts
  <2>2. GetTagFound(tags, TargetTagId, lockedTag) = Tracked(TargetTagId)
    BY DEF StaticIsTarget, GetTagFound, Tracked
  <2>3. /\ pc = "idle" /\ UNCHANGED vars
        /\ lockedTag' = GetTag(tags, TargetTagId, lockedTag)
        /\ sent'.hasLock = GetTagFound(tags, TargetTagId, lockedTag)
        /\ sent'.tags = tags /\ sent'.lockedTag = lockedTag'
    BY <1>1 DEF SendTags
  <2>4. CASE Tracked(TargetTagId)
    <3>1. lockedTag' = tags[IndexOf(tags, TargetTagId)]
      BY <2>2, <2>3, <2>4 DEF GetTag, StaticIsTarget
    <3>2. lockedTag'.id = TargetTagId
      BY <2>1, <2>4, <3>1, IndexOfProperties DEF Tracked
    <3> QED
      BY <2>2, <2>3, <2>4, <3>1, <3>2
         DEF StaticIsTarget, ReportIsCurrent, Tracked, vars
  <2>5. CASE ~Tracked(TargetTagId)
    <3>1. lockedTag' = lockedTag
      BY <2>2, <2>3, <2>5 DEF GetTag
    <3> QED
      BY <2>2, <2>3, <2>5, <3>1 DEF StaticIsTarget, ReportIsCurrent, Tracked, vars
  <2> QED
    BY <2>4, <2>5
<1>2. CASE DetectorStep
  BY <1>2 DEF DetectorStep, StaticIsTarget, ReportIsCurrent
<1>3. CASE UNCHANGED reportVars
  BY <1>3 DEF reportVars, vars, StaticIsTarget, ReportIsCurrent, Tracked
<1> QED
  BY <1>1, <1>2, <1>3 DEF ReportNext

(* Every report is current and its static record the target's.              *)
LEMMA ReportInvariant ==
    ASSUME TargetTagId = 0
    PROVE  ReportSpec => [](StaticIsTarget /\ ReportIsCurrent)
<1>1. ReportInit => StaticIsTarget /\ ReportIsCurrent
  BY DEF ReportInit, StaticTag, StaticIsTarget, ReportIsCurrent
<1>2. IInv /\ StaticIsTarget /\ ReportIsCurrent /\ [ReportNext]_reportVars
         => (StaticIsTarget /\ ReportIsCurrent)'
  BY ReportStep
<1> QED
  BY <1>1, <1>2, ReportDetectorInvariant, PTL DEF ReportSpec

(* A packet that says "locked" carries the target's record, as its list of  *)
(* tags has it.                                                             *)
THEOREM ReportedTagIsTargetAlways ==
    ASSUME TargetTagId = 0
    PROVE  ReportSpec => []ReportedTagIsTarget
<1>1. IInv /\ ReportIsCurrent => ReportedTagIsTarget
  <2>1. SUFFICES ASSUME IInv, ReportIsCurrent, sent # NoReport, sent.hasLock
                 PROVE  /\ sent.lockedTag.id = TargetTagId
                        /\ \E k \in 1 .. Len(sent.tags) : sent.tags[k] = sent.lockedTag
    BY DEF ReportedTagIsTarget
  <2>2. TagExists(tags, TargetTagId) /\ tags \in Seq(Tag) /\ Unique(tags)
    BY <2>1, InvariantFacts DEF ReportIsCurrent, Tracked
  <2> QED
    BY <2>1, <2>2, IndexOfProperties DEF ReportIsCurrent, Tracked
<1> QED
  BY <1>1, ReportDetectorInvariant, ReportInvariant, PTL

(* A lock the detector holds is reported, when AllowedMissed frame periods  *)
(* fit into the timeout and the tracker has an entry for every tag.         *)
THEOREM HeldLockReportedAlways ==
    ASSUME TargetTagId = 0,
           Cardinality(Ids) <= MaxTags, AllowedMissed * MaxGap <= Timeout
    PROVE  ReportSpec => []HeldLockReported
<1>1. IInv /\ LockAge /\ FreshTagsTracked => LockedTargetTracked
  BY LockedTargetIsTracked
<1>2. LockedTargetTracked /\ ReportIsCurrent => HeldLockReported
  BY DEF LockedTargetTracked, ReportIsCurrent, HeldLockReported
<1> QED
  BY <1>1, <1>2, ReportDetectorInvariant, ReportInvariant, PTL
==============================================================================
