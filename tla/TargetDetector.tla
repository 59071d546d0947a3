--------------------------- MODULE TargetDetector ---------------------------
(***************************************************************************)
(* class TargetDetector of target_detector.cpp: detectTagsInImage, called  *)
(* for every captured frame, first sweeps timed-out tags out of the        *)
(* TagTracker, then records every detection, then feeds the HysteresisLock *)
(* and, when locked, recomputes the landing target.                        *)
(*                                                                         *)
(* The handler runs on the main loop without interruption, but hal_millis()*)
(* is read again in every iteration of its loops: pc splits it into those  *)
(* iterations and Tick lets time pass between any two of them.             *)
(***************************************************************************)
EXTENDS TagTracker, HysteresisLock, FiniteSets

CONSTANTS Ids,              \* tag ids of the family, numbers as in the code
          Positions,        \* what a detection measures (corners, centre)
          TargetTagId,      \* TARGET_TAG_ID (0 in the program)
          Frames,           \* the detection lists a frame can yield
          CountMod,         \* 2^8: m_nbr_of_tags_detected is a uint8_t
          NoId,             \* an uninitialised id that no tag carries
          Garbage,          \* the measurements of an uninitialised tag_t
          Zeros,            \* the measurements of a zeroed struct
          MaxGap,           \* bound: ticks from one call of the handler to the next
          AgeCap            \* bound: ages above it are not told apart

Detection == [id : Ids, pos : Positions]

ASSUME DetectorAssumption ==
    /\ Ids \subseteq Nat /\ IsFiniteSet(Ids)
    /\ TargetTagId \in Ids
    /\ Frames \subseteq Seq(Detection)
    /\ CountMod \in Nat \ {0}
    /\ NoId \notin Ids /\ Garbage \notin Positions /\ Zeros \notin Positions
    /\ MaxGap \in Nat \ {0}
    /\ Timeout + 2 * MaxGap < ClockMod
    /\ AgeCap \in Nat /\ Timeout + 2 * MaxGap < AgeCap

Tag == [id : Ids, pos : Positions, lastSeen : Millis]

Uninitialised == [id |-> NoId, pos |-> Garbage, lastSeen |-> 0]

VARIABLES
    now,                    \* hal_millis()
    pc,                     \* where detectTagsInImage is
    i,                      \* loop index, counted from 1
    detections,             \* the detections the handler will look at
    tag,                    \* the local tag_t
    targetTagFound,         \* the local flag
    tags,                   \* tagTracker.tags[0 .. tag_count - 1]
    lock,                   \* tagLock
    landing,                \* landing_target, as the tag it was computed from
    gap,                    \* ghost: ticks since the handler was last called
    age,                    \* ghost: ticks since each tag was last detected
    latest                  \* ghost: what that detection measured

local == <<i, detections, tag, targetTagFound>>
ghosts == <<gap, age, latest>>
vars == <<now, pc, local, tags, lock, landing, ghosts>>

LandingTarget == [id : Ids \cup {NoId}, pos : Positions \cup {Garbage, Zeros}]

TypeOK ==
    /\ now \in Millis
    /\ pc \in {"idle", "sweep", "update"}
    /\ i \in Nat \ {0}
    /\ detections \in Seq(Detection)
    /\ tag \in Tag \cup {Uninitialised}
    /\ targetTagFound \in BOOLEAN
    /\ tags \in Seq(Tag) /\ Len(tags) <= MaxTags
    /\ lock \in Lock
    /\ landing \in LandingTarget
    /\ gap \in 0 .. MaxGap
    /\ age \in [Ids -> 0 .. AgeCap]
    /\ latest \in [Ids -> Positions \cup {Zeros}]

Init ==
    /\ now = 0
    /\ pc = "idle"
    /\ i = 1 /\ detections = << >> /\ tag = Uninitialised /\ targetTagFound = FALSE
    /\ tags = << >>
    /\ lock = LockInit
    /\ landing = [id |-> NoId, pos |-> Zeros]
    /\ gap = 0
    /\ age = [id \in Ids |-> AgeCap]
    /\ latest = [id \in Ids |-> Zeros]

Tick ==
    /\ gap < MaxGap
    /\ now' = NextMilli(now)
    /\ gap' = gap + 1
    /\ age' = [id \in Ids |-> IF age[id] = AgeCap THEN AgeCap ELSE age[id] + 1]
    /\ UNCHANGED <<pc, local, tags, lock, landing, latest>>

\* the camera hands over a frame: detectTagsInImage enters removeOldTags
BeginFrame ==
    /\ pc = "idle"
    /\ pc' = "sweep"
    /\ i' = 1
    /\ gap' = 0
    /\ UNCHANGED <<now, detections, tag, targetTagFound, tags, lock, landing,
                   age, latest>>

\* mutant of RemoveOldTag: the loop steps on although the entries moved up
RemoveOldTag_Skips ==
    /\ pc = "sweep"
    /\ i <= Len(tags)
    /\ IsOld(tags[i], now)
    /\ tags' = RemoveAt(tags, i)
    /\ i' = i + 1
    /\ UNCHANGED <<now, pc, detections, tag, targetTagFound, lock, landing, ghosts>>

RemoveOldTag ==
    /\ pc = "sweep"
    /\ i <= Len(tags)
    /\ IsOld(tags[i], now)
    /\ tags' = RemoveAt(tags, i)
    /\ UNCHANGED <<now, pc, local, lock, landing, ghosts>>

KeepTag ==
    /\ pc = "sweep"
    /\ i <= Len(tags)
    /\ ~IsOld(tags[i], now)
    /\ i' = i + 1
    /\ UNCHANGED <<now, pc, detections, tag, targetTagFound, tags, lock,
                   landing, ghosts>>

\* apriltag_detector_detect; its count is cut to a uint8_t
Detect ==
    /\ pc = "sweep"
    /\ i > Len(tags)
    /\ \E frame \in Frames :
          detections' = SubSeq(frame, 1, Len(frame) % CountMod)
    /\ pc' = "update"
    /\ i' = 1
    /\ tag' = Uninitialised
    /\ targetTagFound' = FALSE
    /\ UNCHANGED <<now, tags, lock, landing, ghosts>>

\* one iteration of the loop over the detections
UpdateDetection ==
    /\ pc = "update"
    /\ i <= Len(detections)
    /\ LET det == detections[i]
       IN  /\ tag' = [id |-> det.id, pos |-> det.pos, lastSeen |-> now]
           /\ tags' = UpdateTag(tags, tag')
           /\ targetTagFound' = (targetTagFound \/ det.id = TargetTagId)
           /\ age' = [age EXCEPT ![det.id] = 0]
           /\ latest' = [latest EXCEPT ![det.id] = det.pos]
    /\ i' = i + 1
    /\ UNCHANGED <<now, pc, detections, lock, landing, gap>>

\* the tag whose corners give the angles, the distance and the sizes; the
\* code leaves landing_target.id alone, so id is a ghost here
CalculateLandingTarget(t) == [id |-> t.id, pos |-> t.pos]

\* what the local tag can hold at the end of the frame: the last detection,
\* or whatever the stack held when there was none
LocalTags ==
    IF tag # Uninitialised THEN {tag}
    ELSE [id : Ids \cup {NoId}, pos : {Garbage}, lastSeen : {0}]

\* mutant of FinishFrame: no detection at all is not fed to the lock
FinishFrame_SkipsEmpty ==
    /\ pc = "update"
    /\ i > Len(detections)
    /\ lock' = IF detections = << >> THEN lock ELSE LockUpdate(lock, targetTagFound)
    /\ pc' = "idle"
    /\ i' = 1 /\ detections' = << >> /\ tag' = Uninitialised /\ targetTagFound' = FALSE
    /\ UNCHANGED <<now, tags, landing, ghosts>>

\* the lock is updated and, while it is held, the landing target with it
FinishFrame ==
    /\ pc = "update"
    /\ i > Len(detections)
    /\ lock' = LockUpdate(lock, targetTagFound)
    /\ IF HasLock(lock')
       THEN \E t \in LocalTags :
               landing' = CalculateLandingTarget(GetTag(tags, TargetTagId, t))
       ELSE UNCHANGED landing
    /\ pc' = "idle"
    /\ i' = 1 /\ detections' = << >> /\ tag' = Uninitialised /\ targetTagFound' = FALSE
    /\ UNCHANGED <<now, tags, ghosts>>

DetectTagsInImage ==
    \/ BeginFrame \/ RemoveOldTag \/ KeepTag \/ Detect \/ UpdateDetection \/ FinishFrame

Next == Tick \/ DetectTagsInImage

\* once called, the handler runs on; and the main loop keeps calling it;
\* time does not stand still
Fairness == WF_vars(DetectTagsInImage) /\ WF_vars(Tick)

Spec == Init /\ [][Next]_vars

FairSpec == Spec /\ Fairness

-----------------------------------------------------------------------------
Tracked(id) == TagExists(tags, id)

TrackedIds == {tags[k].id : k \in 1 .. Len(tags)}

\* the tracker's entries as a map from tag to measurement
TrackedPositions == [id \in TrackedIds |-> tags[IndexOf(tags, id)].pos]

Store == INSTANCE TagStore WITH
    Capacity <- MaxTags, Lifetime <- Timeout, store <- TrackedPositions

(* The array with its shifting and searching, the wrapping time stamps and  *)
(* the sweep amount to the store of the latest measurements: every step of  *)
(* detectTagsInImage stores, replaces or forgets one tag, or does nothing.  *)
ImplementsTagStore == Store!Spec

(* And what stays out of sight is swept out in the end.                     *)
ImplementsFairTagStore == Store!FairSpec

(* TagTracker never holds two entries for one tag, whatever was swept out   *)
(* and re-added in between (removeAt shifts, updateTag searches first).     *)
UniqueIds ==
    \A j, k \in 1 .. Len(tags) : tags[j].id = tags[k].id => j = k

(* Every entry is the most recent detection of its tag, and its time stamp, *)
(* read through the wrapping clock, still tells how long ago that was.      *)
EntriesAreLatest ==
    \A k \in 1 .. Len(tags) :
        /\ tags[k].pos = latest[tags[k].id]
        /\ Elapsed(now, tags[k].lastSeen) = age[tags[k].id]

(* Once removeOldTags is through, nothing unseen for longer than the        *)
(* timeout is left, but for the time the current frame has been running:    *)
(* the shift in removeAt makes the sweep skip no entry, and the wrap of     *)
(* hal_millis() keeps none alive.                                           *)
OnlyFreshTagsTracked ==
    pc # "sweep" => \A id \in Ids : Tracked(id) => age[id] <= Timeout + gap

(* Whatever was detected within the timeout is tracked, when the tracker    *)
(* has room for all the tags there are.                                     *)
FreshTagsTracked ==
    Cardinality(Ids) <= MaxTags =>
        \A id \in Ids : age[id] <= Timeout => Tracked(id)

(* A tag leaves the tracker only by its timeout: a full tracker turns new   *)
(* tags away and evicts none.                                               *)
OnlyTimeoutRemoves ==
    [][\A id \in Ids : Tracked(id) /\ ~Tracked(id)' => age[id] > Timeout]_vars

(* While the lock is held the locked tag is still tracked, so that          *)
(* getLockedTag has something to return: the timeout outlives the misses    *)
(* the lock forgives, if frames come often enough (AllowedMissed periods    *)
(* within the timeout) and the tracker has room.                            *)
LockedTargetTracked ==
    pc = "idle" /\ HasLock(lock) => Tracked(TargetTagId)

(* When every frame from some point on sees the target, the lock is held    *)
(* again and again; only the wrap of okFrames interrupts it.                *)
LockAcquired ==
    <>[][FinishFrame => targetTagFound]_vars => []<>HasLock(lock)

(* When no frame from some point on sees the target, the lock is given up   *)
(* for good and the target leaves the tracker.                              *)
LockReleased ==
    <>[][FinishFrame => ~targetTagFound]_vars
        => <>[](~HasLock(lock) /\ ~Tracked(TargetTagId))

(* target_detector.h:42: the angles are the "angular offset of the target": *)
(* while locked, the landing target is computed from the target tag.        *)
LandingTargetIsTarget ==
    pc = "idle" /\ HasLock(lock) => landing.id = TargetTagId
=============================================================================
