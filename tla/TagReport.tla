----------------------------- MODULE TagReport -----------------------------
(***************************************************************************)
(* The tag detection packet of Telemetry::update (telemetry.cpp), composed *)
(* with the TargetDetector it reports on.  Both run on the main loop, so a *)
(* report is built between two frames.  sent is the packet a step hands to *)
(* the transport; what became of it there is not modelled here.            *)
(***************************************************************************)
EXTENDS TargetDetector

CONSTANT NoReport           \* no packet

ASSUME ReportAssumption == 0 \in Ids

TagSize == 46               \* sizeof(tag_t), packed
LandingTargetSize == 22     \* sizeof(landing_target_t), packed
MaxPayloadSize == 512       \* TELEMETRY_PACKET_MAX_PAYLOAD_SIZE

VARIABLES lockedTag,        \* the static tag_t of Telemetry::update
          sent              \* the packet of the latest step, or NoReport

reportVars == <<vars, lockedTag, sent>>

\* mutant of StaticTag: the static is not the zeroed memory that happens to
\* carry the target's id
StaticTag_OtherId == [id |-> CHOOSE id \in Ids : id # TargetTagId,
                      pos |-> Zeros, lastSeen |-> 0]

\* a static tag_t is zeroed, its id included
StaticTag == [id |-> 0, pos |-> Zeros, lastSeen |-> 0]

NoLanding == [id |-> NoId, pos |-> Zeros]

PacketSize(n) == 2 + TagSize + LandingTargetSize + n * TagSize

ReportInit == Init /\ lockedTag = StaticTag /\ sent = NoReport

\* mutant of SendTags: the lock of the hysteresis is reported, but the
\* static record is only refreshed when it is new
SendTags_KeepsFirst ==
    /\ pc = "idle"
    /\ LET hasLock == GetTagFound(tags, TargetTagId, lockedTag)
       IN  /\ lockedTag' = IF lockedTag.pos = Zeros
                           THEN GetTag(tags, TargetTagId, lockedTag) ELSE lockedTag
           /\ sent' = [hasLock |-> hasLock, lockedTag |-> lockedTag',
                       target |-> IF hasLock THEN landing ELSE NoLanding,
                       tags |-> tags, size |-> PacketSize(Len(tags))]
    /\ UNCHANGED vars

\* getLockedTag refreshes the static record, or leaves what it held before
SendTags ==
    /\ pc = "idle"
    /\ LET hasLock == GetTagFound(tags, TargetTagId, lockedTag)
       IN  /\ lockedTag' = GetTag(tags, TargetTagId, lockedTag)
           /\ sent' = [hasLock |-> hasLock, lockedTag |-> lockedTag',
                       target |-> IF hasLock THEN landing ELSE NoLanding,
                       tags |-> tags, size |-> PacketSize(Len(tags))]
    /\ UNCHANGED vars

DetectorStep == Next /\ sent' = NoReport /\ UNCHANGED lockedTag

ReportNext == DetectorStep \/ SendTags

ReportSpec == ReportInit /\ [][ReportNext]_reportVars

-----------------------------------------------------------------------------
(* A report that says "locked" carries the target's own record, the one the *)
(* list of all tags in the same packet holds for it.  getTag looks up the   *)
(* id the static record already has, so this rests on the static being      *)
(* zeroed, on TARGET_TAG_ID being 0 and on no call ever overwriting it with *)
(* another tag.                                                             *)
ReportedTagIsTarget ==
    sent # NoReport /\ sent.hasLock =>
        /\ sent.lockedTag.id = TargetTagId
        /\ \E k \in 1 .. Len(sent.tags) : sent.tags[k] = sent.lockedTag

(* A lock the detector holds is never reported as "not locked".             *)
HeldLockReported ==
    sent # NoReport /\ HasLock(lock) => sent.hasLock

(* telemetry.h:89: the payload of a packet is at most                       *)
(* TELEMETRY_PACKET_MAX_PAYLOAD_SIZE bytes, and so is the buffer the report *)
(* is put together in.                                                      *)
ReportFits ==
    sent # NoReport => sent.size <= MaxPayloadSize
=============================================================================
