----------------------------- MODULE TagTracker -----------------------------
(***************************************************************************)
(* class TagTracker of target_detector.cpp: the array tags[MAX_TAGS] and   *)
(* tag_count as one sequence of records [id, pos, lastSeen].  pos stands   *)
(* for the corners and the centre of a detection.  Time stamps come from   *)
(* hal_millis(), a uint32_t that wraps at ClockMod.                        *)
(***************************************************************************)
EXTENDS Naturals, Sequences

CONSTANTS MaxTags,          \* MAX_TAGS   (10 in the program)
          Timeout,          \* TIMEOUT_MS (500 in the program)
          ClockMod          \* 2^32

ASSUME TrackerAssumption ==
    /\ MaxTags \in Nat \ {0}
    /\ Timeout \in Nat
    /\ ClockMod \in Nat
    /\ Timeout < ClockMod

Millis == 0 .. ClockMod - 1

\* hal_millis() one tick later
NextMilli(now) == IF now + 1 = ClockMod THEN 0 ELSE now + 1

\* mutant of Elapsed: the subtraction saturates instead of wrapping
Elapsed_NoWrap(now, then) == IF now >= then THEN now - then ELSE 0

\* the uint32_t subtraction now - then
Elapsed(now, then) == IF now >= then THEN now - then ELSE now + ClockMod - then

\* mutant of IsOld: a tag is dropped at the timeout instead of after it
IsOld_AtTimeout(tag, now) == Elapsed(now, tag.lastSeen) >= Timeout

IsOld(tag, now) == Elapsed(now, tag.lastSeen) > Timeout

TagExists(tags, id) == \E k \in 1 .. Len(tags) : tags[k].id = id

\* the first entry with this id, where the search loops stop
IndexOf(tags, id) ==
    CHOOSE k \in 1 .. Len(tags) :
        tags[k].id = id /\ \A j \in 1 .. k - 1 : tags[j].id # id

\* the entries after index move one place to the left
RemoveAt(tags, index) ==
    [k \in 1 .. Len(tags) - 1 |-> IF k < index THEN tags[k] ELSE tags[k + 1]]

\* mutant of UpdateTag: a known tag keeps its old record
UpdateTag_KeepsOld(tags, tag) ==
    IF TagExists(tags, tag.id) \/ Len(tags) = MaxTags THEN tags
    ELSE Append(tags, tag)

\* mutant of UpdateTag: the bound of the array is not looked at
UpdateTag_NoBound(tags, tag) ==
    IF TagExists(tags, tag.id)
    THEN [tags EXCEPT ![IndexOf(tags, tag.id)] = tag]
    ELSE Append(tags, tag)

\* a known tag is overwritten, a new one is added when there is room, and
\* silently ignored when there is none
UpdateTag(tags, tag) ==
    IF TagExists(tags, tag.id)
    THEN [tags EXCEPT ![IndexOf(tags, tag.id)] = tag]
    ELSE IF Len(tags) < MaxTags THEN Append(tags, tag) ELSE tags

(* getTag(id, tag) looks for tag->id, the id the caller's record already    *)
(* holds; its parameter id is not used.  It returns whether that tag is     *)
(* tracked and leaves the caller's record alone when it is not.             *)
GetTagFound(tags, id, tag) == TagExists(tags, tag.id)

GetTag(tags, id, tag) ==
    IF GetTagFound(tags, id, tag) THEN tags[IndexOf(tags, tag.id)] ELSE tag
=============================================================================
