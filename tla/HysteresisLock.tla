--------------------------- MODULE HysteresisLock ---------------------------
(***************************************************************************)
(* class HysteresisLock of target_detector.cpp: the target counts as       *)
(* locked after FramesRequired frames that saw it, and the count restarts  *)
(* when AllowedMissed consecutive frames did not see it.  The two counters *)
(* are uint32_t; UintMax is their largest value.                           *)
(***************************************************************************)
EXTENDS Naturals

CONSTANTS FramesRequired,   \* framesRequiredForLock (5 in the program)
          AllowedMissed,    \* allowedMissedFrames   (2 in the program)
          UintMax           \* UINT32_MAX

ASSUME LockAssumption ==
    /\ FramesRequired \in Nat \ {0}
    /\ AllowedMissed \in Nat \ {0}
    /\ UintMax \in Nat
    /\ FramesRequired <= UintMax
    /\ AllowedMissed <= UintMax

Uint == 0 .. UintMax

Lock == [okFrames : Uint, missedConsecutiveFrames : Uint]

(* The object is a global, so okFrames starts at 0 although the constructor *)
(* does not mention it.                                                     *)
LockInit == [okFrames |-> 0, missedConsecutiveFrames |-> 0]

\* n++ on a uint32_t
Increment(n) == IF n = UintMax THEN 0 ELSE n + 1

HasLock(l) == l.okFrames >= FramesRequired

Seen(l) == [okFrames |-> Increment(l.okFrames), missedConsecutiveFrames |-> 0]

Missed(l) ==
    LET missed == Increment(l.missedConsecutiveFrames)
    IN  [okFrames |-> IF missed >= AllowedMissed THEN 0 ELSE l.okFrames,
         missedConsecutiveFrames |-> missed]

-----------------------------------------------------------------------------
(* Mutants of LockUpdate. *)

\* the count is never restarted
LockUpdate_NoReset(l, tagIdAvailable) ==
    IF tagIdAvailable THEN Seen(l)
    ELSE [l EXCEPT !.missedConsecutiveFrames = Increment(@)]

\* a frame that saw the target sets the count instead of adding to it
LockUpdate_CountsOnce(l, tagIdAvailable) ==
    IF tagIdAvailable THEN [okFrames |-> 1, missedConsecutiveFrames |-> 0]
    ELSE Missed(l)
-----------------------------------------------------------------------------
(* HysteresisLock::update; its result is HasLock of the new state.  *)
LockUpdate(l, tagIdAvailable) == IF tagIdAvailable THEN Seen(l) ELSE Missed(l)
=============================================================================
