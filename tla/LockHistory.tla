----------------------------- MODULE LockHistory -----------------------------
(***************************************************************************)
(* A HysteresisLock driven by any sequence of frames, next to the complete *)
(* record of those frames.  The lock keeps two counters; the properties    *)
(* say what they mean in terms of the whole history.                       *)
(***************************************************************************)
EXTENDS HysteresisLock, Sequences, FiniteSets

CONSTANT MaxFrames          \* bound on the number of frames

ASSUME HistoryAssumption == MaxFrames \in Nat

VARIABLES lock,             \* the HysteresisLock object
          history           \* history[n]: did frame n see the target?

vars == <<lock, history>>

TypeOK == /\ lock \in Lock
          /\ history \in Seq(BOOLEAN)

Init == /\ lock = LockInit
        /\ history = << >>

Update(tagIdAvailable) ==
    /\ Len(history) < MaxFrames
    /\ lock' = LockUpdate(lock, tagIdAvailable)
    /\ history' = Append(history, tagIdAvailable)

Next == \E tagIdAvailable \in BOOLEAN : Update(tagIdAvailable)

Spec == Init /\ [][Next]_vars

-----------------------------------------------------------------------------
(* The reference definition. *)

\* frames n .. n+AllowedMissed-1 are a run of misses of h
MissRun(h, n) == \A k \in n .. n + AllowedMissed - 1 : k <= Len(h) /\ ~h[k]

\* the frames of h that saw the target and that no later run of misses cancels
Counting(h) ==
    {n \in 1 .. Len(h) : h[n] /\ \A m \in n + 1 .. Len(h) : ~MissRun(h, m)}

(* HysteresisLock::update/hasLock report a lock exactly when at least       *)
(* FramesRequired frames saw the target after the last AllowedMissed        *)
(* consecutive frames that did not, whatever was seen before: nothing of an *)
(* older sighting survives the run of misses, and a shorter run costs       *)
(* nothing.  It holds as long as the uint32_t counters cannot have wrapped. *)
LockMatchesHistory ==
    Len(history) <= UintMax =>
        (HasLock(lock) <=> Cardinality(Counting(history)) >= FramesRequired)
=============================================================================
