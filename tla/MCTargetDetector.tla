-------------------------- MODULE MCTargetDetector --------------------------
(* Instances of TargetDetector for TLC. *)
EXTENDS TargetDetector

\* all frames of at most n detections
FramesUpTo(n) == UNION {[1 .. k -> Detection] : k \in 0 .. n}

AnyPair == FramesUpTo(2)

\* every tag at once, as when the drone hovers over the whole pattern, the
\* same with one tag twice, the target or the last tag alone, and none
EveryTagAtOnce ==
    LET at(id) == [id |-> id, pos |-> CHOOSE p \in Positions : TRUE]
        all == [k \in 1 .. Cardinality(Ids) |-> at(k - 1)]
    IN  {<< >>, <<at(TargetTagId)>>, <<all[Len(all)]>>, all, Append(all, all[1])}
=============================================================================
