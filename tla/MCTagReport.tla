---------------------------- MODULE MCTagReport ----------------------------
(* Instances of TagReport for TLC. *)
EXTENDS TagReport

\* at most one detection, the two tags in either order, and the target twice,
\* measured differently; only the target is seen in more than one place
SomePairs ==
    LET somewhere == CHOOSE p \in Positions : TRUE
        seen == {d \in Detection : d.id # TargetTagId => d.pos = somewhere}
    IN  {<< >>} \cup [1 .. 1 -> seen] \cup
        {f \in [1 .. 2 -> seen] : f[1] # f[2] /\ f[1].pos = somewhere
                                  /\ (f[1].id # f[2].id => f[2].pos = somewhere)}

\* every tag at once, and none
AllOrNone ==
    {<< >>,
     [k \in 1 .. Cardinality(Ids) |-> [id |-> k - 1, pos |-> CHOOSE p \in Positions : TRUE]]}
=============================================================================
