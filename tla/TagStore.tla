------------------------------ MODULE TagStore ------------------------------
(***************************************************************************)
(* What TagTracker is for, without its array, its time stamps and its      *)
(* sweep: a store that knows the latest measurement of every tag seen      *)
(* lately.  TargetDetector is shown to implement it.                       *)
(***************************************************************************)
EXTENDS Naturals, FiniteSets

CONSTANTS Ids,              \* the tags there are
          Positions,        \* what a detection measures
          Capacity,         \* how many tags the store can hold
          Lifetime,         \* for how long a tag is kept at least
          AgeCap            \* ages above it are not told apart

VARIABLES store,            \* function from the stored tags to their latest measurement
          age               \* for each tag, the time since it was last seen

storeVars == <<store, age>>

Init ==
    /\ store = [id \in {} |-> CHOOSE p \in Positions : TRUE]
    /\ age = [id \in Ids |-> AgeCap]

\* one unit of time
Pass ==
    /\ age' = [id \in Ids |-> IF age[id] = AgeCap THEN AgeCap ELSE age[id] + 1]
    /\ UNCHANGED store

\* the tag is seen: a stored one is replaced, a new one stored if there is room
See(id, pos) ==
    /\ age' = [age EXCEPT ![id] = 0]
    /\ IF id \in DOMAIN store \/ Cardinality(DOMAIN store) < Capacity
       THEN store' = [j \in DOMAIN store \cup {id} |-> IF j = id THEN pos ELSE store[j]]
       ELSE UNCHANGED store

\* a tag unseen for longer than its lifetime may go
Forget(id) ==
    /\ id \in DOMAIN store
    /\ age[id] > Lifetime
    /\ store' = [j \in DOMAIN store \ {id} |-> store[j]]
    /\ UNCHANGED age

Next ==
    \/ Pass
    \/ \E id \in Ids, pos \in Positions : See(id, pos)
    \/ \E id \in Ids : Forget(id)

Spec == Init /\ [][Next]_storeVars

\* a tag that stays out of sight does not stay in the store
FairSpec == Spec /\ \A id \in Ids : WF_storeVars(Forget(id))
=============================================================================
