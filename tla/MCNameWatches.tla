--------------------------- MODULE MCNameWatches ---------------------------
(* Instances of NameWatches for TLC. *)
EXTENDS NameWatches, TLC

CONSTANTS w1, w2

NoWatches == {}
FirstWatch == {w1}
SecondWatch == {w2}

\* One Cancel of the first watch, two of the second.
CancelThree == <<w1, w2, w2>>
CancelNone == <<>>

\* A well known name nobody owns yet; a unique name that is in use, or gone.
WellKnown == {[unique |-> FALSE, owner |-> 0]}
InUse == {[unique |-> TRUE, owner |-> 1]}
AnyName == WellKnown \union InUse \union {[unique |-> TRUE, owner |-> 2]}
=============================================================================
