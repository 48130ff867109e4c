-------------------------- MODULE MCSignalWatches --------------------------
(* Instances of SignalWatches for TLC. *)
EXTENDS SignalWatches, TLC

CONSTANTS w1, w2, k1, k2, s1, s2

TwoWatches == {w1, w2}
RacingCancels == {k1, k2}
CancelTwice == (k1 :> w1 @@ k2 :> w1)
OtherWatch == {w2}

TwoSignals == {s1, s2}
\* The rules of w1 and w2 both accept s1, only that of w1 accepts s2.
Overlapping == (s1 :> {w1, w2} @@ s2 :> {w1})
=============================================================================
