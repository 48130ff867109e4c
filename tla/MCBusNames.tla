----------------------------- MODULE MCBusNames -----------------------------
(* Instances of BusNames for TLC. *)
EXTENDS BusNames

CONSTANTS x1, x2

TwoReleases == {x1, x2}

\* A name that may be taken away, with and without a place in the queue, and one
\* that is taken over.
SomeFlags == {{"AllowReplacement"}, {"AllowReplacement", "DoNotQueue"}, {"ReplaceExisting"}}
AnyOwner == Parties \ {"us"}
=============================================================================
