---------------------------- MODULE MCConnection ----------------------------
(* Instances of Connection for TLC. *)
EXTENDS Connection, TLC

CONSTANTS c1, c2, a1, r1, r2

Foo == <<"foo">>
FooAny == <<"foo", "*">>

TwoCalls == {c1, c2}
OneCall == {c1}
OneCast == {a1}
SecondCall == {c2}
NoCalls == {}
OneRequest == {r1}
TwoRequests == {r1, r2}
NoRequests == {}

FooBar == <<"foo", "bar">>
PathsOfTwo == (r1 :> FooBar @@ r2 :> FooBar)
PathsOfOne == (r1 :> Foo)
NoPaths == <<>>

NotNested == [r \in Requests |-> None]
HandlerCallsOut == (r1 :> c1 @@ r2 :> None)

OverlappingPatterns == {FooBar, FooAny}
NoPatterns == {}
=============================================================================
