------------------------- MODULE MCObjectPathTable -------------------------
(* An instance of ObjectPathTable for TLC: paths of up to three components,
   and for them literal patterns, wildcards at every depth, and a pattern that
   covers nothing because its "*" is not at the end. *)
EXTENDS ObjectPathTable

MCComponents == {"", "foo", "bar", "baz", "*"}

Root == <<"">>

MCPaths == {Root, <<"foo">>, <<"baz">>, <<"foo", "bar">>, <<"foo", "baz">>, <<"baz", "foo">>,
            <<"foo", "bar", "baz">>, <<"foo", "baz", "baz">>}

MCPatterns == {<<"*">>, Root, <<"foo">>, <<"foo", "*">>, <<"foo", "bar">>, <<"*", "foo">>,
               <<"foo", "bar", "*">>, <<"foo", "bar", "baz">>}
=============================================================================
