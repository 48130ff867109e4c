-------------------------- MODULE ObjectPathTable --------------------------
(***************************************************************************)
(* Connection.objectPathHandlers as the application changes it, and what   *)
(* the receive loop's lookup makes of it.                                  *)
(***************************************************************************)
EXTENDS ObjectPaths

CONSTANTS
  Components, \* what a path is made of, and "*"
  Patterns,   \* what may be registered
  Paths,      \* the paths of incoming method calls
  None

ASSUME TableAssumption ==
  /\ "*" \in Components
  /\ Patterns \subseteq Seq(Components) /\ None \notin Patterns
  /\ Paths \subseteq Seq(Components) \ {<<>>}

VARIABLE objectPathHandlers

Init == objectPathHandlers = {}

\* Registering a pattern twice panics, and so does removing one that is not
\* registered: the application does neither.
Register(p) ==
  /\ p \notin objectPathHandlers
  /\ objectPathHandlers' = objectPathHandlers \union {p}

Unregister(p) ==
  /\ p \in objectPathHandlers
  /\ objectPathHandlers' = objectPathHandlers \ {p}

Next == \E p \in Patterns : Register(p) \/ Unregister(p)

Spec == Init /\ [][Next]_objectPathHandlers

HandlerOf(path) == HandlerForPath(objectPathHandlers, path, None)

\* The cut-and-look-again loop of handlerForPath finds the most specific of
\* the patterns that cover the path, whatever else is registered: a call goes
\* to the handler TestGlob expects.
BestHandlerWins ==
  \A path \in Paths : IsBestHandler(objectPathHandlers, path, HandlerOf(path), None)

\* Registering or removing a pattern redirects only calls to paths it covers,
\* and only to or from its own handler.
ChangesAreLocal ==
  [][\A p \in Patterns, path \in Paths :
       /\ Register(p) => HandlerOf(path)' \in {p, HandlerOf(path)}
       /\ (Register(p) \/ Unregister(p)) /\ ~ Covers(p, path)
             => HandlerOf(path)' = HandlerOf(path)
       /\ Unregister(p) /\ HandlerOf(path) # p => HandlerOf(path)' = HandlerOf(path)
    ]_objectPathHandlers
=============================================================================
