---------------------------- MODULE ObjectPaths ----------------------------
(***************************************************************************)
(* The table of object path handlers of a Connection (dbus.go): the        *)
(* patterns an application registers, and the lookup the receive loop does *)
(* for an incoming method call.                                            *)
(*                                                                         *)
(* A path is the sequence of its components: "/foo/bar" is                 *)
(* <<"foo", "bar">> and "/" is <<"">>.  A pattern is a path whose last     *)
(* component may be "*".  The channel a handler reads from is identified   *)
(* with the pattern it was registered for.                                 *)
(***************************************************************************)
EXTENDS Integers, Sequences

\* Mutated form: the loop cuts one component too many after the first miss.
LookupKey_SkipsParent(path, k) ==
  IF k = 0 THEN path
           ELSE Append(SubSeq(path, 1, Len(path) - (IF k < Len(path) THEN k + 1 ELSE k)), "*")

\* Mutated form: the "*" is not put in the place of what is cut off.
LookupKey_NoStar(path, k) == SubSeq(path, 1, Len(path) - k)

(***************************************************************************)
(* The key that iteration k of the loop in handlerForPath looks up: the    *)
(* path itself, then the path cut after each "/" from the right, with "*"  *)
(* for what was cut off.                                                   *)
(***************************************************************************)
LookupKey(path, k) ==
  IF k = 0 THEN path
           ELSE Append(SubSeq(path, 1, Len(path) - k), "*")

\* The iterations that hit a registered pattern after missing every earlier key.
FirstHit(handlers, path) ==
  {k \in 0..Len(path) : /\ LookupKey(path, k) \in handlers
                        /\ \A j \in 0..(k - 1) : LookupKey(path, j) \notin handlers}

(***************************************************************************)
(* handlerForPath: the handler of the first key that is registered, or     *)
(* `none' when the loop runs out of keys.                                  *)
(***************************************************************************)
HandlerForPath(handlers, path, none) ==
  LET hit == FirstHit(handlers, path)
  IN  IF hit = {} THEN none
                  ELSE LookupKey(path, CHOOSE k \in hit : TRUE)

(***************************************************************************)
(* Reference definition, after the expectations of TestGlob: a pattern     *)
(* covers a path if it is that path, or ends in "*" and what precedes the  *)
(* "*" is a proper prefix of the path; the longest covering pattern wins,  *)
(* and a literal match wins over every wildcard.                           *)
(***************************************************************************)
Covers(pattern, path) ==
  \/ pattern = path
  \/ \E n \in 0..(Len(path) - 1) :
        /\ Len(pattern) = n + 1
        /\ pattern[n + 1] = "*"
        /\ \A i \in 1..n : pattern[i] = path[i]

MoreSpecific(p, q, path) ==
  p = path \/ (q # path /\ Len(p) >= Len(q))

IsBestHandler(handlers, path, h, none) ==
  LET covering == {p \in handlers : Covers(p, path)}
  IN  IF covering = {}
      THEN h = none
      ELSE h \in covering /\ \A q \in covering : MoreSpecific(h, q, path)
=============================================================================
