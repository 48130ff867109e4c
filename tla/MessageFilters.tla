--------------------------- MODULE MessageFilters ---------------------------
(***************************************************************************)
(* Message filters (dbus.go): the receive loop ranges over the slice       *)
(* messageFilters and calls each filter, and RegisterMessageFilter and     *)
(* UnregisterMessageFilter change the slice and the array behind it.  They *)
(* are called by a filter while it runs, or by an application that sees to *)
(* it that the loop does not dispatch at the time; nothing else makes the  *)
(* code free of data races, for no lock is taken.                          *)
(***************************************************************************)
EXTENDS Integers, Sequences, FiniteSets, SequencesExt

CONSTANTS
  Filters,   \* the filters that may be registered
  MaxArrays, \* bound: how many arrays are allocated
  Free       \* a slot of an array with no filter in it

ASSUME FilterAssumption ==
  IsFiniteSet(Filters) /\ MaxArrays \in Nat \ {0} /\ Free \notin Filters

VARIABLES
  arrays, \* the arrays that were allocated, each as long as its capacity
  slice,  \* messageFilters: the number of its array, and its length
  fresh,  \* the filters that were never registered
  loop,   \* "read", "range" or "filter" while one is called, then what became of
          \* the message: "passed" or "swallowed"
  range,  \* the slice the loop ranges over
  index,  \* and how far it has come
  before, \* history: the filters when the message came
  called, \* history: those that were called
  removed \* history: those that were unregistered in the array meanwhile

loopVars == <<loop, range, index, before, called>>
vars == <<arrays, slice, fresh, loopVars, removed>>

Registered == SubSeq(arrays[slice.array], 1, slice.length)

Init ==
  /\ arrays = << <<>> >> /\ slice = [array |-> 1, length |-> 0] /\ fresh = Filters
  /\ loop = "read" /\ range = slice /\ index = 0
  /\ before = <<>> /\ called = <<>> /\ removed = {}

\* append: into the array while it has room, or into a copy of twice its size.
Register(f) ==
  LET old == arrays[slice.array]
      room == [i \in 1..(IF old = <<>> THEN 1 ELSE 2 * Len(old)) |->
                 IF i <= Len(old) THEN old[i] ELSE Free]
      end == slice.length + 1
  IN  /\ loop \in {"read", "filter"} /\ f \in fresh
      /\ fresh' = fresh \ {f}
      /\ IF slice.length < Len(old)
         THEN /\ arrays' = [arrays EXCEPT ![slice.array][end] = f]
              /\ slice' = [slice EXCEPT !.length = end]
         ELSE /\ Len(arrays) < MaxArrays
              /\ arrays' = Append(arrays, [room EXCEPT ![end] = f])
              /\ slice' = [array |-> Len(arrays) + 1, length |-> end]
      /\ UNCHANGED <<loopVars, removed>>

\* The filters behind it move one slot down, in place; the last slot keeps its own.
Unregister(f) ==
  /\ loop \in {"read", "filter"} /\ f \in ToSet(Registered)
  /\ LET at == CHOOSE i \in 1..slice.length : Registered[i] = f
     IN  arrays' = [arrays EXCEPT ![slice.array] =
                      [i \in DOMAIN @ |-> IF i \in at..slice.length - 1 THEN @[i + 1] ELSE @[i]]]
  /\ slice' = [slice EXCEPT !.length = @ - 1]
  /\ removed' = IF loop = "filter" /\ slice.array = range.array THEN removed \union {f} ELSE removed
  /\ UNCHANGED <<fresh, loopVars>>

\* A message comes: the array and the length are those of this moment.
Dispatch ==
  /\ loop = "read" /\ loop' = "range"
  /\ range' = slice /\ index' = 0
  /\ before' = Registered /\ called' = <<>> /\ removed' = {}
  /\ UNCHANGED <<arrays, slice, fresh>>

\* Mutated form: the slice is read anew for each filter.
CallFilter_ReadsAnew ==
  /\ loop = "range" /\ index < slice.length
  /\ loop' = "filter" /\ index' = index + 1
  /\ called' = Append(called, arrays[slice.array][index'])
  /\ UNCHANGED <<arrays, slice, fresh, range, before, removed>>

\* Each slot is read when its turn comes.
CallFilter ==
  /\ loop = "range" /\ index < range.length
  /\ loop' = "filter" /\ index' = index + 1
  /\ called' = Append(called, arrays[range.array][index'])
  /\ UNCHANGED <<arrays, slice, fresh, range, before, removed>>

\* What the filter returns in place of the message is a variable of its own: it
\* counts only whether it is nil.
FilterReturns ==
  /\ loop = "filter" /\ loop' \in {"range", "swallowed"}
  /\ UNCHANGED <<arrays, slice, fresh, range, index, before, called, removed>>

PassOn ==
  /\ loop = "range" /\ index >= range.length
  /\ loop' = "passed"
  /\ UNCHANGED <<arrays, slice, fresh, range, index, before, called, removed>>

Done ==
  /\ loop \in {"passed", "swallowed"} /\ loop' = "read"
  /\ UNCHANGED <<arrays, slice, fresh, range, index, before, called, removed>>

Next ==
  \/ \E f \in Filters : Register(f) \/ Unregister(f)
  \/ Dispatch \/ CallFilter \/ FilterReturns \/ PassOn \/ Done

Spec == Init /\ [][Next]_vars

(***************************************************************************)
(* Properties.                                                             *)
(***************************************************************************)
Position(f) == CHOOSE i \in 1..Len(before) : before[i] = f
Count(f) == Cardinality({i \in 1..Len(called) : called[i] = f})

\* A message that is passed on has been through every filter that was there when it
\* came, once and in their order, whatever filters are registered in the meantime.
\* When a filter unregisters another, or itself, the loop may miss one that stands
\* behind it, and call the last that is left more than once, and that is all: it
\* never calls a slot with no filter in it.
ThroughEveryFilter ==
  /\ Free \notin ToSet(called)
  /\ loop = "passed" /\ removed = {} => called = before
  /\ loop = "passed" =>
       \A f \in ToSet(before) \intersect ToSet(Registered) :
          \/ Count(f) = 1
          \/ /\ \E g \in removed \intersect ToSet(before) : Position(g) < Position(f)
             /\ \/ Count(f) = 0
                \/ \A i \in Position(f) + 1..Len(before) : before[i] \in removed
=============================================================================
