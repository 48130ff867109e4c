---------------------------- MODULE CallService ----------------------------
(***************************************************************************)
(* What SendWithReply promises its caller, without serials, tables, locks, *)
(* wires or a receive loop: a call that was begun is answered at most once *)
(* by whoever it was addressed to; it returns normally only after that     *)
(* answer; and it returns an error only when the connection is down.  Then *)
(* the call was not, and never will be, answered, so that a caller may     *)
(* repeat it, unless it is one of those in Early, which can be answered    *)
(* before they are sent.                                                   *)
(*                                                                         *)
(* All of this is promised until two messages under way are called by the  *)
(* same name, and nothing from then on.                                    *)
(***************************************************************************)
CONSTANTS Calls, Early

VARIABLES
  status,    \* the caller's view of each call
  answered,  \* the calls that have been answered
  up,        \* whether the connection is usable
  reused     \* whether a name was given again while it was in use

svars == <<status, answered, up, reused>>

SInit ==
  /\ status = [c \in Calls |-> "idle"]
  /\ answered = {}
  /\ up = TRUE
  /\ reused = FALSE

Become(c, from, to) == status[c] = from /\ status' = [status EXCEPT ![c] = to]

\* Every message gets a name, and not only a call.
Name == reused' \in BOOLEAN
Begin(c) == Become(c, "idle", "open") /\ Name /\ UNCHANGED <<answered, up>>
Misname == Name /\ UNCHANGED <<status, answered, up>>

Answer(c) ==
  /\ up /\ status[c] = "open" /\ c \notin answered
  /\ answered' = answered \union {c}
  /\ UNCHANGED <<status, up, reused>>

Return(c) == c \in answered /\ Become(c, "open", "returned") /\ UNCHANGED <<answered, up, reused>>

Fail(c) ==
  /\ ~up /\ (c \notin answered \/ c \in Early)
  /\ Become(c, "open", "failed")
  /\ UNCHANGED <<answered, up, reused>>

GoDown == up /\ up' = FALSE /\ UNCHANGED <<status, answered, reused>>

Promised == GoDown \/ Misname \/ \E c \in Calls : Begin(c) \/ Answer(c) \/ Return(c) \/ Fail(c)

SNext == IF reused THEN UNCHANGED reused ELSE Promised

SSpec == SInit /\ [][SNext]_svars
=============================================================================
