------------------------------- MODULE Delivery -------------------------------
(***************************************************************************)
(* What a line promises its consumers, whatever its data structures: the   *)
(* messages of the topic are handed out in the order of their ids; on a    *)
(* line with recycling a message handed out may be handed out again until  *)
(* it is confirmed, and never after that; and a message is only discarded  *)
(* once the line is done with it.  Line implements this specification.     *)
(***************************************************************************)
EXTENDS Integers

CONSTANTS
  MaxBatch   \* the largest batch of messages pushed at once

VARIABLES
  redelivers,   \* does the line recycle unconfirmed messages?
  pushed,   \* ids below it have been pushed
  next,     \* ids below it have been handed out, or emptied
  out,      \* ids handed out and not confirmed
  kept,     \* ids whose message is kept
  got       \* ids the last call handed out

dvars == <<redelivers, pushed, next, out, kept, got>>

Init ==
  /\ redelivers \in BOOLEAN
  /\ pushed \in Nat
  /\ next = 0
  /\ out = {}
  /\ kept = 0..(pushed - 1)
  /\ got = {}

Accept(n) ==
  /\ pushed' = pushed + n
  /\ kept' = kept \cup pushed..(pushed + n - 1)
  /\ UNCHANGED <<redelivers, next, out, got>>

\* A call hands out some unconfirmed messages and the next n new ones; with
\* neither it is a call that hands out nothing.
HandOut(again, n) ==
  LET fresh == next..(next + n - 1)
  IN  /\ again \subseteq out
      /\ again \cup fresh \subseteq kept
      /\ next' = next + n
      /\ next' <= pushed
      /\ out' = IF redelivers THEN out \cup fresh ELSE out
      /\ got' = again \cup fresh
      /\ UNCHANGED <<redelivers, pushed, kept>>

Confirm(id) ==
  /\ id \in out
  /\ out' = out \ {id}
  /\ got' = {}
  /\ UNCHANGED <<redelivers, pushed, next, kept>>

Empty ==
  /\ next' = pushed
  /\ out' = {}
  /\ UNCHANGED <<redelivers, pushed, kept, got>>

Discard(id) ==
  /\ id < next
  /\ id \notin out
  /\ kept' = kept \ {id}
  /\ UNCHANGED <<redelivers, pushed, next, out, got>>

Next ==
  \/ \E n \in 1..MaxBatch : Accept(n)
  \/ \E again \in SUBSET out, n \in 0..(pushed - next) : HandOut(again, n)
  \/ \E id \in out : Confirm(id)
  \/ Empty
  \/ \E id \in kept : Discard(id)

Spec == Init /\ [][Next]_dvars
===============================================================================
