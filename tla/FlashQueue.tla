----------------------------- MODULE FlashQueue -----------------------------
(***************************************************************************)
(* What parallel download and flash promises the host: the partitions are  *)
(* written as if every command ran to its end before the next one began.   *)
(* An item is an image (its number) or Barrier, a command that must find   *)
(* all flashing done.                                                      *)
(***************************************************************************)
EXTENDS Naturals, Sequences

CONSTANTS Items, Barrier

VARIABLES
  ordered,   \* what the host has been promised, in its order
  written    \* what has reached the partitions, in theirs

vars == <<ordered, written>>

Init == ordered = << >> /\ written = << >>

\* One image may be in flight while the host goes on.
Accept(i) ==
  /\ written = ordered
  /\ ordered' = Append(ordered, i)
  /\ UNCHANGED written

Write ==
  /\ Len(written) < Len(ordered)
  /\ written' = Append(written, ordered[Len(written) + 1])
  /\ UNCHANGED ordered

RunBarrier ==
  /\ written = ordered
  /\ ordered' = Append(ordered, Barrier)
  /\ written' = Append(written, Barrier)

Next == Write \/ RunBarrier \/ \E i \in Items : Accept(i)

Spec == Init /\ [][Next]_vars
=============================================================================
