----------------------------- MODULE MCABSlots -----------------------------
(***************************************************************************)
(* Instances of ABSlots for TLC.                                           *)
(***************************************************************************)
EXTENDS ABSlots

MCParts == {"boot", "abl"}

\* The first or the second allocation fails, with abl before boot.
MCShortLists == {{}, {"abl"}}

\* Priorities and counts: zero, the largest, and the one just below it.
Attr(p, act, r, su, un) ==
  [prio |-> p, active |-> act, retry |-> r, succ |-> su, unboot |-> un]

Blank == Attr(0, FALSE, 0, FALSE, FALSE)

\* The states of a slot beside blank: proven, and out of tries.
Proven == Attr(MAX_PRIORITY - 1, FALSE, MAX_RETRY_COUNT, TRUE, FALSE)
Exhausted == Attr(MAX_PRIORITY - 1, FALSE, 0, FALSE, FALSE)

Act(s) == [s EXCEPT !.active = TRUE]

Table(a, b) ==
  [attr |-> [s \in Slots |-> IF s = "a" THEN a ELSE b],
   guid |-> [p \in Parts |-> IF b.active THEN "b" ELSE "a"]]

\* A fresh device, and one whose update to slot b has to fall back to a; the
\* commands make the other kinds of slots out of these.
MCTables == {Table(Blank, Blank), Table(Proven, Act(Exhausted))}
=============================================================================
