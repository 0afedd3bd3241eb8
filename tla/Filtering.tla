----------------------------- MODULE Filtering -----------------------------
(***************************************************************************)
(* A list with some of its members left out: the loop that is in           *)
(* FilterSignatureList of AuthService.c, where the members are signatures, *)
(* and in EDK II's deletion of a load option, where they are numbers in    *)
(* the boot order.  It is a recursive function and not SelectSeq so that   *)
(* FilteringProofs can tell what it returns.                               *)
(***************************************************************************)
EXTENDS Naturals, Sequences

\* The members of list that are not in gone, in their order; kept[i] is what
\* the loop has copied after i members.
Without(list, gone) ==
  LET kept[i \in 0..Len(list)] ==
        IF i = 0 THEN <<>>
        ELSE IF list[i] \in gone THEN kept[i - 1]
        ELSE Append(kept[i - 1], list[i])
  IN kept[Len(list)]
=============================================================================
