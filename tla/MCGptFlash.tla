----------------------------- MODULE MCGptFlash -----------------------------
(***************************************************************************)
(* Instances of GptFlash for TLC.                                          *)
(***************************************************************************)
EXTENDS GptFlash

\* An image that passes every check, with its entries after its header.
Image(id) ==
  [id |-> id, type |-> "GPT", size |-> TRUE, primary |-> TRUE, lba |-> TRUE,
   entries |-> 2, backup |-> TRUE]

\* The factory's table and another one with a header that names the wrong
\* block, which is written from the second flash on; images whose entries lie
\* on the header, on the backup copy, or partly past the end of the unit; and
\* one for each check that may fail.
MCFactory == Image(1)
MCImages ==
  {MCFactory, [Image(2) EXCEPT !.lba = FALSE],
   [Image(3) EXCEPT !.entries = 1],
   [Image(3) EXCEPT !.entries = NumSectors - EntryBlocks],
   [Image(3) EXCEPT !.entries = NumSectors - 1],
   [Image(4) EXCEPT !.type = "MBR"], [Image(4) EXCEPT !.size = FALSE],
   [Image(4) EXCEPT !.primary = FALSE], [Image(4) EXCEPT !.backup = FALSE]}

\* The host gives the number of a unit that is missing, one that is unit 0 as
\* an INT32, one that is too large, one that is -2 as an INT32, or none.
MCNames == {2 * INT32_MAX + 2, MAX_LUNS, 2 * INT32_MAX, Unnamed}
=============================================================================
