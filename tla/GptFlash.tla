------------------------------ MODULE GptFlash ------------------------------
(***************************************************************************)
(* How "fastboot flash partition[:lun]" puts a new partition table on a    *)
(* logical unit: the branch of CmdFlash that chooses the unit, and         *)
(* UpdatePartitionTable, WriteGpt, ParseGptHeader and PatchGpt of          *)
(* BootLib/PartitionTableUpdate.c, block write by block write, with errors *)
(* and power cuts in the middle of each.                                   *)
(*                                                                         *)
(* A unit is a function from block numbers to contents. An image is        *)
(* abstracted to which of the checks it would pass and to the block its    *)
(* primary header names for the entries, which nothing checks.             *)
(***************************************************************************)
EXTENDS Integers

CONSTANTS
  RootDevice,    \* "UFS" or "EMMC"
  MAX_LUNS,      \* 8 in the code
  INT32_MAX,     \* 2^31 - 1 in the code; what Lun, an INT32, can hold
  Luns,          \* the logical units a UFS device has
  Names,         \* what the host adds to a partition's name: a number,
                 \* a UINTN once it is parsed, or nothing
  NumSectors,    \* blocks of a unit
  EntryBlocks,   \* MAX_PARTITION_ENTRIES_SZ / BlkSz
  Images,        \* the images the host sends
  Factory,       \* the table every unit has at first
  Cuts,          \* the blocks before which a write may end early
  IoMayFail      \* may erasing, writing or re-reading fail?

NO_LUN == -1
Unnamed == -2
NoUnit == -3
Units == IF RootDevice = "UFS" THEN Luns ELSE {NO_LUN}

ImageType ==
  [id : Nat,
   type : {"GPT", "MBR", "BACKUP"},  \* what PartitionGetType finds
   size : BOOLEAN,                   \* room for both headers and arrays
   primary : BOOLEAN,                \* the primary header passes, but for
   lba : BOOLEAN,                    \* its own block number being 1
   entries : Nat,                    \* PARTITION_ENTRIES_OFFSET of that header
   backup : BOOLEAN]                 \* the backup header passes, PatchGpt works

Tables == {Factory} \union Images

ASSUME DeviceAssumption ==
  /\ RootDevice \in {"UFS", "EMMC"}
  /\ MAX_LUNS \in Nat /\ Luns \subseteq 0..(MAX_LUNS - 1)
  /\ INT32_MAX \in Nat /\ MAX_LUNS <= INT32_MAX
  /\ Names \subseteq Nat \union {Unnamed}
ASSUME SizeAssumption ==
  /\ EntryBlocks \in Nat \ {0}
  /\ NumSectors \in Nat /\ NumSectors >= 2 * EntryBlocks + 4
  /\ Cuts \subseteq 0..(NumSectors - 1)
ASSUME ImagesAssumption ==
  /\ Images \subseteq ImageType /\ Factory \in ImageType
  /\ Factory.entries = 2
  /\ IoMayFail \in BOOLEAN

VARIABLES
  block,              \* per unit, the contents of its blocks
  pc,                 \* the write WriteGpt does next, or "idle"
  Lun,                \* the number asked for; kept from command to command
  at,                 \* the unit a table goes to, or went to last; or NoUnit
  ParseSecondaryGpt,
  img,                \* the image being written, or written last
  reply,              \* the answer to the last "flash partition"
  named               \* history: the numbers the host gave since the start

vars == <<block, pc, Lun, at, ParseSecondaryGpt, img, reply, named>>

Erased == <<"erased">>
Part(part, i) == <<part, i>>

-----------------------------------------------------------------------------
(***************************************************************************)
(* The layout PatchGpt and WriteGpt give a unit                            *)
(***************************************************************************)
Blocks == 0..(NumSectors - 1)

\* Mutant of BackupEntries: the block of the backup header is not counted.
BackupEntries_OffByOne == (NumSectors - EntryBlocks)..(NumSectors - 1)

\* WriteGpt takes the first block from the header the host sent; PatchGpt
\* puts a place of its own only into the backup header. PtnEntryBlks includes
\* GPT_HDR_BLOCKS.
PrimaryEntries(i) == i.entries..(i.entries + EntryBlocks - 1)
BackupEntries == (NumSectors - (EntryBlocks + 1))..(NumSectors - 2)
BackupHeader == NumSectors - 1
LastUsable == NumSectors - (EntryBlocks + 2)

\* What each write of WriteGpt covers, and the order of the writes.
Target(w, i) ==
  CASE w = "erase" -> Blocks
    [] w = "mbr" -> {0}
    [] w = "header" -> {1}
    [] w = "backup header" -> {BackupHeader}
    [] w = "entries" -> PrimaryEntries(i)
    [] w = "backup entries" -> BackupEntries

Content(w, i) == IF w = "erase" THEN Erased ELSE Part(w, i)

After(w) ==
  CASE w = "erase" -> "mbr"
    [] w = "mbr" -> "header"
    [] w = "header" -> "backup header"
    [] w = "backup header" -> "entries"
    [] w = "entries" -> "backup entries"
    [] w = "backup entries" -> "reenumerate"

Writes == {"erase", "mbr", "header", "backup header", "entries",
           "backup entries"}

\* External: WriteBlocks refuses a write that is not all on the unit.
Fits(w, i) == Target(w, i) \subseteq Blocks

\* A unit after the write w, or after the part of it below block cut.
Written(unit, w, i, cut) ==
  [b \in Blocks |-> IF Fits(w, i) /\ b \in Target(w, i) /\ b < cut
                    THEN Content(w, i) ELSE unit[b]]

\* A copy of the table of i is whole: its header, and the entries where that
\* header says they are. External: the partition driver takes no other copy
\* (their checksums differ).
PrimaryWhole(unit, i) ==
  /\ Fits("entries", i) /\ unit[1] = Part("header", i)
  /\ \A b \in PrimaryEntries(i) : unit[b] = Part("entries", i)
BackupWhole(unit, i) ==
  /\ unit[BackupHeader] = Part("backup header", i)
  /\ \A b \in BackupEntries : unit[b] = Part("backup entries", i)

-----------------------------------------------------------------------------
(***************************************************************************)
(* Which unit                                                              *)
(***************************************************************************)
\* The UINTN of StrDecimalToUintn, stored in an INT32.
ToInt32(n) ==
  LET low == n % (2 * (INT32_MAX + 1))
  IN IF low <= INT32_MAX THEN low ELSE low - 2 * (INT32_MAX + 1)

\* The only check on it, made after it has been stored.
TooLarge(n) == n # Unnamed /\ ToInt32(n) >= MAX_LUNS

\* Mutant of ChosenLun: without a number, unit 0.
ChosenLun_Zero(n) ==
  IF RootDevice = "EMMC" THEN NO_LUN ELSE IF n = Unnamed THEN 0 ELSE ToInt32(n)

\* The global Lun when "flash partition" comes to UpdatePartitionTable.
ChosenLun(n) ==
  IF RootDevice = "EMMC" THEN NO_LUN
  ELSE IF n = Unnamed THEN Lun ELSE ToInt32(n)

\* LunGuids has an element for it, or it is not used as an index.
Indexes(l) == l \in NO_LUN..(MAX_LUNS - 1)

\* Mutant of StorageUnits: the unit asked for is taken to be there.
StorageUnits_Any(l) == {l}

\* GetStorageHandle: the unit with the root device GUID asked for. None is no
\* error. An index outside LunGuids reads a GUID from next to it: undefined,
\* so any unit's, or none's.
StorageUnits(l) ==
  IF ~Indexes(l) THEN Units \union {NoUnit}
  ELSE IF l \in Units THEN {l} ELSE {NoUnit}

Named(n) == named' = named \union ({n} \ {Unnamed})

-----------------------------------------------------------------------------
FactoryBlocks ==
  [b \in Blocks |->
     CASE b = 0 -> Part("mbr", Factory)
       [] b = 1 -> Part("header", Factory)
       [] b \in PrimaryEntries(Factory) -> Part("entries", Factory)
       [] b \in BackupEntries -> Part("backup entries", Factory)
       [] b = BackupHeader -> Part("backup header", Factory)
       [] OTHER -> Erased]

Init ==
  /\ block = [u \in Units |-> FactoryBlocks]
  /\ pc = "idle" /\ Lun = NO_LUN /\ at = NoUnit /\ ParseSecondaryGpt = FALSE
  /\ img = Factory /\ reply = "none" /\ named = {}

\* ParseGptHeader of the primary header: its block number is only looked at
\* while no backup header has been parsed yet.
PrimaryAccepted(i) == i.size /\ i.primary /\ (i.lba \/ ParseSecondaryGpt)

Fails == pc' = "idle" /\ at' = NoUnit /\ reply' = "FAIL"

\* "partition:9", or any other name with such a number.
FlashBadLun(n) ==
  /\ pc = "idle" /\ TooLarge(n)
  /\ Lun' = ToInt32(n) /\ Named(n)
  /\ Fails /\ UNCHANGED <<block, ParseSecondaryGpt, img>>

\* "boot_a:4": the number of a command that is not about a table. What it
\* writes leaves the tables alone.
FlashOther(n) ==
  /\ pc = "idle" /\ n # Unnamed /\ ~TooLarge(n)
  /\ Lun' = ToInt32(n) /\ Named(n)
  /\ UNCHANGED <<block, pc, at, ParseSecondaryGpt, img, reply>>

\* CmdFlash up to ErasePartition.
FlashPartition(i, n) ==
  /\ pc = "idle" /\ ~TooLarge(n)
  /\ Lun' = ChosenLun(n) /\ Named(n)
  /\ \/ \* not a GPT
        /\ i.type # "GPT"
        /\ Fails /\ UNCHANGED <<img, ParseSecondaryGpt>>
     \/ \* no such unit: WriteGpt returns the 0 it has from GetStorageHandle
        /\ i.type = "GPT" /\ NoUnit \in StorageUnits(ChosenLun(n))
        /\ at' = NoUnit /\ pc' = "reenumerate"
        /\ UNCHANGED <<img, ParseSecondaryGpt, reply>>
     \/ /\ i.type = "GPT" /\ StorageUnits(ChosenLun(n)) # {NoUnit}
        /\ ~PrimaryAccepted(i)
        /\ Fails /\ UNCHANGED <<img, ParseSecondaryGpt>>
     \/ /\ i.type = "GPT" /\ PrimaryAccepted(i) /\ ParseSecondaryGpt' = TRUE
        /\ \E u \in StorageUnits(ChosenLun(n)) \ {NoUnit} :
             IF i.backup
             THEN pc' = "erase" /\ at' = u /\ img' = i /\ UNCHANGED reply
             ELSE Fails /\ UNCHANGED img
  /\ UNCHANGED block

-----------------------------------------------------------------------------
\* Mutant of WriteStep: the table is written over the old one.
WriteStep_NoErase ==
  /\ pc \in Writes /\ Fits(pc, img)
  /\ pc' = After(pc)
  /\ block' = IF pc = "erase" THEN block
              ELSE [block EXCEPT ![at] = Written(@, pc, img, NumSectors)]
  /\ UNCHANGED <<Lun, at, ParseSecondaryGpt, img, reply, named>>

\* One of WriteGpt's writes.
WriteStep ==
  /\ pc \in Writes /\ Fits(pc, img)
  /\ pc' = After(pc)
  /\ block' = [block EXCEPT ![at] = Written(@, pc, img, NumSectors)]
  /\ UNCHANGED <<Lun, at, ParseSecondaryGpt, img, reply, named>>

\* One that the unit has no room for.
WriteRefused ==
  /\ pc \in Writes /\ ~Fits(pc, img)
  /\ Fails
  /\ UNCHANGED <<block, Lun, ParseSecondaryGpt, img, named>>

\* One that fails half way.
WriteFails ==
  /\ pc \in Writes /\ IoMayFail
  /\ \E cut \in Cuts :
       block' = [block EXCEPT ![at] = Written(@, pc, img, cut)]
  /\ Fails
  /\ UNCHANGED <<Lun, ParseSecondaryGpt, img, named>>

\* ReenumeratePartTable, and the answer.
Reenumerate ==
  /\ pc = "reenumerate"
  /\ pc' = "idle"
  /\ reply' \in IF IoMayFail THEN {"OKAY", "FAIL"} ELSE {"OKAY"}
  /\ UNCHANGED <<block, Lun, at, ParseSecondaryGpt, img, named>>

\* A power cut, in the middle of a write or between two; the loader starts
\* again with its static variables reset.
PowerCut ==
  /\ IF pc \in Writes
     THEN \E cut \in Cuts :
            block' = [block EXCEPT ![at] = Written(@, pc, img, cut)]
     ELSE UNCHANGED block
  /\ pc' = "idle" /\ Lun' = NO_LUN /\ at' = NoUnit
  /\ ParseSecondaryGpt' = FALSE
  /\ reply' = "none" /\ named' = {} /\ UNCHANGED img

Next ==
  \/ \E n \in Names : FlashBadLun(n)
  \/ \E n \in Names : FlashOther(n)
  \/ \E i \in Images, n \in Names : FlashPartition(i, n)
  \/ WriteStep
  \/ WriteRefused
  \/ WriteFails
  \/ Reenumerate
  \/ PowerCut

Spec == Init /\ [][Next]_vars

-----------------------------------------------------------------------------
(***************************************************************************)
(* Properties                                                              *)
(***************************************************************************)
\* The type invariant of the flashing of partition tables: a number in Lun
\* fits an INT32, and what is written is a unit the device has.
TypeOK ==
  /\ block \in [Units -> [Blocks ->
       {Erased} \union {Part(w, i) : w \in Writes, i \in Tables}]]
  /\ pc \in Writes \union {"idle", "reenumerate"}
  /\ pc \in Writes => at \in Units
  /\ Lun \in -(INT32_MAX + 1)..INT32_MAX
  /\ at \in Units \union {NoUnit}
  /\ ParseSecondaryGpt \in BOOLEAN
  /\ img \in Tables
  /\ reply \in {"none", "OKAY", "FAIL"} /\ named \subseteq Names

\* At no moment, whichever writes fail and wherever the power is cut, are the
\* primary and the backup copy on a unit both whole and of different tables:
\* which table the device comes up with never depends on the copy that is
\* read.
CopiesAgree ==
  \A u \in Units, i, j \in Tables :
    PrimaryWhole(block[u], i) /\ BackupWhole(block[u], j) => i = j

\* An OKAY for a table that went to a unit means that all of it was written
\* on the unit and that a copy is damaged only where the image itself asks
\* for it, by naming a place for the primary entries that is another part's:
\* no other write overlaps an earlier one, none is skipped, and the host is
\* never told so after a write that failed.
OkayMeansWritten ==
  reply = "OKAY" /\ pc = "idle" /\ at \in Units =>
    /\ Fits("entries", img)
    /\ \A b \in BackupEntries : LastUsable < b
    /\ PrimaryEntries(img) \intersect (BackupEntries \union {1}) = {} =>
         PrimaryWhole(block[at], img)
    /\ BackupHeader \notin PrimaryEntries(img) => BackupWhole(block[at], img)

\* On UFS a unit is written only if a number the host gave since the loader
\* was started is that unit's, counted as an INT32, or one that is outside
\* LunGuids: the number outlives the command that gave it, and no command
\* writes a unit without one.
OnlyNamedLunsWritten ==
  [][\A u \in Units : RootDevice = "UFS" /\ block'[u] # block[u] =>
       \E n \in named : ToInt32(n) = u \/ ~Indexes(ToInt32(n))]_vars
=============================================================================
