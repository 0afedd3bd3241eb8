----------------------------- MODULE ImageFlash -----------------------------
(***************************************************************************)
(* The writers behind "fastboot flash" and "fastboot erase":               *)
(* HandleSparseImgFlash with its chunk handlers, HandleRawImgFlash,        *)
(* HandleMetaImgFlash and FastbootErasePartition of                        *)
(* FastbootLib/FastbootCmds.c, and WriteBlockToPartition of                *)
(* BootLib/LinuxLoaderLib.c, write by write.                               *)
(*                                                                         *)
(* Sizes are in words. The sparse file header, a chunk header and the      *)
(* value of a fill chunk are one word each. What a word of the download    *)
(* buffer holds is its position in the buffer, so that the contents of a   *)
(* partition say where in the image they came from. 32 bit fields and      *)
(* counters wrap around at Wrap, 64 bit ones at Wrap * Wrap.               *)
(***************************************************************************)
EXTENDS Integers, Sequences

CONSTANTS
  Wrap,           \* the number of values of a UINT32
  BlockSize,      \* Media->BlockSize
  PartSize,       \* size of every partition
  Parts,          \* the partitions of the table
  Critical,       \* those whose names CriticalPartitions has a prefix of
  Names,          \* the names a command or a meta image may give
  MAX_IMAGES_IN_METAIMG,
  Commands,       \* the flash and erase commands of the host
  IoMayFail       \* may a read, a write or an allocation fail?

MAX_UINT32 == Wrap - 1
Old == -1         \* a word as it was before any command
Blank == -2       \* an erased word

ASSUME WidthAssumption == Wrap \in Nat \ {0, 1}
ASSUME SizeAssumption ==
  /\ BlockSize \in Nat \ {0} /\ PartSize \in 1..(Wrap * Wrap - 1)
  /\ PartSize % BlockSize = 0
ASSUME NamesAssumption ==
  Critical \subseteq Parts /\ Parts \subseteq Names
ASSUME FaultAssumption ==
  IoMayFail \in BOOLEAN /\ MAX_IMAGES_IN_METAIMG \in Nat

-----------------------------------------------------------------------------
(***************************************************************************)
(* Images                                                                  *)
(***************************************************************************)
\* A word of a sparse image: a chunk header, or data (which, taken for a
\* header, has an unknown type).
Cell == [type : {"RAW", "FILL", "DONT_CARE", "CRC", "data"},
         chunk_sz : 0..MAX_UINT32, total_sz : 0..MAX_UINT32]
Data == [type |-> "data", chunk_sz |-> 0, total_sz |-> 0]

SparseImage ==
  [fmt : {"sparse"}, part : Names, sz : Nat, blk_sz : 0..MAX_UINT32,
   total_blks : 0..MAX_UINT32, total_chunks : 0..MAX_UINT32,
   file_hdr : BOOLEAN,       \* file_hdr_sz is sizeof (sparse_header_t)
   chunk_hdr : BOOLEAN,      \* chunk_hdr_sz is sizeof (chunk_header_t)
   cells : Seq(Cell),        \* the buffer after the file header, which is
                            \* no shorter than the download
   plan : Seq([type : {"RAW", "FILL", "DONT_CARE"}, n : 1..MAX_UINT32])]
                             \* what a well-formed image encodes, or <<>>
RawImage == [fmt : {"raw"}, part : Names, sz : 0..MAX_UINT32]
MetaImage ==
  [fmt : {"meta"}, part : Names, sz : 0..MAX_UINT32,
   entries : Seq([name : Names, terminated : BOOLEAN,
                  start : 0..MAX_UINT32, size : 0..MAX_UINT32])]
Erase == [fmt : {"erase"}, part : Names]

ASSUME CommandsAssumption ==
  \A c \in Commands : \/ c \in SparseImage /\ c.sz <= 1 + Len(c.cells)
                      \/ c \in RawImage
                      \/ c \in MetaImage \/ c \in Erase

VARIABLES
  disk,          \* per partition, its words
  pc,            \* "ready", "chunk", "fill", "meta" or "done"
  cmd,           \* the command
  Image,         \* position of the next word to read
  Chunk,         \* chunks, or entries of a meta image, already handled
  TotalBlocks,   \* sparse blocks written or skipped
  Temp,          \* blocks of a fill chunk already written
  reply,
  unlockCritical,  \* DevInfo.is_unlock_critical
  readTo,        \* history: end of the part of the buffer that was read
  writtenTo,     \* history: end of the words a write was asked for
  fault          \* history: a read, write or allocation failed

vars == <<disk, pc, cmd, Image, Chunk, TotalBlocks, Temp, reply,
          unlockCritical, readTo, writtenTo, fault>>
counters == <<Image, Chunk, TotalBlocks, Temp>>

Larger(x, y) == IF x >= y THEN x ELSE y

-----------------------------------------------------------------------------
(***************************************************************************)
(* WriteBlockToPartition: whole blocks, then the last one, read first so   *)
(* that its other words are kept.                                          *)
(***************************************************************************)
\* d with n words of the buffer from position src (or n times the word at
\* src) put at word start.
Put(d, start, n, src, fill) ==
  [w \in DOMAIN d |-> IF w \in start..(start + n - 1)
                      THEN IF fill THEN src ELSE src + (w - start)
                      ELSE d[w]]

\* Mutant of LastBlock: the block is written without having been read.
LastBlock_Unread(d, start, n, src, fill) ==
  [w \in DOMAIN d |-> IF w \in (start + n)..(start + BlockSize - 1) THEN Blank
                      ELSE Put(d, start, n, src, fill)[w]]

LastBlock(d, start, n, src, fill) == Put(d, start, n, src, fill)

WriteBlockToPartition(d, Offset, Size, src, fill) ==
  LET start == Offset * BlockSize
      DivMsgBufSize == ((Size \div BlockSize) * BlockSize) % Wrap
      whole == Put(d, start, DivMsgBufSize, src, fill)
      rest == Size - DivMsgBufSize
      stored == IF rest = 0 THEN whole
                ELSE LastBlock(whole, start + DivMsgBufSize, rest,
                               IF fill THEN src ELSE src + DivMsgBufSize, fill)
  IN {[ok |-> TRUE, words |-> stored]} \union
     IF IoMayFail /\ Size > 0
     THEN {[ok |-> FALSE, words |-> Put(d, start, k * BlockSize, src, fill)] :
             k \in 0..(DivMsgBufSize \div BlockSize)}
     ELSE {}

Init ==
  /\ disk = [p \in Parts |-> [w \in 0..(PartSize - 1) |-> Old]]
  /\ pc = "ready" /\ cmd \in Commands
  /\ Image = 0 /\ Chunk = 0 /\ TotalBlocks = 0 /\ Temp = 0
  /\ reply = "none" /\ unlockCritical \in BOOLEAN
  /\ readTo = 0 /\ writtenTo = 0 /\ fault = FALSE

\* The end of CmdFlash: the answer of the command.
Answer(r) == pc' = "done" /\ reply' = r

\* A write of Size words of the buffer from src to block Offset of part p;
\* Then is what follows a write that worked.
Write(p, Offset, Size, src, fill, Then) ==
  \E r \in WriteBlockToPartition(disk[p], Offset, Size, src, fill) :
    /\ disk' = [disk EXCEPT ![p] = r.words]
    /\ fault' = (fault \/ ~r.ok)
    /\ IF r.ok THEN Then ELSE Answer("FAIL") /\ UNCHANGED counters

-----------------------------------------------------------------------------
(***************************************************************************)
(* Sparse images                                                           *)
(***************************************************************************)
\* Mutant of FitsPartition: an image as large as the partition is refused.
FitsPartition_Strict(c) == c.total_blks * c.blk_sz < PartSize

FitsPartition(c) == c.total_blks * c.blk_sz <= PartSize

SparseHeaderAccepted(c) ==
  /\ c.part \in Parts
  /\ c.sz >= 1 /\ FitsPartition(c) /\ c.file_hdr
  /\ c.blk_sz # 0 /\ c.blk_sz % BlockSize = 0

FlashSparse ==
  /\ pc = "ready" /\ cmd.fmt = "sparse"
  /\ \/ SparseHeaderAccepted(cmd) /\ pc' = "chunk" /\ UNCHANGED reply
     \/ ~SparseHeaderAccepted(cmd) /\ Answer("FAIL")
  /\ Image' = 1 /\ readTo' = IF cmd.sz >= 1 THEN 1 ELSE 0
  /\ UNCHANGED <<disk, cmd, Chunk, TotalBlocks, Temp, unlockCritical,
                 writtenTo, fault>>

BlockCountFactor == cmd.blk_sz \div BlockSize
ChunkHeader == cmd.cells[Image]
ChunkDataSz == cmd.blk_sz * ChunkHeader.chunk_sz

\* The next chunk header ends inside the image.
HeaderInImage == Image + 1 <= cmd.sz

\* The checks before the chunk is looked at.
ChunkReadable ==
  /\ TotalBlocks * cmd.blk_sz < PartSize
  /\ HeaderInImage /\ cmd.chunk_hdr

\* Mutant of ChunkFits: blocks written so far are not counted.
ChunkFits_Alone == ChunkDataSz <= PartSize

\* The sum has 64 bits, and can wrap around on a large partition.
ChunkFits == (TotalBlocks * cmd.blk_sz + ChunkDataSz) % (Wrap * Wrap) <= PartSize

\* The checks of each kind of chunk that come before it has any effect.
ChunkAccepted ==
  /\ ChunkFits
  /\ CASE ChunkHeader.type = "RAW" ->
            /\ ChunkHeader.total_sz = 1 + ChunkDataSz
            /\ Image + 1 + ChunkDataSz <= cmd.sz
       [] ChunkHeader.type = "FILL" ->
            ChunkHeader.total_sz = 2 /\ Image + 2 <= cmd.sz
       [] ChunkHeader.type = "DONT_CARE" ->
            TotalBlocks <= MAX_UINT32 - ChunkHeader.chunk_sz
       [] ChunkHeader.type = "CRC" ->
            /\ ChunkHeader.total_sz = 1
            /\ TotalBlocks <= MAX_UINT32 - ChunkHeader.chunk_sz
            /\ Image + 1 + (ChunkDataSz % Wrap) <= cmd.sz
       [] OTHER -> FALSE

MoreChunks == pc = "chunk" /\ Chunk < cmd.total_chunks

ChunkRefused ==
  /\ MoreChunks /\ ~(ChunkReadable /\ ChunkAccepted)
  /\ readTo' = IF ChunkReadable THEN Larger(readTo, Image + 1) ELSE readTo
  /\ Answer("FAIL")
  /\ UNCHANGED <<disk, cmd, counters, unlockCritical, writtenTo, fault>>

NextChunk == pc' = "chunk" /\ Chunk' = Chunk + 1 /\ UNCHANGED <<Temp, reply>>

\* HandleChunkTypeRaw; the block counter is checked after the write.
ChunkRaw ==
  /\ MoreChunks /\ ChunkReadable /\ ChunkAccepted
  /\ ChunkHeader.type = "RAW"
  /\ Write(cmd.part, TotalBlocks * BlockCountFactor, ChunkDataSz, Image + 1,
           FALSE,
           IF TotalBlocks > MAX_UINT32 - ChunkHeader.chunk_sz
           THEN Answer("FAIL") /\ UNCHANGED counters
           ELSE /\ TotalBlocks' = TotalBlocks + ChunkHeader.chunk_sz
                /\ Image' = Image + 1 + ChunkDataSz
                /\ NextChunk)
  /\ readTo' = Larger(readTo, Image + 1 + ChunkDataSz)
  /\ writtenTo' = Larger(writtenTo, TotalBlocks * BlockCountFactor * BlockSize
                                    + ChunkDataSz)
  /\ UNCHANGED <<cmd, unlockCritical>>

\* HandleChunkTypeFill up to its loop; the buffer of one block may not be had.
ChunkFill ==
  /\ MoreChunks /\ ChunkReadable /\ ChunkAccepted
  /\ ChunkHeader.type = "FILL"
  /\ \/ /\ pc' = "fill" /\ Temp' = 0 /\ Image' = Image + 2
        /\ UNCHANGED <<reply, Chunk, TotalBlocks, fault>>
     \/ /\ IoMayFail /\ fault' = TRUE
        /\ Answer("FAIL") /\ UNCHANGED counters
  /\ readTo' = Larger(readTo, Image + 2)
  /\ UNCHANGED <<disk, cmd, unlockCritical, writtenTo>>

\* Mutant of BlockAfter: the counter has more than 32 bits.
BlockAfter_Wide(n) == n + 1

\* TotalBlocks++ of HandleChunkTypeFill, which no check precedes.
BlockAfter(n) == (n + 1) % Wrap

\* The chunk whose blocks are being filled: its header is two words back.
FillHeader == cmd.cells[Image - 2]

FillBlock ==
  /\ pc = "fill" /\ Temp < FillHeader.chunk_sz
  /\ IF TotalBlocks * cmd.blk_sz + cmd.blk_sz > PartSize
     THEN Answer("FAIL") /\ UNCHANGED <<disk, fault, counters, writtenTo>>
     ELSE /\ Write(cmd.part, TotalBlocks * BlockCountFactor, cmd.blk_sz,
                   Image - 1, TRUE,
                   /\ TotalBlocks' = BlockAfter(TotalBlocks) /\ Temp' = Temp + 1
                   /\ UNCHANGED <<pc, reply, Image, Chunk>>)
          /\ writtenTo' = Larger(writtenTo,
                TotalBlocks * BlockCountFactor * BlockSize + cmd.blk_sz)
  /\ UNCHANGED <<cmd, unlockCritical, readTo>>

FillDone ==
  /\ pc = "fill" /\ Temp = FillHeader.chunk_sz
  /\ NextChunk
  /\ UNCHANGED <<disk, cmd, Image, TotalBlocks, unlockCritical, readTo,
                 writtenTo, fault>>

\* DONT_CARE moves over blocks and never over data; CRC over both.
ChunkSkipped ==
  /\ MoreChunks /\ ChunkReadable /\ ChunkAccepted
  /\ ChunkHeader.type \in {"DONT_CARE", "CRC"}
  /\ TotalBlocks' = TotalBlocks + ChunkHeader.chunk_sz
  /\ Image' = IF ChunkHeader.type = "CRC" THEN Image + 1 + (ChunkDataSz % Wrap)
              ELSE Image + 1
  /\ NextChunk
  /\ readTo' = Larger(readTo, Image + 1)
  /\ UNCHANGED <<disk, cmd, unlockCritical, writtenTo, fault>>

SparseDone ==
  /\ pc = "chunk" /\ Chunk >= cmd.total_chunks
  /\ Answer(IF TotalBlocks = cmd.total_blks THEN "OKAY" ELSE "FAIL")
  /\ UNCHANGED <<disk, cmd, counters, unlockCritical, readTo, writtenTo, fault>>

-----------------------------------------------------------------------------
(***************************************************************************)
(* Raw images, meta images and erasing                                     *)
(***************************************************************************)
\* HandleRawImgFlash for size words of the buffer from src; name is the name
\* after GetPartitionHasSlot has given it a suffix.
RawImgFlash(name, src, size, Then) ==
  IF name \in Parts /\ size <= PartSize
  THEN /\ Write(name, 0, size, src, FALSE, Then)
       /\ writtenTo' = Larger(writtenTo, size)
       /\ readTo' = Larger(readTo, src + size)
  ELSE Answer("FAIL")
       /\ UNCHANGED <<disk, fault, counters, readTo, writtenTo>>

FlashRaw ==
  /\ pc = "ready" /\ cmd.fmt = "raw"
  /\ RawImgFlash(cmd.part, 0, cmd.sz, Answer("OKAY") /\ UNCHANGED counters)
  /\ UNCHANGED <<cmd, unlockCritical>>

\* The meta header is one word, and so is an entry of the list after it.
FlashMeta ==
  /\ pc = "ready" /\ cmd.fmt = "meta"
  /\ IF /\ cmd.sz >= 1
        /\ Len(cmd.entries) <= MAX_IMAGES_IN_METAIMG
        /\ cmd.sz > 1 + Len(cmd.entries)
     THEN pc' = "meta" /\ readTo' = 1 + Len(cmd.entries) /\ UNCHANGED reply
     ELSE Answer("FAIL") /\ readTo' = IF cmd.sz >= 1 THEN 1 ELSE 0
  /\ UNCHANGED <<disk, cmd, counters, unlockCritical, writtenTo, fault>>

Entry == cmd.entries[Chunk + 1]

\* The list ends before an empty entry; UpdateDevInfo then has the last word.
MetaEnds ==
  Chunk < Len(cmd.entries) => Entry.start = 0 \/ Entry.size = 0

\* Mutant of EntryAllowed: any partition may be in a meta image.
EntryAllowed_Any == TRUE

EntryAllowed == unlockCritical \/ Entry.name \notin Critical

MetaEntry ==
  /\ pc = "meta" /\ ~MetaEnds
  /\ IF /\ Entry.start + Entry.size <= cmd.sz
        /\ Entry.terminated /\ EntryAllowed
     THEN RawImgFlash(Entry.name, Entry.start, Entry.size,
                      Chunk' = Chunk + 1 /\
                      UNCHANGED <<pc, reply, Image, TotalBlocks, Temp>>)
     ELSE Answer("FAIL")
          /\ UNCHANGED <<disk, counters, readTo, writtenTo, fault>>
  /\ UNCHANGED <<cmd, unlockCritical>>

MetaDone ==
  /\ pc = "meta" /\ MetaEnds
  /\ Answer("OKAY")
  /\ UNCHANGED <<disk, cmd, counters, unlockCritical, readTo, writtenTo, fault>>

\* FastbootErasePartition; an erasure that fails may have begun.
ErasePartition ==
  /\ pc = "ready" /\ cmd.fmt = "erase"
  /\ \/ /\ cmd.part \in Parts
        /\ disk' = [disk EXCEPT ![cmd.part] = [w \in DOMAIN @ |-> Blank]]
        /\ Answer("OKAY") /\ UNCHANGED fault
     \/ /\ cmd.part \in Parts /\ IoMayFail /\ fault' = TRUE
        /\ \E k \in 0..(PartSize \div BlockSize) :
             disk' = [disk EXCEPT ![cmd.part] = [w \in DOMAIN @ |->
                        IF w < k * BlockSize THEN Blank ELSE @[w]]]
        /\ Answer("FAIL")
     \/ /\ cmd.part \notin Parts
        /\ Answer("FAIL") /\ UNCHANGED <<disk, fault>>
  /\ UNCHANGED <<cmd, counters, unlockCritical, readTo, writtenTo>>

Next ==
  \/ FlashSparse \/ ChunkRefused \/ ChunkRaw \/ ChunkFill \/ FillBlock
  \/ FillDone \/ ChunkSkipped \/ SparseDone
  \/ FlashRaw \/ FlashMeta \/ MetaEntry \/ MetaDone \/ ErasePartition

Spec == Init /\ [][Next]_vars

-----------------------------------------------------------------------------
(***************************************************************************)
(* What the commands should leave behind                                   *)
(***************************************************************************)
\* The sums of the first members of a sequence of numbers.
Sums(s) ==
  LET sum[i \in 0..Len(s)] == IF i = 0 THEN 0 ELSE sum[i - 1] + s[i] IN sum

\* The words a chunk of a plan takes in the image, by the format's comment.
PlanWords(c, e) ==
  CASE e.type = "RAW" -> 1 + e.n * c.blk_sz
    [] e.type = "FILL" -> 2
    [] e.type = "DONT_CARE" -> 1

\* The blocks of the partition, and the words of the image, that the first
\* chunks of a plan stand for; where chunk i begins on either.
BlocksTo(c) == Sums([i \in DOMAIN c.plan |-> c.plan[i].n])
WordsTo(c) == Sums([i \in DOMAIN c.plan |-> PlanWords(c, c.plan[i])])
First(c, i) == BlocksTo(c)[i - 1]
Header(c, i) == 1 + WordsTo(c)[i - 1]

\* Word w of a partition after a well-formed image has been expanded on it.
Expanded(c, w, old) ==
  LET b == w \div c.blk_sz
      covers(i) == First(c, i) <= b /\ b < First(c, i) + c.plan[i].n
  IN IF ~\E i \in DOMAIN c.plan : covers(i) THEN old
     ELSE LET i == CHOOSE j \in DOMAIN c.plan : covers(j)
          IN CASE c.plan[i].type = "RAW" ->
                    Header(c, i) + 1 + (w - First(c, i) * c.blk_sz)
               [] c.plan[i].type = "FILL" -> Header(c, i) + 1
               [] c.plan[i].type = "DONT_CARE" -> old

\* The entries of a meta image before its first empty one.
MetaList(c) ==
  {i \in DOMAIN c.entries :
     \A j \in 1..i : c.entries[j].start # 0 /\ c.entries[j].size # 0}

\* Word w of partition p when the command has done all it says.
Stored(c, p, w) ==
  CASE c.fmt = "sparse" -> IF p = c.part THEN Expanded(c, w, Old) ELSE Old
    [] c.fmt = "raw" -> IF p = c.part /\ w < c.sz THEN w ELSE Old
    [] c.fmt = "meta" ->
         LET here == {i \in MetaList(c) : c.entries[i].name = p
                                          /\ w < c.entries[i].size}
         IN IF here = {} THEN Old
            ELSE LET i == CHOOSE j \in here : \A k \in here : k <= j
                 IN c.entries[i].start + w
    [] c.fmt = "erase" -> IF p = c.part THEN Blank ELSE Old

\* The image encodes its plan: headers of the sizes of the format, blocks
\* that are blocks of the device, and the chunks one behind the other.
Encodes(c) ==
  /\ c.file_hdr /\ c.chunk_hdr /\ c.blk_sz # 0 /\ c.blk_sz % BlockSize = 0
  /\ c.total_chunks = Len(c.plan) /\ c.total_blks = BlocksTo(c)[Len(c.plan)]
  /\ c.sz = Header(c, Len(c.plan) + 1)
  /\ \A i \in DOMAIN c.plan :
       c.cells[Header(c, i)] = [type |-> c.plan[i].type,
                                chunk_sz |-> c.plan[i].n,
                                total_sz |-> PlanWords(c, c.plan[i])]

\* A command whose image follows the format and fits.
WellFormed(c) ==
  CASE c.fmt = "sparse" -> /\ c.plan # <<>> /\ c.part \in Parts
                           /\ Encodes(c) /\ c.total_blks * c.blk_sz <= PartSize
    [] c.fmt = "raw" -> c.part \in Parts /\ c.sz <= PartSize
    [] c.fmt = "meta" -> c.entries # <<>>
    [] c.fmt = "erase" -> c.part \in Parts

(***************************************************************************)
(* Properties                                                              *)
(***************************************************************************)
\* The type invariant.
TypeOK ==
  /\ disk \in [Parts -> [0..(PartSize - 1) -> {Old, Blank} \union Nat]]
  /\ pc \in {"ready", "chunk", "fill", "meta", "done"}
  /\ Image \in Nat /\ Chunk \in 0..MAX_UINT32
  /\ TotalBlocks \in 0..MAX_UINT32 /\ Temp \in 0..MAX_UINT32
  /\ reply \in {"none", "OKAY", "FAIL"} /\ unlockCritical \in BOOLEAN
  /\ readTo \in Nat /\ writtenTo \in Nat /\ fault \in BOOLEAN

\* Whatever the fields of an image say, no handler reads a word of the
\* download buffer behind the end of the image, where an earlier download was
\* left, and no write is asked for behind the end of the partition, although
\* the counters have 32 bits and the places 64, and a raw chunk is written
\* before the block counter is checked.
AccessesInside ==
  /\ cmd.fmt # "erase" => readTo <= cmd.sz
  /\ writtenTo <= PartSize

\* At every moment of a command, also when a write failed half way, a word
\* of any partition is what it was or what the whole image would make it:
\* nothing is shifted, and nothing outside the image is touched, the rest of
\* its last block included. OKAY means that all of the image is there.
OkayMeansStored ==
  WellFormed(cmd) =>
    \A p \in Parts : \A w \in 0..(PartSize - 1) :
      /\ \/ disk[p][w] \in {Old, Stored(cmd, p, w)}
         \/ cmd.fmt = "meta"
            /\ \E i \in MetaList(cmd) : /\ cmd.entries[i].name = p
                                        /\ w < cmd.entries[i].size
                                        /\ disk[p][w] = cmd.entries[i].start + w
      /\ reply = "OKAY" => disk[p][w] = Stored(cmd, p, w)

\* A well-formed image that fits is not refused, one that fills the
\* partition to its last block included.
GoodImageAccepted ==
  reply = "FAIL" /\ WellFormed(cmd) /\ cmd.fmt # "meta" => fault

\* A meta image changes no critical partition of a device whose critical
\* partitions are locked, whatever entries come before and after.
CriticalKept ==
  [][cmd.fmt = "meta" /\ ~unlockCritical =>
       \A p \in Critical : disk'[p] = disk[p]]_vars
=============================================================================
