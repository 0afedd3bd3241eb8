-------------------------- MODULE ImageFlashProofs --------------------------
(***************************************************************************)
(* Proofs about ImageFlash, for every list of commands, every width of the *)
(* counters, and every block and partition size: that no handler reads     *)
(* behind the download or writes behind the partition, that a meta image   *)
(* leaves locked critical partitions alone, and that an image that follows *)
(* its format is accepted and ends up on the partition word for word.      *)
(*                                                                         *)
(* The places have to be bounded although a 64 bit sum in ChunkFits can    *)
(* wrap around. What saves a RAW chunk is that total_sz, a field of 32     *)
(* bits, bounds its data, so that its sum cannot wrap (RawFits).           *)
(*                                                                         *)
(* What is stored is followed in StoredInv: between two steps the first    *)
(* TotalBlocks blocks of the image are on the partition and nothing else,  *)
(* and Image is where the next chunk of its plan begins. The places of the *)
(* chunks are sums over the plan (SumsGrow), so that the block a word is   *)
(* in says which chunk it comes from (ExpandedIn).                         *)
(***************************************************************************)
EXTENDS ImageFlash, FilteringProofs

\* The partitions are typed; a sparse image whose chunks are read has passed
\* the checks of its header, the next word to read is in the download, and a
\* chunk whose blocks are filled has its header and its value behind it.
ImageInv ==
  /\ TypeOK /\ cmd \in Commands /\ AccessesInside
  /\ pc \in {"chunk", "fill"} =>
       cmd.fmt = "sparse" /\ SparseHeaderAccepted(cmd) /\ Image \in 1..cmd.sz
  /\ pc = "fill" => Image >= 3 /\ Chunk < cmd.total_chunks
  /\ pc = "meta" => cmd.fmt = "meta" /\ Len(cmd.entries) < MAX_UINT32

Words == [0..(PartSize - 1) -> {Old, Blank} \union Nat]

-----------------------------------------------------------------------------
(***************************************************************************)
(* Commands                                                                *)
(***************************************************************************)
\* A command is of the type its format says.
LEMMA CommandType ==
  ASSUME NEW c \in Commands
  PROVE  /\ c.fmt = "sparse" => c \in SparseImage /\ c.sz <= 1 + Len(c.cells)
         /\ c.fmt = "raw" => c \in RawImage
         /\ c.fmt = "meta" => c \in MetaImage
         /\ c.fmt = "erase" => c \in Erase
BY CommandsAssumption DEF SparseImage, RawImage, MetaImage, Erase

\* The constants as numbers.
LEMMA Numbers ==
  /\ Wrap \in Nat /\ Wrap >= 2 /\ MAX_UINT32 \in Nat /\ MAX_UINT32 = Wrap - 1
  /\ BlockSize \in Nat /\ BlockSize >= 1 /\ PartSize \in Nat /\ PartSize >= 1
<1>1. Wrap \in Nat /\ Wrap >= 2
  BY WidthAssumption
<1>2. Wrap * Wrap - 1 \in Int
  BY <1>1
<1>3. QED
  BY <1>1, <1>2, SizeAssumption DEF MAX_UINT32

\* The fields of a sparse image whose header was accepted.
LEMMA SparseType ==
  ASSUME ImageInv, pc \in {"chunk", "fill"}
  PROVE  /\ cmd.part \in Parts /\ cmd.sz \in Nat /\ cmd.sz <= 1 + Len(cmd.cells)
         /\ cmd.blk_sz \in 0..MAX_UINT32 /\ cmd.blk_sz \in Nat /\ cmd.blk_sz # 0
         /\ cmd.blk_sz % BlockSize = 0
         /\ cmd.total_chunks \in 0..MAX_UINT32 /\ cmd.cells \in Seq(Cell)
         /\ Image \in Nat /\ 1 <= Image /\ Image <= cmd.sz
<1>1. cmd \in SparseImage /\ cmd.sz <= 1 + Len(cmd.cells)
  BY CommandType DEF ImageInv
<1>2. /\ cmd.sz \in Nat /\ cmd.blk_sz \in 0..MAX_UINT32
      /\ cmd.total_chunks \in 0..MAX_UINT32 /\ cmd.cells \in Seq(Cell)
  BY <1>1 DEF SparseImage
<1>3. /\ cmd.part \in Parts /\ cmd.blk_sz # 0 /\ cmd.blk_sz % BlockSize = 0
      /\ Image \in 1..cmd.sz
  BY DEF ImageInv, SparseHeaderAccepted
<1>4. QED
  BY <1>1, <1>2, <1>3, Numbers

\* A word of a sparse image at a position in it is a cell.
LEMMA CellType ==
  ASSUME ImageInv, pc \in {"chunk", "fill"}, NEW i \in Nat, 1 <= i, i < cmd.sz
  PROVE  /\ cmd.cells[i].chunk_sz \in 0..MAX_UINT32
         /\ cmd.cells[i].chunk_sz \in Nat
         /\ cmd.cells[i].total_sz \in 0..MAX_UINT32
<1>1. cmd.cells \in Seq(Cell) /\ i \in 1..Len(cmd.cells)
  BY SparseType
<1>2. cmd.cells[i] \in Cell
  BY <1>1
<1>3. QED
  BY <1>2, Numbers DEF Cell

-----------------------------------------------------------------------------
(***************************************************************************)
(* Arithmetic                                                              *)
(***************************************************************************)
LEMMA ProductType ==
  ASSUME NEW a \in Nat, NEW b \in Nat
  PROVE  a * b \in Nat
OBVIOUS

\* A product of two 32 bit numbers and one more of them fit in 64 bits.
LEMMA SumFits ==
  ASSUME NEW a \in 0..MAX_UINT32, NEW b \in 0..MAX_UINT32, NEW n \in Nat,
         n < MAX_UINT32
  PROVE  a * b + n \in Nat /\ a * b + n < Wrap * Wrap
<1> DEFINE M == MAX_UINT32
<1>1. M \in Nat /\ Wrap = M + 1 /\ a \in Nat /\ b \in Nat /\ a <= M /\ b <= M
  BY Numbers
<1> HIDE DEF M
<1>2. a * b <= M * b
  BY <1>1
<1>3. M * b <= M * M
  BY <1>1
<1>4. a * b \in Nat /\ M * b \in Nat /\ M * M \in Nat
  BY <1>1
<1>5. Wrap * Wrap = M * M + M + M + 1
  BY <1>1
<1>6. n < M
  BY DEF M
<1>7. QED
  BY <1>1, <1>2, <1>3, <1>4, <1>5, <1>6

\* A sparse block is a number of device blocks.
LEMMA BlockPlaces ==
  ASSUME NEW b \in Nat, b % BlockSize = 0, NEW n \in Nat
  PROVE  n * (b \div BlockSize) * BlockSize = n * b
<1>1. BlockSize \in Nat /\ BlockSize >= 1
  BY Numbers
<1> DEFINE q == b \div BlockSize
<1>2. q \in Nat /\ b = BlockSize * q + (b % BlockSize)
  BY <1>1
<1>3. b = q * BlockSize
  BY <1>1, <1>2
<1> HIDE DEF q
<1>4. (n * q) * BlockSize = n * (q * BlockSize)
  BY <1>1, <1>2
<1>5. QED
  BY <1>3, <1>4 DEF q
-----------------------------------------------------------------------------
(***************************************************************************)
(* Writes                                                                  *)
(***************************************************************************)
LEMMA PutType ==
  ASSUME NEW d \in Words, NEW start \in Int, NEW n \in Int, NEW src \in Nat,
         NEW fill \in BOOLEAN
  PROVE  Put(d, start, n, src, fill) \in Words
<1>1. DOMAIN d = 0..(PartSize - 1)
  BY DEF Words
<1>2. ASSUME NEW w \in 0..(PartSize - 1), w \in start..(start + n - 1)
      PROVE  src + (w - start) \in Nat
  BY <1>2, Numbers
<1>3. \A w \in 0..(PartSize - 1) : d[w] \in {Old, Blank} \union Nat
  BY DEF Words
<1>4. QED
  BY <1>1, <1>2, <1>3 DEF Put, Words

\* A write leaves words, whether it is done or fails half way.
LEMMA WriteType ==
  ASSUME NEW d \in Words, NEW Offset \in Nat, NEW Size \in Nat, NEW src \in Nat,
         NEW fill \in BOOLEAN,
         NEW r \in WriteBlockToPartition(d, Offset, Size, src, fill)
  PROVE  r.words \in Words /\ r.ok \in BOOLEAN
<1> DEFINE start == Offset * BlockSize
           Div == ((Size \div BlockSize) * BlockSize) % Wrap
           whole == Put(d, start, Div, src, fill)
           stored == IF Size - Div = 0 THEN whole
                     ELSE LastBlock(whole, start + Div, Size - Div,
                                    IF fill THEN src ELSE src + Div, fill)
<1>1. start \in Nat /\ Div \in Nat
  <2>1. Size \div BlockSize \in Nat
    BY Numbers
  <2>2. (Size \div BlockSize) * BlockSize \in Nat
    BY <2>1, Numbers, ProductType
  <2>3. QED
    BY <2>2, Numbers, ProductType
<1>2. \/ r = [ok |-> TRUE, words |-> stored]
      \/ \E k \in 0..(Div \div BlockSize) :
           r = [ok |-> FALSE, words |-> Put(d, start, k * BlockSize, src, fill)]
  BY DEF WriteBlockToPartition
<1> HIDE DEF start, Div
<1>3. whole \in Words
  BY <1>1, PutType
<1>4. stored \in Words
  <2>1. /\ start + Div \in Int /\ Size - Div \in Int
        /\ (IF fill THEN src ELSE src + Div) \in Nat
    BY <1>1
  <2> HIDE DEF whole
  <2>2. QED
    BY <1>3, <2>1, PutType DEF LastBlock
<1>5. ASSUME NEW k \in Int
      PROVE  Put(d, start, k * BlockSize, src, fill) \in Words
  <2>1. k * BlockSize \in Int
    BY Numbers
  <2>2. QED
    BY <1>1, <2>1, PutType
<1> HIDE DEF stored, whole
<1>6. CASE r = [ok |-> TRUE, words |-> stored]
  BY <1>4, <1>6
<1>7. CASE r # [ok |-> TRUE, words |-> stored]
  <2>1. PICK k \in 0..(Div \div BlockSize) :
          r = [ok |-> FALSE, words |-> Put(d, start, k * BlockSize, src, fill)]
    BY <1>2, <1>7
  <2>2. QED
    BY <1>5, <2>1
<1>8. QED
  BY <1>6, <1>7

\* What a write to part p does to the disk.
LEMMA DiskType ==
  ASSUME TypeOK, NEW p \in Parts, NEW Offset \in Nat, NEW Size \in Nat,
         NEW src \in Nat, NEW fill \in BOOLEAN,
         NEW r \in WriteBlockToPartition(disk[p], Offset, Size, src, fill),
         disk' = [disk EXCEPT ![p] = r.words], fault' = (fault \/ ~r.ok)
  PROVE  disk' \in [Parts -> Words] /\ fault' \in BOOLEAN
<1>1. disk \in [Parts -> Words] /\ disk[p] \in Words /\ fault \in BOOLEAN
  BY DEF TypeOK, Words
<1>2. r.words \in Words /\ r.ok \in BOOLEAN
  BY <1>1, WriteType
<1>3. disk' \in [Parts -> Words]
  BY <1>1, <1>2
<1>4. fault' \in BOOLEAN
  BY <1>1, <1>2
<1>5. QED
  BY <1>3, <1>4

\* The invariant after a step, part by part.
LEMMA InvNext ==
  ASSUME /\ cmd' = cmd /\ cmd \in Commands
         /\ disk' \in [Parts -> Words]
         /\ pc' \in {"ready", "chunk", "fill", "meta", "done"}
         /\ Image' \in Nat /\ Chunk' \in 0..MAX_UINT32
         /\ TotalBlocks' \in 0..MAX_UINT32 /\ Temp' \in 0..MAX_UINT32
         /\ reply' \in {"none", "OKAY", "FAIL"} /\ unlockCritical' \in BOOLEAN
         /\ fault' \in BOOLEAN,
         readTo' \in Nat, cmd.fmt # "erase" => readTo' <= cmd.sz,
         writtenTo' \in Nat, writtenTo' <= PartSize,
         pc' \in {"chunk", "fill"} =>
           cmd.fmt = "sparse" /\ SparseHeaderAccepted(cmd) /\ Image' \in 1..cmd.sz,
         pc' = "fill" => Image' >= 3 /\ Chunk' < cmd.total_chunks,
         pc' = "meta" => cmd.fmt = "meta" /\ Len(cmd.entries) < MAX_UINT32
  PROVE  ImageInv'
BY DEF ImageInv, TypeOK, AccessesInside, Words, SparseHeaderAccepted, FitsPartition

\* A step that writes nothing and goes no further in the image; above all an
\* answer.
LEMMA Answered ==
  ASSUME ImageInv, NEW r \in {"OKAY", "FAIL"}, Answer(r),
         UNCHANGED <<cmd, counters, unlockCritical>>,
         disk' \in [Parts -> Words], fault' \in BOOLEAN,
         readTo' \in Nat, cmd.fmt # "erase" => readTo' <= cmd.sz,
         writtenTo' \in Nat, writtenTo' <= PartSize
  PROVE  ImageInv'
<1>1. /\ pc' = "done" /\ reply' \in {"none", "OKAY", "FAIL"}
      /\ UNCHANGED <<cmd, Image, Chunk, TotalBlocks, Temp, unlockCritical>>
  BY DEF Answer, counters
<1>2. /\ Image \in Nat /\ Chunk \in 0..MAX_UINT32 /\ cmd \in Commands
      /\ TotalBlocks \in 0..MAX_UINT32 /\ Temp \in 0..MAX_UINT32
      /\ unlockCritical \in BOOLEAN
  BY DEF ImageInv, TypeOK
<1>3. QED
  BY <1>1, <1>2, InvNext

LEMMA LargerType ==
  ASSUME NEW a \in Nat, NEW b \in Nat, NEW c \in Nat, a <= c, b <= c
  PROVE  Larger(a, b) \in Nat /\ Larger(a, b) <= c
BY DEF Larger
-----------------------------------------------------------------------------
(***************************************************************************)
(* Sparse images                                                           *)
(***************************************************************************)
\* What TypeOK and AccessesInside say of the state a step starts in.
LEMMA Before ==
  ASSUME ImageInv
  PROVE  /\ disk \in [Parts -> Words] /\ Image \in Nat
         /\ Chunk \in 0..MAX_UINT32 /\ TotalBlocks \in 0..MAX_UINT32
         /\ TotalBlocks \in Nat /\ Temp \in 0..MAX_UINT32
         /\ reply \in {"none", "OKAY", "FAIL"} /\ unlockCritical \in BOOLEAN
         /\ readTo \in Nat /\ writtenTo \in Nat /\ writtenTo <= PartSize
         /\ fault \in BOOLEAN /\ cmd \in Commands
         /\ cmd.fmt # "erase" => readTo <= cmd.sz
BY Numbers DEF ImageInv, TypeOK, AccessesInside, Words

\* A chunk header that ends inside the image.
LEMMA HeaderType ==
  ASSUME ImageInv, MoreChunks, ChunkReadable
  PROVE  /\ Image + 1 <= cmd.sz /\ Image + 1 \in Nat
         /\ ChunkHeader.chunk_sz \in 0..MAX_UINT32 /\ ChunkHeader.chunk_sz \in Nat
         /\ ChunkHeader.total_sz \in 0..MAX_UINT32 /\ ChunkDataSz \in Nat
         /\ Chunk \in Nat /\ Chunk + 1 \in 0..MAX_UINT32
         /\ Chunk < cmd.total_chunks
<1>1. pc = "chunk" /\ Chunk < cmd.total_chunks
  BY DEF MoreChunks
<1>2. Image + 1 <= cmd.sz /\ Image \in Nat /\ 1 <= Image /\ cmd.sz \in Nat
  BY <1>1, SparseType DEF ChunkReadable, HeaderInImage
<1>3. /\ ChunkHeader.chunk_sz \in 0..MAX_UINT32 /\ ChunkHeader.chunk_sz \in Nat
      /\ ChunkHeader.total_sz \in 0..MAX_UINT32
  <2>1. Image < cmd.sz
    BY <1>2
  <2>2. QED
    BY <1>1, <1>2, <2>1, CellType DEF ChunkHeader
<1>4. ChunkDataSz \in Nat
  BY <1>1, <1>3, SparseType, ProductType DEF ChunkDataSz
<1>5. Chunk \in Nat /\ Chunk + 1 \in 0..MAX_UINT32
  BY <1>1, SparseType, Before, Numbers
<1>6. QED
  BY <1>1, <1>2, <1>3, <1>4, <1>5

\* The data of a RAW chunk that is accepted end inside the partition: its
\* size has 32 bits, so that the sum of ChunkFits did not wrap around.
LEMMA RawFits ==
  ASSUME ImageInv, MoreChunks, ChunkReadable, ChunkAccepted,
         ChunkHeader.type = "RAW"
  PROVE  /\ Image + 1 + ChunkDataSz <= cmd.sz
         /\ TotalBlocks * cmd.blk_sz + ChunkDataSz <= PartSize
<1>1. /\ ChunkHeader.total_sz = 1 + ChunkDataSz
      /\ Image + 1 + ChunkDataSz <= cmd.sz
      /\ (TotalBlocks * cmd.blk_sz + ChunkDataSz) % (Wrap * Wrap) <= PartSize
  BY DEF ChunkAccepted, ChunkFits
<1>2. ChunkDataSz \in Nat /\ ChunkDataSz < MAX_UINT32
  BY <1>1, HeaderType, Numbers
<1>3. cmd.blk_sz \in 0..MAX_UINT32 /\ TotalBlocks \in 0..MAX_UINT32
  BY SparseType, Before DEF MoreChunks
<1> DEFINE sum == TotalBlocks * cmd.blk_sz + ChunkDataSz
           N == Wrap * Wrap
<1>4. sum \in Nat /\ sum < N /\ N \in Nat
  BY <1>2, <1>3, SumFits, Numbers, ProductType
<1>5. sum % N <= PartSize
  BY <1>1
<1> HIDE DEF sum, N
<1>6. sum % N = sum
  BY <1>4
<1>7. sum <= PartSize
  BY <1>5, <1>6
<1>8. QED
  BY <1>1, <1>7 DEF sum

\* Places of blocks and words on the device.
LEMMA Places ==
  ASSUME ImageInv, pc \in {"chunk", "fill"}
  PROVE  /\ TotalBlocks * BlockCountFactor \in Nat
         /\ TotalBlocks * BlockCountFactor * BlockSize = TotalBlocks * cmd.blk_sz
         /\ TotalBlocks * cmd.blk_sz \in Nat
<1>1. /\ cmd.blk_sz \in Nat /\ cmd.blk_sz % BlockSize = 0 /\ TotalBlocks \in Nat
  BY SparseType, Before
<1>2. cmd.blk_sz \div BlockSize \in Nat
  BY <1>1, Numbers
<1>3. QED
  BY <1>1, <1>2, BlockPlaces, ProductType DEF BlockCountFactor

LEMMA FlashSparseInv ==
  ASSUME ImageInv, FlashSparse
  PROVE  ImageInv'
<1>1. cmd.fmt = "sparse" /\ cmd.sz \in Nat
  BY CommandType DEF FlashSparse, ImageInv, SparseImage
<1>2. /\ Image' = 1 /\ readTo' = (IF cmd.sz >= 1 THEN 1 ELSE 0)
      /\ UNCHANGED <<disk, cmd, Chunk, TotalBlocks, Temp, unlockCritical,
                     writtenTo, fault>>
  BY DEF FlashSparse
<1>3. \/ SparseHeaderAccepted(cmd) /\ pc' = "chunk" /\ reply' = reply
      \/ pc' = "done" /\ reply' = "FAIL"
  BY DEF FlashSparse, Answer
<1>4. readTo' \in Nat /\ readTo' <= cmd.sz
  BY <1>1, <1>2
<1>5. pc' = "chunk" => SparseHeaderAccepted(cmd) /\ Image' \in 1..cmd.sz
  BY <1>1, <1>2, <1>3 DEF SparseHeaderAccepted
<1>6. pc' \in {"chunk", "done"} /\ reply' \in {"none", "OKAY", "FAIL"}
  BY <1>3, Before
<1>7. Image' \in Nat
  BY <1>2
<1>8. QED
  BY <1>1, <1>2, <1>4, <1>5, <1>6, <1>7, Before, InvNext

LEMMA ChunkRefusedInv ==
  ASSUME ImageInv, ChunkRefused
  PROVE  ImageInv'
<1>1. /\ MoreChunks /\ Answer("FAIL")
      /\ UNCHANGED <<disk, cmd, counters, unlockCritical, writtenTo, fault>>
      /\ readTo' = IF ChunkReadable THEN Larger(readTo, Image + 1) ELSE readTo
  BY DEF ChunkRefused
<1>2. cmd.fmt = "sparse" /\ readTo <= cmd.sz /\ cmd.sz \in Nat /\ readTo \in Nat
  BY <1>1, SparseType, Before DEF MoreChunks, ImageInv
<1>3. readTo' \in Nat /\ readTo' <= cmd.sz
  <2>1. CASE ChunkReadable
    <3>1. Image + 1 \in Nat /\ Image + 1 <= cmd.sz
      BY <1>1, <2>1, HeaderType
    <3>2. QED
      BY <1>1, <1>2, <2>1, <3>1, LargerType
  <2>2. CASE ~ChunkReadable
    BY <1>1, <1>2, <2>2
  <2>3. QED
    BY <2>1, <2>2
<1>4. QED
  BY <1>1, <1>3, Before, Answered

LEMMA ChunkRawInv ==
  ASSUME ImageInv, ChunkRaw
  PROVE  ImageInv'
<1>1. /\ MoreChunks /\ ChunkReadable /\ ChunkAccepted
      /\ ChunkHeader.type = "RAW" /\ pc = "chunk" /\ UNCHANGED <<cmd, unlockCritical>>
      /\ readTo' = Larger(readTo, Image + 1 + ChunkDataSz)
      /\ writtenTo' = Larger(writtenTo, TotalBlocks * BlockCountFactor * BlockSize
                                        + ChunkDataSz)
  BY DEF ChunkRaw, MoreChunks
<1>2. PICK r \in WriteBlockToPartition(disk[cmd.part], TotalBlocks * BlockCountFactor,
                                       ChunkDataSz, Image + 1, FALSE) :
        /\ disk' = [disk EXCEPT ![cmd.part] = r.words]
        /\ fault' = (fault \/ ~r.ok)
        /\ \/ Answer("FAIL") /\ UNCHANGED counters
           \/ /\ TotalBlocks <= MAX_UINT32 - ChunkHeader.chunk_sz
              /\ TotalBlocks' = TotalBlocks + ChunkHeader.chunk_sz
              /\ Image' = Image + 1 + ChunkDataSz
              /\ NextChunk
  <2>1. MAX_UINT32 - ChunkHeader.chunk_sz \in Int /\ TotalBlocks \in Int
    BY <1>1, HeaderType, Before, Numbers
  <2>2. ~(TotalBlocks > MAX_UINT32 - ChunkHeader.chunk_sz) =>
          TotalBlocks <= MAX_UINT32 - ChunkHeader.chunk_sz
    BY <2>1
  <2>3. QED
    BY <2>2 DEF ChunkRaw, Write
<1>3. /\ cmd.part \in Parts /\ TotalBlocks * BlockCountFactor \in Nat
      /\ ChunkDataSz \in Nat /\ Image + 1 \in Nat /\ FALSE \in BOOLEAN /\ TypeOK
  BY <1>1, SparseType, Places, HeaderType DEF ImageInv
<1>4. disk' \in [Parts -> Words] /\ fault' \in BOOLEAN
  BY <1>2, <1>3, DiskType
<1>5. /\ cmd.fmt = "sparse" /\ SparseHeaderAccepted(cmd) /\ cmd.sz \in Nat
  BY <1>1, SparseType DEF ImageInv
<1>6. /\ Image + 1 + ChunkDataSz \in Nat /\ Image + 1 + ChunkDataSz <= cmd.sz
      /\ 1 <= Image + 1 + ChunkDataSz
  BY <1>1, <1>3, RawFits, Before
<1>7. readTo' \in Nat /\ readTo' <= cmd.sz
  BY <1>1, <1>5, <1>6, Before, LargerType
<1>8. writtenTo' \in Nat /\ writtenTo' <= PartSize
  <2>1. /\ TotalBlocks * BlockCountFactor * BlockSize = TotalBlocks * cmd.blk_sz
        /\ TotalBlocks * cmd.blk_sz \in Nat
        /\ TotalBlocks * cmd.blk_sz + ChunkDataSz <= PartSize
    BY <1>1, Places, RawFits
  <2>2. TotalBlocks * BlockCountFactor * BlockSize + ChunkDataSz \in Nat
    BY <1>3, <2>1
  <2>3. QED
    BY <1>1, <2>1, <2>2, Before, Numbers, LargerType
<1>9. CASE Answer("FAIL") /\ UNCHANGED counters
  BY <1>1, <1>4, <1>7, <1>8, <1>9, Answered
<1>10. CASE /\ TotalBlocks <= MAX_UINT32 - ChunkHeader.chunk_sz
            /\ TotalBlocks' = TotalBlocks + ChunkHeader.chunk_sz
            /\ Image' = Image + 1 + ChunkDataSz
            /\ NextChunk
  <2>1. TotalBlocks' \in 0..MAX_UINT32
    BY <1>1, <1>10, HeaderType, Before, Numbers
  <2>2. /\ pc' = "chunk" /\ Chunk' \in 0..MAX_UINT32 /\ UNCHANGED <<Temp, reply>>
    BY <1>1, <1>10, HeaderType DEF NextChunk
  <2>3. Image' \in Nat /\ Image' \in 1..cmd.sz
    BY <1>5, <1>6, <1>10
  <2>4. QED
    BY <1>1, <1>4, <1>5, <1>7, <1>8, <2>1, <2>2, <2>3, Before, InvNext
<1>11. QED
  BY <1>2, <1>9, <1>10
LEMMA ChunkFillInv ==
  ASSUME ImageInv, ChunkFill
  PROVE  ImageInv'
<1>1. /\ MoreChunks /\ ChunkReadable /\ pc = "chunk" /\ Image + 2 <= cmd.sz
      /\ readTo' = Larger(readTo, Image + 2)
      /\ UNCHANGED <<disk, cmd, unlockCritical, writtenTo>>
  BY DEF ChunkFill, MoreChunks, ChunkAccepted
<1>2. /\ cmd.fmt = "sparse" /\ SparseHeaderAccepted(cmd) /\ cmd.sz \in Nat
      /\ Image \in Nat /\ 1 <= Image /\ Chunk < cmd.total_chunks
  BY <1>1, SparseType DEF ImageInv, MoreChunks
<1>3. /\ readTo' \in Nat /\ readTo' <= cmd.sz
      /\ Image + 2 \in 1..cmd.sz /\ Image + 2 >= 3 /\ Image + 2 \in Nat
  BY <1>1, <1>2, Before, LargerType
<1>4. \/ /\ pc' = "fill" /\ Temp' = 0 /\ Image' = Image + 2
         /\ UNCHANGED <<reply, Chunk, TotalBlocks, fault>>
      \/ fault' = TRUE /\ Answer("FAIL") /\ UNCHANGED counters
  BY DEF ChunkFill
<1>5. CASE fault' = TRUE /\ Answer("FAIL") /\ UNCHANGED counters
  <2>1. fault' \in BOOLEAN /\ disk' \in [Parts -> Words]
    BY <1>1, <1>5, Before
  <2>2. QED
    BY <1>1, <1>3, <1>5, <2>1, Before, Answered
<1>6. CASE /\ pc' = "fill" /\ Temp' = 0 /\ Image' = Image + 2
           /\ UNCHANGED <<reply, Chunk, TotalBlocks, fault>>
  <2>1. Temp' \in 0..MAX_UINT32 /\ Chunk' < cmd.total_chunks
    BY <1>2, <1>6, Numbers
  <2>2. Image' >= 3 /\ Image' \in 1..cmd.sz /\ Image' \in Nat
    BY <1>3, <1>6
  <2>3. QED
    BY <1>1, <1>2, <1>3, <1>6, <2>1, <2>2, Before, InvNext
<1>7. QED
  BY <1>4, <1>5, <1>6

\* The header of the chunk whose blocks are filled, two words back.
LEMMA FillType ==
  ASSUME ImageInv, pc = "fill"
  PROVE  /\ FillHeader.chunk_sz \in 0..MAX_UINT32 /\ Image \in Nat /\ Image >= 3
         /\ Image - 1 \in Nat /\ Chunk < cmd.total_chunks
         /\ Chunk \in Nat /\ Chunk + 1 \in 0..MAX_UINT32
<1>1. /\ Image \in Nat /\ Image >= 3 /\ Image <= cmd.sz /\ cmd.sz \in Nat
      /\ Chunk < cmd.total_chunks
  BY SparseType DEF ImageInv
<1>2. Image - 2 \in Nat /\ 1 <= Image - 2 /\ Image - 2 < cmd.sz
  BY <1>1
<1>3. FillHeader.chunk_sz \in 0..MAX_UINT32
  BY <1>2, CellType DEF FillHeader
<1>4. Chunk \in Nat /\ Chunk + 1 \in 0..MAX_UINT32
  BY <1>1, SparseType, Before, Numbers
<1>5. QED
  BY <1>1, <1>3, <1>4

LEMMA FillBlockInv ==
  ASSUME ImageInv, FillBlock
  PROVE  ImageInv'
<1>1. /\ pc = "fill" /\ Temp < FillHeader.chunk_sz
      /\ UNCHANGED <<cmd, unlockCritical, readTo>>
  BY DEF FillBlock
<1>2. /\ cmd.fmt = "sparse" /\ SparseHeaderAccepted(cmd) /\ cmd.part \in Parts
      /\ readTo' \in Nat /\ readTo' <= cmd.sz /\ cmd.blk_sz \in Nat
  BY <1>1, SparseType, Before DEF ImageInv
<1>3. CASE TotalBlocks * cmd.blk_sz + cmd.blk_sz > PartSize
  <2>1. Answer("FAIL") /\ UNCHANGED <<disk, fault, counters, writtenTo>>
    BY <1>3 DEF FillBlock
  <2>2. QED
    BY <1>1, <1>2, <2>1, Before, Answered
<1>4. CASE ~(TotalBlocks * cmd.blk_sz + cmd.blk_sz > PartSize)
  <2>1. PICK r \in WriteBlockToPartition(disk[cmd.part],
                     TotalBlocks * BlockCountFactor, cmd.blk_sz, Image - 1, TRUE) :
          /\ disk' = [disk EXCEPT ![cmd.part] = r.words]
          /\ fault' = (fault \/ ~r.ok)
          /\ \/ Answer("FAIL") /\ UNCHANGED counters
             \/ /\ TotalBlocks' = BlockAfter(TotalBlocks) /\ Temp' = Temp + 1
                /\ UNCHANGED <<pc, reply, Image, Chunk>>
    BY <1>4 DEF FillBlock, Write
  <2>2. writtenTo' = Larger(writtenTo,
                TotalBlocks * BlockCountFactor * BlockSize + cmd.blk_sz)
    BY <1>4 DEF FillBlock
  <2>3. /\ TotalBlocks * BlockCountFactor \in Nat /\ Image - 1 \in Nat
        /\ TRUE \in BOOLEAN /\ TypeOK
    BY <1>1, Places, FillType DEF ImageInv
  <2>4. disk' \in [Parts -> Words] /\ fault' \in BOOLEAN
    BY <1>2, <2>1, <2>3, DiskType
  <2>5. writtenTo' \in Nat /\ writtenTo' <= PartSize
    <3>1. /\ TotalBlocks * BlockCountFactor * BlockSize = TotalBlocks * cmd.blk_sz
          /\ TotalBlocks * cmd.blk_sz \in Nat
      BY <1>1, Places
    <3>2. /\ TotalBlocks * BlockCountFactor * BlockSize + cmd.blk_sz \in Nat
          /\ TotalBlocks * BlockCountFactor * BlockSize + cmd.blk_sz <= PartSize
      BY <1>2, <1>4, <3>1, Numbers
    <3>3. QED
      BY <2>2, <3>2, Before, Numbers, LargerType
  <2>6. CASE Answer("FAIL") /\ UNCHANGED counters
    BY <1>1, <1>2, <2>4, <2>5, <2>6, Before, Answered
  <2>7. CASE /\ TotalBlocks' = BlockAfter(TotalBlocks) /\ Temp' = Temp + 1
             /\ UNCHANGED <<pc, reply, Image, Chunk>>
    <3>1. TotalBlocks' \in 0..MAX_UINT32
      BY <2>7, Before, Numbers DEF BlockAfter
    <3>2. Temp' \in 0..MAX_UINT32
      BY <1>1, <2>7, FillType, Before, Numbers
    <3>3. pc' = "fill" /\ Image' \in Nat /\ Image' \in 1..cmd.sz /\ Image' >= 3
          /\ Chunk' < cmd.total_chunks /\ Chunk' \in 0..MAX_UINT32
      BY <1>1, <2>7, FillType, Before DEF ImageInv
    <3>4. reply' \in {"none", "OKAY", "FAIL"} /\ unlockCritical' \in BOOLEAN
      BY <1>1, <2>7, Before
    <3>5. QED
      BY <1>1, <1>2, <2>4, <2>5, <3>1, <3>2, <3>3, <3>4, Before, InvNext
  <2>8. QED
    BY <2>1, <2>6, <2>7
<1>5. QED
  BY <1>3, <1>4

LEMMA FillDoneInv ==
  ASSUME ImageInv, FillDone
  PROVE  ImageInv'
<1>1. /\ pc = "fill" /\ NextChunk
      /\ UNCHANGED <<disk, cmd, Image, TotalBlocks, unlockCritical, readTo,
                     writtenTo, fault>>
  BY DEF FillDone
<1>2. /\ pc' = "chunk" /\ Chunk' \in 0..MAX_UINT32 /\ UNCHANGED <<Temp, reply>>
  BY <1>1, FillType DEF NextChunk
<1>3. /\ cmd.fmt = "sparse" /\ SparseHeaderAccepted(cmd) /\ Image' \in 1..cmd.sz
  BY <1>1 DEF ImageInv
<1>4. QED
  BY <1>1, <1>2, <1>3, Before, InvNext

LEMMA ChunkSkippedInv ==
  ASSUME ImageInv, ChunkSkipped
  PROVE  ImageInv'
<1>1. /\ MoreChunks /\ ChunkReadable /\ ChunkAccepted /\ pc = "chunk"
      /\ ChunkHeader.type \in {"DONT_CARE", "CRC"} /\ NextChunk
      /\ TotalBlocks' = TotalBlocks + ChunkHeader.chunk_sz
      /\ Image' = IF ChunkHeader.type = "CRC" THEN Image + 1 + (ChunkDataSz % Wrap)
                  ELSE Image + 1
      /\ readTo' = Larger(readTo, Image + 1)
      /\ UNCHANGED <<disk, cmd, unlockCritical, writtenTo, fault>>
  BY DEF ChunkSkipped, MoreChunks
<1>2. TotalBlocks' \in 0..MAX_UINT32
  <2>1. TotalBlocks <= MAX_UINT32 - ChunkHeader.chunk_sz
    BY <1>1 DEF ChunkAccepted
  <2>2. QED
    BY <1>1, <2>1, HeaderType, Before, Numbers
<1>3. /\ cmd.fmt = "sparse" /\ SparseHeaderAccepted(cmd) /\ cmd.sz \in Nat
      /\ Image \in Nat /\ 1 <= Image /\ Image + 1 <= cmd.sz /\ Image + 1 \in Nat
  BY <1>1, SparseType, HeaderType DEF ImageInv
<1>4. readTo' \in Nat /\ readTo' <= cmd.sz
  BY <1>1, <1>3, Before, LargerType
<1>5. Image' \in Nat /\ Image' \in 1..cmd.sz
  <2>1. CASE ChunkHeader.type = "CRC"
    <3>1. ChunkDataSz % Wrap \in Nat
      BY <1>1, HeaderType, Numbers
    <3>2. Image + 1 + (ChunkDataSz % Wrap) <= cmd.sz
      BY <1>1, <2>1 DEF ChunkAccepted
    <3>3. QED
      BY <1>1, <1>3, <2>1, <3>1, <3>2
  <2>2. CASE ChunkHeader.type # "CRC"
    BY <1>1, <1>3, <2>2
  <2>3. QED
    BY <2>1, <2>2
<1>6. /\ pc' = "chunk" /\ Chunk' \in 0..MAX_UINT32 /\ UNCHANGED <<Temp, reply>>
  BY <1>1, HeaderType DEF NextChunk
<1>7. QED
  BY <1>1, <1>2, <1>3, <1>4, <1>5, <1>6, Before, InvNext

LEMMA SparseDoneInv ==
  ASSUME ImageInv, SparseDone
  PROVE  ImageInv'
<1>1. PICK r \in {"OKAY", "FAIL"} : Answer(r)
  BY DEF SparseDone
<1>2. UNCHANGED <<disk, cmd, counters, unlockCritical, readTo, writtenTo, fault>>
  BY DEF SparseDone
<1>3. QED
  BY <1>1, <1>2, Before, Answered

-----------------------------------------------------------------------------
(***************************************************************************)
(* Raw images, meta images and erasing                                     *)
(***************************************************************************)
\* What HandleRawImgFlash does with words of the download that are in it.
LEMMA RawKeeps ==
  ASSUME ImageInv, cmd.fmt \in {"raw", "meta"}, NEW name, NEW src \in Nat,
         NEW size \in Nat, src + size <= cmd.sz, name \in Parts, size <= PartSize,
         NEW r \in WriteBlockToPartition(disk[name], 0, size, src, FALSE),
         disk' = [disk EXCEPT ![name] = r.words], fault' = (fault \/ ~r.ok),
         writtenTo' = Larger(writtenTo, size),
         readTo' = Larger(readTo, src + size)
  PROVE  /\ disk' \in [Parts -> Words] /\ fault' \in BOOLEAN
         /\ readTo' \in Nat /\ readTo' <= cmd.sz
         /\ writtenTo' \in Nat /\ writtenTo' <= PartSize
<1>1. disk' \in [Parts -> Words] /\ fault' \in BOOLEAN
  <2>1. 0 \in Nat /\ FALSE \in BOOLEAN /\ TypeOK
    BY DEF ImageInv
  <2>2. QED
    BY <2>1, DiskType
<1>2. cmd.sz \in Nat
  BY CommandType DEF ImageInv, RawImage, MetaImage
<1>3. /\ readTo \in Nat /\ readTo <= cmd.sz /\ writtenTo \in Nat
      /\ writtenTo <= PartSize /\ PartSize \in Nat
  BY Before, Numbers
<1>4. readTo' \in Nat /\ readTo' <= cmd.sz
  <2>1. src + size \in Nat
    OBVIOUS
  <2>2. QED
    BY <1>2, <1>3, <2>1, LargerType
<1>5. writtenTo' \in Nat /\ writtenTo' <= PartSize
  BY <1>3, LargerType
<1>6. QED
  BY <1>1, <1>4, <1>5

LEMMA FlashRawInv ==
  ASSUME ImageInv, FlashRaw
  PROVE  ImageInv'
<1>1. cmd.fmt = "raw" /\ UNCHANGED <<cmd, unlockCritical>>
  BY DEF FlashRaw
<1>2. cmd.sz \in Nat
  BY <1>1, CommandType, Numbers DEF ImageInv, RawImage
<1>3. CASE cmd.part \in Parts /\ cmd.sz <= PartSize
  <2>1. PICK r \in WriteBlockToPartition(disk[cmd.part], 0, cmd.sz, 0, FALSE) :
          /\ disk' = [disk EXCEPT ![cmd.part] = r.words]
          /\ fault' = (fault \/ ~r.ok)
          /\ Answer("OKAY") \/ Answer("FAIL")
          /\ UNCHANGED counters
    BY <1>3 DEF FlashRaw, RawImgFlash, Write
  <2>2. /\ writtenTo' = Larger(writtenTo, cmd.sz)
        /\ readTo' = Larger(readTo, 0 + cmd.sz)
    BY <1>3 DEF FlashRaw, RawImgFlash
  <2>3. 0 \in Nat /\ 0 + cmd.sz <= cmd.sz /\ cmd.fmt \in {"raw", "meta"}
    BY <1>1, <1>2
  <2>4. /\ disk' \in [Parts -> Words] /\ fault' \in BOOLEAN
        /\ readTo' \in Nat /\ readTo' <= cmd.sz
        /\ writtenTo' \in Nat /\ writtenTo' <= PartSize
    BY <1>2, <1>3, <2>1, <2>2, <2>3, RawKeeps
  <2>5. QED
    BY <1>1, <2>1, <2>4, Answered
<1>4. CASE ~(cmd.part \in Parts /\ cmd.sz <= PartSize)
  <2>1. Answer("FAIL") /\ UNCHANGED <<disk, fault, counters, readTo, writtenTo>>
    BY <1>4 DEF FlashRaw, RawImgFlash
  <2>2. QED
    BY <1>1, <2>1, Before, Answered
<1>5. QED
  BY <1>3, <1>4

LEMMA MetaType ==
  ASSUME ImageInv, cmd.fmt = "meta"
  PROVE  /\ cmd.sz \in Nat /\ cmd.sz <= MAX_UINT32 /\ Len(cmd.entries) \in Nat
         /\ \A i \in 1..Len(cmd.entries) :
              cmd.entries[i].start \in Nat /\ cmd.entries[i].size \in Nat
<1>1. cmd \in MetaImage
  BY CommandType DEF ImageInv
<1>2. cmd.sz \in 0..MAX_UINT32
  BY <1>1 DEF MetaImage
<1> DEFINE E == [name : Names, terminated : BOOLEAN,
                 start : 0..MAX_UINT32, size : 0..MAX_UINT32]
<1>3. cmd.entries \in Seq(E)
  BY <1>1 DEF MetaImage
<1>4. \A i \in 1..Len(cmd.entries) : cmd.entries[i] \in E
  <2> HIDE DEF E
  <2>1. QED BY <1>3
<1>5. \A i \in 1..Len(cmd.entries) :
        /\ cmd.entries[i].start \in 0..MAX_UINT32
        /\ cmd.entries[i].size \in 0..MAX_UINT32
  BY <1>4
<1>6. Len(cmd.entries) \in Nat
  <2> HIDE DEF E
  <2>1. QED BY <1>3
<1>7. QED
  BY <1>2, <1>5, <1>6, Numbers

LEMMA FlashMetaInv ==
  ASSUME ImageInv, FlashMeta
  PROVE  ImageInv'
<1>1. /\ cmd.fmt = "meta"
      /\ UNCHANGED <<disk, cmd, counters, unlockCritical, writtenTo, fault>>
      /\ \/ /\ cmd.sz > 1 + Len(cmd.entries) /\ pc' = "meta"
            /\ readTo' = 1 + Len(cmd.entries) /\ reply' = reply
         \/ Answer("FAIL") /\ readTo' = IF cmd.sz >= 1 THEN 1 ELSE 0
  BY DEF FlashMeta
<1>2. cmd.sz \in Nat /\ cmd.sz <= MAX_UINT32 /\ Len(cmd.entries) \in Nat
  BY <1>1, MetaType
<1>3. readTo' \in Nat /\ readTo' <= cmd.sz
  BY <1>1, <1>2
<1>4. CASE Answer("FAIL")
  BY <1>1, <1>3, <1>4, Before, Answered
<1>5. CASE cmd.sz > 1 + Len(cmd.entries) /\ pc' = "meta" /\ reply' = reply
  <2>1. Len(cmd.entries) < MAX_UINT32
    BY <1>2, <1>5, Numbers
  <2>2. UNCHANGED <<Image, Chunk, TotalBlocks, Temp>>
    BY <1>1 DEF counters
  <2>3. QED
    BY <1>1, <1>3, <1>5, <2>1, <2>2, Before, InvNext
<1>6. QED
  BY <1>1, <1>4, <1>5

LEMMA MetaEntryInv ==
  ASSUME ImageInv, MetaEntry
  PROVE  ImageInv'
<1>1. pc = "meta" /\ ~MetaEnds /\ UNCHANGED <<cmd, unlockCritical>>
  BY DEF MetaEntry
<1>2. /\ cmd.fmt = "meta" /\ Len(cmd.entries) \in Nat
      /\ Len(cmd.entries) < MAX_UINT32 /\ Chunk \in Nat
  BY <1>1, MetaType, Before, Numbers DEF ImageInv
<1>3. Chunk < Len(cmd.entries)
  BY <1>1 DEF MetaEnds
<1>4. /\ Chunk + 1 \in 1..Len(cmd.entries) /\ Chunk + 1 \in 0..MAX_UINT32
  BY <1>2, <1>3, Numbers
<1>5. Entry.start \in Nat /\ Entry.size \in Nat
  BY <1>2, <1>4, MetaType DEF Entry
<1>6. CASE Answer("FAIL") /\ UNCHANGED <<disk, fault, counters, readTo, writtenTo>>
  BY <1>1, <1>6, Before, Answered
<1>7. CASE ~(Answer("FAIL") /\ UNCHANGED <<disk, fault, counters, readTo, writtenTo>>)
  <2>1. /\ Entry.start + Entry.size <= cmd.sz
        /\ Entry.name \in Parts /\ Entry.size <= PartSize
    BY <1>7 DEF MetaEntry, RawImgFlash
  <2>2. PICK r \in WriteBlockToPartition(disk[Entry.name], 0, Entry.size,
                                         Entry.start, FALSE) :
          /\ disk' = [disk EXCEPT ![Entry.name] = r.words]
          /\ fault' = (fault \/ ~r.ok)
          /\ \/ Answer("FAIL") /\ UNCHANGED counters
             \/ /\ Chunk' = Chunk + 1
                /\ UNCHANGED <<pc, reply, Image, TotalBlocks, Temp>>
    BY <1>7 DEF MetaEntry, RawImgFlash, Write
  <2>3. /\ writtenTo' = Larger(writtenTo, Entry.size)
        /\ readTo' = Larger(readTo, Entry.start + Entry.size)
    BY <1>7 DEF MetaEntry, RawImgFlash
  <2>4. cmd.fmt \in {"raw", "meta"}
    BY <1>2
  <2>5. /\ disk' \in [Parts -> Words] /\ fault' \in BOOLEAN
        /\ readTo' \in Nat /\ readTo' <= cmd.sz
        /\ writtenTo' \in Nat /\ writtenTo' <= PartSize
    BY <1>5, <2>1, <2>2, <2>3, <2>4, RawKeeps
  <2>6. CASE Answer("FAIL") /\ UNCHANGED counters
    BY <1>1, <2>5, <2>6, Answered
  <2>7. CASE /\ Chunk' = Chunk + 1
             /\ UNCHANGED <<pc, reply, Image, TotalBlocks, Temp>>
    BY <1>1, <1>2, <1>4, <2>5, <2>7, Before, InvNext
  <2>8. QED
    BY <2>2, <2>6, <2>7
<1>8. QED
  BY <1>6, <1>7

LEMMA EraseInv ==
  ASSUME ImageInv, ErasePartition
  PROVE  ImageInv'
<1>1. /\ cmd.fmt = "erase"
      /\ UNCHANGED <<cmd, counters, unlockCritical, readTo, writtenTo>>
      /\ Answer("OKAY") \/ Answer("FAIL")
      /\ fault' \in {TRUE, fault}
  BY DEF ErasePartition
<1>2. disk \in [Parts -> Words]
  BY Before
<1>3. disk' \in [Parts -> Words]
  <2>1. CASE disk' = disk
    BY <1>2, <2>1
  <2>2. ASSUME cmd.part \in Parts,
               disk' = [disk EXCEPT ![cmd.part] = [w \in DOMAIN @ |-> Blank]]
        PROVE  disk' \in [Parts -> Words]
    <3>1. [w \in DOMAIN disk[cmd.part] |-> Blank] \in Words
      BY <1>2, <2>2 DEF Words
    <3>2. QED
      BY <1>2, <2>2, <3>1
  <2>3. ASSUME cmd.part \in Parts, NEW k \in 0..(PartSize \div BlockSize),
               disk' = [disk EXCEPT ![cmd.part] = [w \in DOMAIN @ |->
                          IF w < k * BlockSize THEN Blank ELSE @[w]]]
        PROVE  disk' \in [Parts -> Words]
    <3>1. [w \in DOMAIN disk[cmd.part] |->
             IF w < k * BlockSize THEN Blank ELSE disk[cmd.part][w]] \in Words
      BY <1>2, <2>3 DEF Words
    <3>2. QED
      BY <1>2, <2>3, <3>1
  <2>4. QED
    BY <2>1, <2>2, <2>3 DEF ErasePartition
<1>4. fault' \in BOOLEAN
  BY <1>1, Before
<1>5. QED
  BY <1>1, <1>3, <1>4, Before, Answered

-----------------------------------------------------------------------------
(***************************************************************************)
(* Plans                                                                   *)
(***************************************************************************)
\* The sums of the first members of a sequence of numbers exist, begin with
\* 0, grow by one member at a time, and never fall.
LEMMA SumsGrow ==
  ASSUME NEW s \in Seq(Nat)
  PROVE  /\ Sums(s) \in [0..Len(s) -> Nat] /\ Sums(s)[0] = 0
         /\ \A i \in 1..Len(s) : Sums(s)[i] = Sums(s)[i - 1] + s[i]
         /\ \A i, j \in 0..Len(s) : i <= j => Sums(s)[i] <= Sums(s)[j]
<1> DEFINE Body(g, i) == IF i = 0 THEN 0 ELSE g[i - 1] + s[i]
           N == Len(s)
           Is(m, g) == g = [i \in 0..m |-> Body(g, i)]
           E == {m \in Nat : m <= N => \E g : Is(m, g)}
           sum == CHOOSE g : Is(N, g)
<1>1. N \in Nat
  OBVIOUS
<1>2. 0 \in E
  <2>1. Is(0, [i \in 0..0 |-> 0])
    OBVIOUS
  <2>2. QED
    BY <2>1
<1>3. ASSUME NEW m \in Nat, m \in E PROVE m + 1 \in E
  <2> SUFFICES ASSUME m + 1 <= N PROVE \E g : Is(m + 1, g)
    <3> HIDE DEF Is, N
    <3>1. QED OBVIOUS
  <2>1. PICK g : Is(m, g)
    BY <1>1, <1>3
  <2> DEFINE h == [i \in 0..(m + 1) |-> IF i = m + 1 THEN Body(g, m + 1) ELSE g[i]]
  <2>2. \A i \in 0..m : h[i] = g[i]
    OBVIOUS
  <2>3. \A i \in 0..m : g[i] = Body(g, i)
    <3> HIDE DEF Body
    <3>1. QED BY <2>1
  <2>4. ASSUME NEW i \in 0..(m + 1) PROVE h[i] = Body(h, i)
    <3>1. CASE i = m + 1
      <4>1. h[m] = g[m]
        BY <2>2
      <4>2. h[i] = Body(g, m + 1)
        BY <3>1
      <4>3. i - 1 = m /\ i # 0
        BY <3>1
      <4> HIDE DEF h
      <4>4. QED BY <4>1, <4>2, <4>3, <3>1
    <3>2. CASE i # m + 1
      <4>1. i \in 0..m /\ (i # 0 => i - 1 \in 0..m)
        BY <3>2
      <4>2. h[i] = g[i] /\ (i # 0 => h[i - 1] = g[i - 1])
        BY <4>1, <2>2
      <4>3. g[i] = Body(g, i)
        BY <4>1, <2>3
      <4> HIDE DEF h
      <4>4. QED BY <4>2, <4>3
    <3>3. QED BY <3>1, <3>2
  <2>5. Is(m + 1, h)
    <3>1. h = [i \in 0..(m + 1) |-> h[i]]
      OBVIOUS
    <3> HIDE DEF h, Body
    <3>2. [i \in 0..(m + 1) |-> h[i]] = [i \in 0..(m + 1) |-> Body(h, i)]
      BY <2>4
    <3>3. QED BY <3>1, <3>2
  <2>6. QED BY <2>5
<1>4. N \in E
  <2> HIDE DEF E
  <2>1. QED BY <1>1, <1>2, <1>3, SetInduction
<1>5. Is(N, sum)
  <2>1. \E g : Is(N, g)
    BY <1>1, <1>4
  <2> HIDE DEF Is
  <2>2. QED BY <2>1
<1>6. DOMAIN sum = 0..N /\ \A i \in 0..N : sum[i] = Body(sum, i)
  <2> HIDE DEF sum, Body
  <2>1. QED BY <1>5
<1>7. Sums(s) = sum
  BY DEF Sums
<1> HIDE DEF sum
<1>8. sum[0] = 0
  BY <1>1, <1>6
<1>9. \A i \in 1..N : s[i] \in Nat /\ sum[i] = sum[i - 1] + s[i]
  BY <1>1, <1>6
<1> DEFINE Below(m) == \A i \in 0..m : sum[i] \in Nat /\ sum[i] <= sum[m]
           T == {m \in Nat : m <= N => Below(m)}
<1>10. 0 \in T
  BY <1>8
<1>11. ASSUME NEW m \in Nat, m \in T PROVE m + 1 \in T
  <2>1. SUFFICES ASSUME m + 1 <= N PROVE Below(m + 1)
    <3> HIDE DEF Below, N
    <3>1. QED OBVIOUS
  <2>2. Below(m) /\ sum[m] \in Nat
    BY <1>1, <1>11, <2>1
  <2>3. m + 1 \in 1..N /\ (m + 1) - 1 = m
    BY <1>1, <2>1
  <2>4. s[m + 1] \in Nat /\ sum[m + 1] = sum[m] + s[m + 1]
    BY <1>9, <2>3
  <2>5. \A i \in 0..(m + 1) : i = m + 1 \/ i \in 0..m
    OBVIOUS
  <2>6. QED
    BY <2>2, <2>4, <2>5
<1>12. \A m \in 0..N : Below(m)
  <2>1. Nat \subseteq T
    <3> HIDE DEF T
    <3>1. QED BY <1>10, <1>11, SetInduction
  <2> HIDE DEF Below
  <2>2. QED BY <1>1, <2>1
<1>13. \A i \in 0..N : sum[i] \in Nat
  BY <1>1, <1>12
<1>14. sum \in [0..N -> Nat]
  <2>1. sum = [i \in 0..N |-> sum[i]]
    <3> HIDE DEF Body
    <3>1. QED BY <1>5 DEF sum
  <2>2. QED
    BY <1>13, <2>1
<1>15. \A i, j \in 0..N : i <= j => sum[i] <= sum[j]
  BY <1>1, <1>12
<1>16. QED
  BY <1>7, <1>8, <1>9, <1>14, <1>15

\* A product grows with its factors.
LEMMA ProductGrows ==
  ASSUME NEW a \in Nat, NEW b \in Nat, NEW c \in Nat, a <= b
  PROVE  a * c <= b * c /\ a * c \in Nat /\ b * c \in Nat
<1>1. PICK d \in Nat : b = a + d
  <2>1. b - a \in Nat /\ b = a + (b - a)
    OBVIOUS
  <2>2. QED
    BY <2>1
<1>2. b * c = a * c + d * c
  BY <1>1
<1>3. a * c \in Nat /\ b * c \in Nat /\ d * c \in Nat
  BY ProductType
<1>4. QED
  BY <1>2, <1>3

\* One more of the second factor.
LEMMA ProductNext ==
  ASSUME NEW a \in Nat, NEW b \in Nat
  PROVE  (a + 1) * b = a * b + b /\ a * b \in Nat /\ 1 * b = b
OBVIOUS

\* The block that a word is in.
LEMMA BlockOf ==
  ASSUME NEW b \in Nat, b # 0, NEW w \in Nat
  PROVE  /\ w \div b \in Nat
         /\ \A n \in Nat : w \div b < n <=> w < n * b
         /\ \A n \in Nat : n <= w \div b <=> n * b <= w
<1> DEFINE q == w \div b
           r == w % b
<1>1. q \in Nat /\ r \in Nat /\ r < b /\ w = b * q + r
  OBVIOUS
<1> HIDE DEF q, r
<1>2. w = q * b + r /\ (q + 1) * b = q * b + b /\ q * b \in Nat
  BY <1>1
<1>3. ASSUME NEW n \in Nat PROVE n <= q <=> n * b <= w
  <2>1. CASE n <= q
    BY <1>1, <1>2, <2>1, ProductGrows
  <2>2. CASE ~(n <= q)
    <3>1. q + 1 <= n /\ q + 1 \in Nat
      BY <1>1, <2>2
    <3>2. (q + 1) * b <= n * b /\ n * b \in Nat
      BY <3>1, ProductGrows
    <3>3. QED
      BY <1>1, <1>2, <2>2, <3>2
  <2>3. QED BY <2>1, <2>2
<1>4. ASSUME NEW n \in Nat PROVE q < n <=> w < n * b
  <2>1. n * b \in Nat
    BY ProductType
  <2>2. QED
    BY <1>1, <1>3, <2>1
<1>5. QED
  BY <1>1, <1>3, <1>4 DEF q

\* The blocks and words of a plan add up.
LEMMA PlanGrows ==
  ASSUME NEW c \in SparseImage
  PROVE  /\ Len(c.plan) \in Nat /\ DOMAIN c.plan = 1..Len(c.plan)
         /\ \A i \in 1..Len(c.plan) :
              /\ c.plan[i].type \in {"RAW", "FILL", "DONT_CARE"}
              /\ c.plan[i].n \in Nat /\ 1 <= c.plan[i].n
              /\ PlanWords(c, c.plan[i]) \in Nat /\ 1 <= PlanWords(c, c.plan[i])
         /\ BlocksTo(c) \in [0..Len(c.plan) -> Nat] /\ BlocksTo(c)[0] = 0
         /\ \A i \in 1..Len(c.plan) :
              BlocksTo(c)[i] = BlocksTo(c)[i - 1] + c.plan[i].n
         /\ \A i, j \in 0..Len(c.plan) : i <= j => BlocksTo(c)[i] <= BlocksTo(c)[j]
         /\ WordsTo(c) \in [0..Len(c.plan) -> Nat] /\ WordsTo(c)[0] = 0
         /\ \A i \in 1..Len(c.plan) :
              WordsTo(c)[i] = WordsTo(c)[i - 1] + PlanWords(c, c.plan[i])
         /\ \A i, j \in 0..Len(c.plan) : i <= j => WordsTo(c)[i] <= WordsTo(c)[j]
<1> DEFINE T == [type : {"RAW", "FILL", "DONT_CARE"}, n : 1..MAX_UINT32]
           L == Len(c.plan)
           n == [i \in DOMAIN c.plan |-> c.plan[i].n]
           m == [i \in DOMAIN c.plan |-> PlanWords(c, c.plan[i])]
<1>1. c.plan \in Seq(T) /\ c.blk_sz \in Nat
  BY Numbers DEF SparseImage
<1>2. L \in Nat /\ DOMAIN c.plan = 1..L /\ \A i \in 1..L : c.plan[i] \in T
  <2> HIDE DEF T
  <2>1. QED BY <1>1
<1>3. \A i \in 1..L : /\ c.plan[i].type \in {"RAW", "FILL", "DONT_CARE"}
                      /\ c.plan[i].n \in Nat /\ 1 <= c.plan[i].n
  BY <1>2, Numbers
<1>4. ASSUME NEW i \in 1..L
      PROVE  PlanWords(c, c.plan[i]) \in Nat /\ 1 <= PlanWords(c, c.plan[i])
  <2>1. c.plan[i].n * c.blk_sz \in Nat
    BY <1>1, <1>3, ProductType
  <2>2. QED
    BY <1>3, <2>1 DEF PlanWords
<1> HIDE DEF T
<1>5. n \in Seq(Nat) /\ Len(n) = L /\ \A i \in 1..L : n[i] = c.plan[i].n
  BY <1>2, <1>3
<1>6. /\ m \in Seq(Nat) /\ Len(m) = L
      /\ \A i \in 1..L : m[i] = PlanWords(c, c.plan[i])
  BY <1>2, <1>4
<1>7. BlocksTo(c) = Sums(n) /\ WordsTo(c) = Sums(m)
  BY DEF BlocksTo, WordsTo
<1> HIDE DEF n, m
<1>8. /\ Sums(n) \in [0..L -> Nat] /\ Sums(n)[0] = 0
      /\ \A i \in 1..L : Sums(n)[i] = Sums(n)[i - 1] + n[i]
      /\ \A i, j \in 0..L : i <= j => Sums(n)[i] <= Sums(n)[j]
  BY <1>5, SumsGrow
<1>9. /\ Sums(m) \in [0..L -> Nat] /\ Sums(m)[0] = 0
      /\ \A i \in 1..L : Sums(m)[i] = Sums(m)[i - 1] + m[i]
      /\ \A i, j \in 0..L : i <= j => Sums(m)[i] <= Sums(m)[j]
  BY <1>6, SumsGrow
<1>10. QED
  BY <1>2, <1>3, <1>4, <1>5, <1>6, <1>7, <1>8, <1>9

\* What a well-formed image says of its chunk i and of what is around it.
LEMMA Encoded ==
  ASSUME NEW c \in SparseImage, WellFormed(c)
  PROVE  /\ c.part \in Parts /\ c.blk_sz \in Nat /\ c.blk_sz # 0
         /\ c.blk_sz % BlockSize = 0 /\ c.file_hdr /\ c.chunk_hdr
         /\ c.total_chunks = Len(c.plan) /\ c.sz = 1 + WordsTo(c)[Len(c.plan)]
         /\ c.total_blks = BlocksTo(c)[Len(c.plan)]
         /\ BlocksTo(c)[Len(c.plan)] <= MAX_UINT32
         /\ BlocksTo(c)[Len(c.plan)] * c.blk_sz <= PartSize
         /\ \A i \in 1..Len(c.plan) :
              c.cells[Header(c, i)] = [type |-> c.plan[i].type,
                                       chunk_sz |-> c.plan[i].n,
                                       total_sz |-> PlanWords(c, c.plan[i])]
<1>1. /\ c.fmt = "sparse" /\ c.blk_sz \in Nat /\ c.total_blks \in 0..MAX_UINT32
  BY Numbers DEF SparseImage
<1>2. c.part \in Parts /\ Encodes(c) /\ c.total_blks * c.blk_sz <= PartSize
  BY <1>1 DEF WellFormed
<1>3. /\ Len(c.plan) \in Nat /\ DOMAIN c.plan = 1..Len(c.plan)
  BY PlanGrows
<1>4. Header(c, Len(c.plan) + 1) = 1 + WordsTo(c)[Len(c.plan)]
  BY <1>3 DEF Header
<1>5. QED
  BY <1>1, <1>2, <1>3, <1>4, Numbers DEF Encodes

\* A word of the blocks of chunk i is what this chunk says, and one behind
\* the last chunk stays what it was.
LEMMA ExpandedIn ==
  ASSUME NEW c \in SparseImage, WellFormed(c), NEW i \in 1..Len(c.plan),
         NEW w \in Nat, NEW old, BlocksTo(c)[i - 1] * c.blk_sz <= w,
         w < BlocksTo(c)[i] * c.blk_sz
  PROVE  /\ c.plan[i].type = "RAW" => Expanded(c, w, old) =
              Header(c, i) + 1 + (w - BlocksTo(c)[i - 1] * c.blk_sz)
         /\ c.plan[i].type = "FILL" => Expanded(c, w, old) = Header(c, i) + 1
         /\ c.plan[i].type = "DONT_CARE" => Expanded(c, w, old) = old
<1> DEFINE B == BlocksTo(c)
           L == Len(c.plan)
           b == w \div c.blk_sz
           covers(j) == First(c, j) <= b /\ b < First(c, j) + c.plan[j].n
<1>1. /\ L \in Nat /\ DOMAIN c.plan = 1..L /\ B \in [0..L -> Nat]
      /\ \A j \in 1..L : B[j] = B[j - 1] + c.plan[j].n
      /\ \A j, k \in 0..L : j <= k => B[j] <= B[k]
  BY PlanGrows
<1>2. c.blk_sz \in Nat /\ c.blk_sz # 0
  BY Encoded
<1>3. \A j \in 1..L : j \in 0..L /\ j - 1 \in 0..L /\ B[j] \in Nat /\ B[j - 1] \in Nat
  <2>1. L \in Nat /\ B \in [0..L -> Nat]
    BY <1>1
  <2> HIDE DEF L, B
  <2>2. \A j \in 1..L : j \in 0..L /\ j - 1 \in 0..L
    BY <2>1
  <2>3. QED
    BY <2>1, <2>2
<1>4. b \in Nat /\ B[i - 1] <= b /\ b < B[i]
  BY <1>2, <1>3, BlockOf
<1>5. \A j \in 1..L : covers(j) <=> B[j - 1] <= b /\ b < B[j]
  BY <1>1 DEF First
<1>6. covers(i)
  BY <1>4, <1>5
<1> HIDE DEF b, B
<1>7. ASSUME NEW j \in 1..L, covers(j) PROVE j = i
  <2>1. B[j - 1] <= b /\ b < B[j]
    BY <1>5, <1>7
  <2>2. CASE j < i
    <3>1. B[j] <= B[i - 1]
      BY <1>1, <1>3, <2>2
    <3>2. QED
      BY <1>3, <1>4, <2>1, <3>1
  <2>3. CASE i < j
    <3>1. B[i] <= B[j - 1]
      <4>1. i \in Nat /\ j \in Nat /\ i <= j - 1
        BY <2>3
      <4>2. QED
        BY <1>1, <1>3, <4>1
    <3>2. QED
      BY <1>3, <1>4, <2>1, <3>1
  <2>4. QED
    BY <1>1, <2>2, <2>3
<1>8. (CHOOSE j \in DOMAIN c.plan : covers(j)) = i
  <2> HIDE DEF covers
  <2>1. QED BY <1>1, <1>6, <1>7
<1>9. Expanded(c, w, old) =
        CASE c.plan[i].type = "RAW" -> Header(c, i) + 1 + (w - First(c, i) * c.blk_sz)
          [] c.plan[i].type = "FILL" -> Header(c, i) + 1
          [] c.plan[i].type = "DONT_CARE" -> old
  <2>1. ~ ~\E j \in DOMAIN c.plan : covers(j)
    BY <1>1, <1>6
  <2>2. QED
    BY <1>8, <2>1 DEF Expanded, b
<1>10. QED
  BY <1>9 DEF First, B

LEMMA ExpandedBehind ==
  ASSUME NEW c \in SparseImage, WellFormed(c), NEW w \in Nat, NEW old,
         BlocksTo(c)[Len(c.plan)] * c.blk_sz <= w
  PROVE  Expanded(c, w, old) = old
<1> DEFINE B == BlocksTo(c)
           L == Len(c.plan)
           b == w \div c.blk_sz
           covers(j) == First(c, j) <= b /\ b < First(c, j) + c.plan[j].n
<1>1. /\ L \in Nat /\ DOMAIN c.plan = 1..L /\ B \in [0..L -> Nat]
      /\ \A j \in 1..L : B[j] = B[j - 1] + c.plan[j].n
      /\ \A j, k \in 0..L : j <= k => B[j] <= B[k]
  BY PlanGrows
<1>2. c.blk_sz \in Nat /\ c.blk_sz # 0
  BY Encoded
<1>3. L \in 0..L /\ B[L] \in Nat
  BY <1>1
<1>4. b \in Nat /\ B[L] <= b
  BY <1>2, <1>3, BlockOf
<1> HIDE DEF b, B
<1>5. ASSUME NEW j \in 1..L PROVE ~covers(j)
  <2>1. j \in 0..L /\ j <= L
    BY <1>1
  <2>2. B[j] <= B[L] /\ B[j] \in Nat /\ B[j] = B[j - 1] + c.plan[j].n
    BY <1>1, <1>3, <2>1
  <2>3. QED
    BY <1>3, <1>4, <2>2 DEF First, B
<1>6. QED
  BY <1>1, <1>5 DEF Expanded, b

-----------------------------------------------------------------------------
(***************************************************************************)
(* What is on the partitions at each moment                                *)
(***************************************************************************)
\* No partition was touched.
Untouched == [p \in Parts |-> [w \in 0..(PartSize - 1) |-> Old]]

\* The first n blocks of a well-formed sparse image are on its partition.
UpTo(c, n) ==
  [p \in Parts |-> [w \in 0..(PartSize - 1) |->
     IF p = c.part /\ w < n * c.blk_sz THEN Expanded(c, w, Old) ELSE Old]]

\* The place in the image and on the partition, between two chunks and
\* between two blocks of a fill chunk.
AtChunk ==
  /\ Chunk \in 0..Len(cmd.plan)
  /\ Image = Header(cmd, Chunk + 1) /\ TotalBlocks = BlocksTo(cmd)[Chunk]

AtBlock ==
  /\ Chunk + 1 \in DOMAIN cmd.plan /\ cmd.plan[Chunk + 1].type = "FILL"
  /\ Temp <= cmd.plan[Chunk + 1].n
  /\ Image = Header(cmd, Chunk + 1) + 2
  /\ TotalBlocks = BlocksTo(cmd)[Chunk] + Temp

\* Entry i of a meta image has a word for word w of p.
Has(i, p, w) == cmd.entries[i].name = p /\ w < cmd.entries[i].size

\* Every word is that of the last entry before Chunk that has one for it.
AtEntry ==
  /\ \A i \in 1..Chunk : i \in MetaList(cmd)
  /\ \A p \in Parts : \A w \in 0..(PartSize - 1) :
       \/ disk[p][w] = Old /\ \A i \in 1..Chunk : ~Has(i, p, w)
       \/ \E i \in 1..Chunk : /\ Has(i, p, w)
                              /\ disk[p][w] = cmd.entries[i].start + w
                              /\ \A j \in (i + 1)..Chunk : ~Has(j, p, w)

\* The invariant: between two steps a well-formed image is on its partition
\* exactly up to the block, or the entry, that is next.
StoredInv ==
  /\ OkayMeansStored /\ GoodImageAccepted
  /\ pc # "done" => reply = "none"
  /\ pc = "ready" => disk = Untouched /\ Chunk = 0 /\ TotalBlocks = 0
  /\ pc \in {"chunk", "fill"} /\ WellFormed(cmd) => disk = UpTo(cmd, TotalBlocks)
  /\ pc = "chunk" /\ WellFormed(cmd) => AtChunk
  /\ pc = "fill" /\ WellFormed(cmd) => AtBlock
  /\ pc = "meta" => AtEntry

\* The next k blocks of the image behind the first n are the words of the
\* buffer from src, or the word at src over and over.
Brings(c, n, k, src, fill) ==
  \A w \in Nat : n * c.blk_sz <= w /\ w < (n + k) * c.blk_sz =>
    Expanded(c, w, Old) = IF fill THEN src ELSE src + (w - n * c.blk_sz)

\* The first n blocks of the image, and m words behind them.
Behind(c, n, m, src, fill) ==
  [UpTo(c, n) EXCEPT ![c.part] =
     Put(UpTo(c, n)[c.part], n * c.blk_sz, m, src, fill)]

\* Every word of d is old or the one of the whole image.
Partly(c, d) ==
  \A p \in Parts : \A w \in 0..(PartSize - 1) : d[p][w] \in {Old, Stored(c, p, w)}

\* Two writes one behind the other are one.
LEMMA PutTwice ==
  ASSUME NEW d \in Words, NEW s \in Nat, NEW a \in Nat, NEW e \in Nat,
         NEW src \in Nat, NEW fill \in BOOLEAN
  PROVE  Put(Put(d, s, a, src, fill), s + a, e,
             IF fill THEN src ELSE src + a, fill) = Put(d, s, a + e, src, fill)
<1> DEFINE f == Put(d, s, a, src, fill)
           D == 0..(PartSize - 1)
           next == IF fill THEN src ELSE src + a
<1>1. DOMAIN d = D /\ D \subseteq Int
  BY Numbers DEF Words
<1>2. f = [w \in D |-> IF w \in s..(s + a - 1)
                       THEN IF fill THEN src ELSE src + (w - s) ELSE d[w]]
  BY <1>1 DEF Put
<1>3. Put(f, s + a, e, next, fill) =
        [w \in D |-> IF w \in (s + a)..((s + a) + e - 1)
                     THEN IF fill THEN next ELSE next + (w - (s + a)) ELSE f[w]]
  BY <1>1, <1>2 DEF Put
<1>4. Put(d, s, a + e, src, fill) =
        [w \in D |-> IF w \in s..(s + (a + e) - 1)
                     THEN IF fill THEN src ELSE src + (w - s) ELSE d[w]]
  BY <1>1 DEF Put
<1>5. ASSUME NEW w \in D
      PROVE  (IF w \in (s + a)..((s + a) + e - 1)
              THEN IF fill THEN next ELSE next + (w - (s + a)) ELSE f[w])
             = (IF w \in s..(s + (a + e) - 1)
                THEN IF fill THEN src ELSE src + (w - s) ELSE d[w])
  <2>1. w \in Int /\ f[w] = IF w \in s..(s + a - 1)
                            THEN IF fill THEN src ELSE src + (w - s) ELSE d[w]
    BY <1>1, <1>2
  <2>2. CASE fill
    BY <2>1, <2>2
  <2>3. CASE ~fill
    <3>1. src + a + (w - (s + a)) = src + (w - s)
      BY <2>1
    <3>2. QED
      BY <2>1, <2>3, <3>1
  <2>4. QED BY <2>2, <2>3
<1>6. QED
  BY <1>3, <1>4, <1>5

\* A write of a size of 32 bits puts the first words of the buffer from src
\* in place, all of them when it worked, and changes nothing else.
LEMMA WriteLands ==
  ASSUME NEW d \in Words, NEW Offset \in Nat, NEW Size \in Nat,
         Size <= MAX_UINT32, NEW src \in Nat, NEW fill \in BOOLEAN,
         NEW r \in WriteBlockToPartition(d, Offset, Size, src, fill)
  PROVE  \E m \in 0..Size : /\ r.words = Put(d, Offset * BlockSize, m, src, fill)
                            /\ r.ok => m = Size
<1> DEFINE start == Offset * BlockSize
           full == (Size \div BlockSize) * BlockSize
           Div == full % Wrap
           whole == Put(d, start, Div, src, fill)
           stored == IF Size - Div = 0 THEN whole
                     ELSE LastBlock(whole, start + Div, Size - Div,
                                    IF fill THEN src ELSE src + Div, fill)
<1>1. start \in Nat
  BY Numbers, ProductType
<1>2. full \in Nat /\ full <= Size
  <2>1. Size \div BlockSize \in Nat /\ Size % BlockSize \in Nat
        /\ Size = BlockSize * (Size \div BlockSize) + (Size % BlockSize)
    BY Numbers
  <2> DEFINE q == Size \div BlockSize
             t == Size % BlockSize
  <2> HIDE DEF q, t
  <2>2. q \in Nat /\ t \in Nat /\ Size = BlockSize * q + t
    BY <2>1 DEF q, t
  <2>3. BlockSize * q = q * BlockSize /\ q * BlockSize \in Nat
    BY <2>2, Numbers, ProductType
  <2>4. q * BlockSize <= Size
    BY <2>2, <2>3
  <2>5. QED
    BY <2>3, <2>4 DEF q
<1> HIDE DEF start, full
<1>3. Div = full /\ Div \in Nat /\ Div <= Size
  BY <1>2, Numbers
<1>4. \/ r = [ok |-> TRUE, words |-> stored]
      \/ \E k \in 0..(Div \div BlockSize) :
           r = [ok |-> FALSE, words |-> Put(d, start, k * BlockSize, src, fill)]
  BY DEF WriteBlockToPartition, start, full
<1> HIDE DEF Div
<1>5. CASE r = [ok |-> TRUE, words |-> stored]
  <2>1. stored = Put(d, start, Size, src, fill)
    <3>1. CASE Size - Div = 0
      <4>1. Div = Size
        BY <1>3, <3>1
      <4>2. QED
        BY <3>1, <4>1
    <3>2. CASE Size - Div # 0
      <4>1. Size - Div \in Nat /\ Div + (Size - Div) = Size
        BY <1>3
      <4>2. stored = Put(whole, start + Div, Size - Div,
                         IF fill THEN src ELSE src + Div, fill)
        BY <3>2 DEF LastBlock
      <4>3. \A a, e \in Nat :
              Put(Put(d, start, a, src, fill), start + a, e,
                  IF fill THEN src ELSE src + a, fill)
              = Put(d, start, a + e, src, fill)
        BY <1>1, PutTwice
      <4>4. stored = Put(d, start, Div + (Size - Div), src, fill)
        <5> HIDE DEF stored
        <5>1. QED BY <1>3, <4>1, <4>2, <4>3
      <4>5. QED
        BY <4>1, <4>4
    <3>3. QED BY <3>1, <3>2
  <2> HIDE DEF stored
  <2>2. Size \in 0..Size
    OBVIOUS
  <2>3. QED
    BY <1>5, <2>1, <2>2 DEF start
<1>6. CASE r # [ok |-> TRUE, words |-> stored]
  <2>1. PICK k \in 0..(Div \div BlockSize) :
          r = [ok |-> FALSE, words |-> Put(d, start, k * BlockSize, src, fill)]
    BY <1>4, <1>6
  <2>2. k \in Nat /\ k <= Div \div BlockSize
    BY <1>3, <2>1, Numbers
  <2>3. k * BlockSize <= Div
    BY <1>3, <2>2, BlockOf, Numbers
  <2>4. k * BlockSize \in 0..Size
    BY <1>3, <2>2, <2>3, Numbers, ProductType
  <2>5. r.words = Put(d, start, k * BlockSize, src, fill) /\ r.ok = FALSE
    BY <2>1
  <2>6. QED
    BY <2>4, <2>5 DEF start
<1>7. QED
  BY <1>5, <1>6

\* On a partition with the first n blocks, the first m words of the next k
\* blocks: all old or the image's, and the first n + k blocks when m is all.
LEMMA ImageLands ==
  ASSUME NEW c \in SparseImage, WellFormed(c), NEW n \in Nat, NEW k \in Nat,
         NEW m \in Nat, NEW src \in Nat, NEW fill \in BOOLEAN,
         m <= k * c.blk_sz, Brings(c, n, k, src, fill)
  PROVE  /\ m = k * c.blk_sz => Behind(c, n, m, src, fill) = UpTo(c, n + k)
         /\ Partly(c, Behind(c, n, m, src, fill))
<1> DEFINE D == 0..(PartSize - 1)
           d == Behind(c, n, m, src, fill)
           s == n * c.blk_sz
           x == Put(UpTo(c, n)[c.part], s, m, src, fill)
           kb == k * c.blk_sz
           e == (n + k) * c.blk_sz
<1>1. c.part \in Parts /\ c.blk_sz \in Nat /\ c.fmt = "sparse"
  BY Encoded DEF SparseImage
<1>2. s \in Nat /\ kb \in Nat /\ e \in Nat /\ e = s + kb
  <2>1. e = s + kb
    BY <1>1
  <2>2. QED
    BY <1>1, <2>1, ProductType
<1>3. UpTo(c, n)[c.part] = [w \in D |-> IF w < s THEN Expanded(c, w, Old) ELSE Old]
  BY <1>1 DEF UpTo
<1>4. x = [w \in D |-> IF w \in s..(s + m - 1)
                       THEN IF fill THEN src ELSE src + (w - s)
                       ELSE IF w < s THEN Expanded(c, w, Old) ELSE Old]
  BY <1>3 DEF Put
<1>5. d = [p \in Parts |-> IF p = c.part THEN x ELSE [w \in D |-> Old]]
  BY <1>1 DEF UpTo, Behind
<1> HIDE DEF s, kb, e, x, d
<1>6. m <= kb /\ \A w \in Nat : s <= w /\ w < e =>
        Expanded(c, w, Old) = IF fill THEN src ELSE src + (w - s)
  BY DEF s, kb, e, Brings
<1>7. ASSUME NEW w \in D
      PROVE  x[w] = IF w < s + m THEN Expanded(c, w, Old) ELSE Old
  <2>1. w \in Nat /\ w >= 0
    BY Numbers
  <2>2. CASE w \in s..(s + m - 1)
    <3>1. s <= w /\ w < e /\ w < s + m
      BY <1>2, <1>6, <2>1, <2>2
    <3>2. QED
      BY <1>4, <1>6, <2>1, <2>2, <3>1
  <2>3. CASE w \notin s..(s + m - 1)
    <3>1. w < s <=> w < s + m
      BY <1>2, <2>1, <2>3
    <3>2. QED
      BY <1>4, <2>3, <3>1
  <2>4. QED BY <2>2, <2>3
<1>8. ASSUME m = kb PROVE d = UpTo(c, n + k)
  <2>1. x = [w \in D |-> IF w < e THEN Expanded(c, w, Old) ELSE Old]
    BY <1>2, <1>4, <1>7, <1>8
  <2>2. UpTo(c, n + k) =
          [p \in Parts |-> IF p = c.part
             THEN [w \in D |-> IF w < e THEN Expanded(c, w, Old) ELSE Old]
             ELSE [w \in D |-> Old]]
    BY DEF UpTo, e
  <2>3. QED
    BY <1>5, <2>1, <2>2
<1>9. ASSUME NEW p \in Parts, NEW w \in D
      PROVE  d[p][w] \in {Old, Stored(c, p, w)}
  <2>1. Stored(c, p, w) = IF p = c.part THEN Expanded(c, w, Old) ELSE Old
    BY <1>1 DEF Stored
  <2>2. d[p][w] = IF p = c.part THEN x[w] ELSE Old
    <3>1. CASE p = c.part
      BY <1>5, <3>1
    <3>2. CASE p # c.part
      <4>1. d[p] = [v \in D |-> Old]
        BY <1>5, <3>2
      <4>2. d[p][w] = Old
        BY <4>1
      <4>3. QED BY <3>2, <4>2
    <3>3. QED BY <3>1, <3>2
  <2>3. QED
    BY <1>7, <2>1, <2>2
<1>10. QED
  BY <1>8, <1>9 DEF kb, d, Partly

-----------------------------------------------------------------------------
(***************************************************************************)
(* Well-formed sparse images                                               *)
(***************************************************************************)
\* The first blocks of an image are old words or the image's.
LEMMA UpToStored ==
  ASSUME NEW c \in SparseImage, NEW n, NEW p \in Parts,
         NEW w \in 0..(PartSize - 1)
  PROVE  UpTo(c, n)[p][w] \in {Old, Stored(c, p, w)}
<1>1. c.fmt = "sparse"
  BY DEF SparseImage
<1>2. UpTo(c, n)[p][w] = IF p = c.part /\ w < n * c.blk_sz
                         THEN Expanded(c, w, Old) ELSE Old
  BY DEF UpTo
<1>3. QED
  BY <1>1, <1>2 DEF Stored

\* The answer of a command.
LEMMA StoredAnswered ==
  ASSUME cmd' = cmd, NEW r \in {"OKAY", "FAIL"}, Answer(r),
         WellFormed(cmd) =>
           /\ r = "FAIL" /\ cmd.fmt # "meta" => fault'
           /\ \A p \in Parts : \A w \in 0..(PartSize - 1) :
                /\ \/ disk'[p][w] \in {Old, Stored(cmd, p, w)}
                   \/ cmd.fmt = "meta" /\ \E i \in MetaList(cmd) :
                        Has(i, p, w) /\ disk'[p][w] = cmd.entries[i].start + w
                /\ r = "OKAY" => disk'[p][w] = Stored(cmd, p, w)
  PROVE  StoredInv'
<1>1. pc' = "done" /\ reply' = r
  BY DEF Answer
<1>2. GoodImageAccepted'
  BY <1>1 DEF GoodImageAccepted
<1>3. OkayMeansStored'
  BY <1>1 DEF OkayMeansStored, Has
<1>4. QED
  BY <1>1, <1>2, <1>3 DEF StoredInv

\* A step that stays in a sparse image.
LEMMA StoredOn ==
  ASSUME cmd' = cmd, cmd \in Commands, cmd.fmt = "sparse", pc' \in {"chunk", "fill"},
         reply' = "none",
         WellFormed(cmd) => /\ disk' = UpTo(cmd, TotalBlocks')
                            /\ pc' = "chunk" => AtChunk'
                            /\ pc' = "fill" => AtBlock'
  PROVE  StoredInv'
<1>1. cmd \in SparseImage
  BY CommandType
<1>2. OkayMeansStored'
  BY <1>1, UpToStored DEF OkayMeansStored
<1>3. GoodImageAccepted'
  BY DEF GoodImageAccepted
<1>4. QED
  BY <1>2, <1>3 DEF StoredInv

\* What the loop of HandleSparseImgFlash finds at a chunk of such an image.
LEMMA GoodChunk ==
  ASSUME ImageInv, StoredInv, MoreChunks, WellFormed(cmd)
  PROVE  /\ cmd \in SparseImage /\ cmd.blk_sz \in Nat
         /\ Chunk \in Nat /\ Chunk + 1 \in 1..Len(cmd.plan)
         /\ ChunkHeader = [type |-> cmd.plan[Chunk + 1].type,
                           chunk_sz |-> cmd.plan[Chunk + 1].n,
                           total_sz |-> PlanWords(cmd, cmd.plan[Chunk + 1])]
         /\ cmd.plan[Chunk + 1].type \in {"RAW", "FILL", "DONT_CARE"}
         /\ cmd.plan[Chunk + 1].n \in Nat /\ 1 <= cmd.plan[Chunk + 1].n
         /\ TotalBlocks \in Nat /\ TotalBlocks = BlocksTo(cmd)[Chunk]
         /\ TotalBlocks + cmd.plan[Chunk + 1].n = BlocksTo(cmd)[Chunk + 1]
         /\ BlocksTo(cmd)[Chunk + 1] <= MAX_UINT32
         /\ BlocksTo(cmd)[Chunk + 1] * cmd.blk_sz <= PartSize
         /\ Image \in Nat /\ Image = Header(cmd, Chunk + 1)
         /\ Header(cmd, Chunk + 2) =
              Image + PlanWords(cmd, cmd.plan[Chunk + 1])
         /\ Image + PlanWords(cmd, cmd.plan[Chunk + 1]) <= cmd.sz
         /\ ChunkReadable /\ ChunkAccepted
<1> DEFINE L == Len(cmd.plan)
           i == Chunk + 1
           B == BlocksTo(cmd)
           W == WordsTo(cmd)
           e == cmd.plan[i]
           words == PlanWords(cmd, e)
<1>1. pc = "chunk" /\ Chunk < cmd.total_chunks
  BY DEF MoreChunks
<1>2. cmd \in SparseImage /\ cmd \in Commands /\ cmd.fmt = "sparse"
  BY <1>1, CommandType DEF ImageInv
<1>3. /\ L \in Nat /\ B \in [0..L -> Nat] /\ W \in [0..L -> Nat]
      /\ \A j \in 1..L : B[j] = B[j - 1] + cmd.plan[j].n
      /\ \A j \in 1..L : W[j] = W[j - 1] + PlanWords(cmd, cmd.plan[j])
      /\ \A j \in 1..L :
           /\ cmd.plan[j].type \in {"RAW", "FILL", "DONT_CARE"}
           /\ cmd.plan[j].n \in Nat /\ 1 <= cmd.plan[j].n
           /\ PlanWords(cmd, cmd.plan[j]) \in Nat
           /\ 1 <= PlanWords(cmd, cmd.plan[j])
      /\ \A j, k \in 0..L : j <= k => B[j] <= B[k]
      /\ \A j, k \in 0..L : j <= k => W[j] <= W[k]
  BY <1>2, PlanGrows
<1>4. /\ cmd.total_chunks = L /\ cmd.sz = 1 + W[L] /\ B[L] <= MAX_UINT32
      /\ B[L] * cmd.blk_sz <= PartSize /\ cmd.chunk_hdr
      /\ cmd.blk_sz \in Nat /\ cmd.blk_sz # 0
      /\ \A j \in 1..L : cmd.cells[Header(cmd, j)] =
           [type |-> cmd.plan[j].type, chunk_sz |-> cmd.plan[j].n,
            total_sz |-> PlanWords(cmd, cmd.plan[j])]
  BY <1>2, Encoded
<1>5. /\ Chunk \in 0..L /\ Image = Header(cmd, i) /\ TotalBlocks = B[Chunk]
  BY <1>1 DEF StoredInv, AtChunk
<1> HIDE DEF B, W, L
<1>6. Chunk \in Nat /\ i \in 1..L /\ i - 1 = Chunk /\ i \in 0..L /\ L \in 0..L /\ i <= L
  BY <1>1, <1>3, <1>4, <1>5
<1>7. B[i] = TotalBlocks + e.n /\ W[i] = W[Chunk] + words /\ W[Chunk] \in Nat
  BY <1>3, <1>5, <1>6
<1>8. /\ e.type \in {"RAW", "FILL", "DONT_CARE"} /\ e.n \in Nat /\ 1 <= e.n
      /\ words \in Nat /\ 1 <= words
  BY <1>3, <1>6
<1>9. ChunkHeader = [type |-> e.type, chunk_sz |-> e.n, total_sz |-> words]
  BY <1>4, <1>5, <1>6 DEF ChunkHeader
<1>10. /\ B[Chunk] \in Nat /\ B[i] \in Nat /\ B[L] \in Nat /\ B[i] <= B[L]
       /\ W[i] \in Nat /\ W[L] \in Nat /\ W[i] <= W[L]
  BY <1>3, <1>5, <1>6
<1>11. Image = 1 + W[Chunk] /\ Header(cmd, Chunk + 2) = 1 + W[i]
  <2>1. (Chunk + 2) - 1 = i
    BY <1>6
  <2>2. QED
    BY <1>5, <1>6, <2>1 DEF Header, W
<1> HIDE DEF e, i, words
<1>12. /\ Image \in Nat /\ Header(cmd, Chunk + 2) = Image + words
       /\ Image + words <= cmd.sz
  BY <1>4, <1>7, <1>8, <1>10, <1>11
<1>13. B[i] <= MAX_UINT32 /\ B[i] * cmd.blk_sz <= PartSize
  <2>1. B[i] * cmd.blk_sz <= B[L] * cmd.blk_sz /\ B[i] * cmd.blk_sz \in Nat
        /\ B[L] * cmd.blk_sz \in Nat
    BY <1>4, <1>10, ProductGrows
  <2>2. QED
    BY <1>4, <1>10, <2>1, Numbers
<1>14. /\ ChunkDataSz = cmd.blk_sz * e.n /\ ChunkDataSz = e.n * cmd.blk_sz
       /\ ChunkDataSz \in Nat /\ TotalBlocks * cmd.blk_sz \in Nat
       /\ TotalBlocks * cmd.blk_sz + ChunkDataSz = B[i] * cmd.blk_sz
  <2>1. ChunkDataSz = cmd.blk_sz * e.n
    BY <1>9 DEF ChunkDataSz
  <2>2. B[i] * cmd.blk_sz = TotalBlocks * cmd.blk_sz + e.n * cmd.blk_sz
    BY <1>4, <1>5, <1>7, <1>8, <1>10
  <2>3. cmd.blk_sz * e.n = e.n * cmd.blk_sz /\ e.n * cmd.blk_sz \in Nat
        /\ TotalBlocks * cmd.blk_sz \in Nat
    BY <1>4, <1>5, <1>8, <1>10, ProductType
  <2>4. QED
    BY <2>1, <2>2, <2>3
<1>15. ChunkReadable
  <2>1. 1 <= e.n * cmd.blk_sz
    <3>1. 1 * cmd.blk_sz <= e.n * cmd.blk_sz
      BY <1>4, <1>8, ProductGrows
    <3>2. QED
      BY <1>4, <1>14, <3>1
  <2>2. TotalBlocks * cmd.blk_sz < PartSize
    BY <1>13, <1>14, <2>1, Numbers
  <2>3. cmd.sz \in Nat /\ Image + 1 <= cmd.sz
    BY <1>4, <1>8, <1>10, <1>12
  <2>4. QED
    BY <1>4, <2>2, <2>3 DEF ChunkReadable, HeaderInImage
<1>16. ChunkFits
  <2> DEFINE x == B[i] * cmd.blk_sz
             N == Wrap * Wrap
  <2>1. x \in Nat /\ x <= PartSize /\ N \in Nat /\ x < N
    BY <1>4, <1>10, <1>13, SizeAssumption, Numbers, ProductType
  <2>2. x = TotalBlocks * cmd.blk_sz + ChunkDataSz
    BY <1>14
  <2> HIDE DEF x, N
  <2>3. x % N = x
    BY <2>1
  <2>4. (TotalBlocks * cmd.blk_sz + ChunkDataSz) % N <= PartSize
    BY <2>1, <2>2, <2>3
  <2>5. QED
    BY <2>4 DEF ChunkFits, N
<1>17. ChunkAccepted
  <2>1. TotalBlocks <= MAX_UINT32 - e.n
    BY <1>5, <1>7, <1>8, <1>10, <1>13, Numbers
  <2>2. words = CASE e.type = "RAW" -> 1 + e.n * cmd.blk_sz
                  [] e.type = "FILL" -> 2
                  [] e.type = "DONT_CARE" -> 1
    BY DEF words, PlanWords
  <2>3. CASE e.type = "RAW"
    <3>1. words = 1 + ChunkDataSz
      BY <1>14, <2>2, <2>3
    <3>2. Image + 1 + ChunkDataSz <= cmd.sz
      BY <1>12, <1>14, <3>1
    <3>3. QED
      BY <1>9, <1>16, <2>3, <3>1, <3>2 DEF ChunkAccepted
  <2>4. CASE e.type = "FILL"
    BY <1>9, <1>12, <1>16, <2>2, <2>4 DEF ChunkAccepted
  <2>5. CASE e.type = "DONT_CARE"
    BY <1>9, <1>16, <2>1, <2>5 DEF ChunkAccepted
  <2>6. QED
    BY <1>8, <2>3, <2>4, <2>5
<1>18. QED
  BY <1>2, <1>4, <1>5, <1>6, <1>7, <1>8, <1>9, <1>10, <1>12, <1>13, <1>15, <1>17
     DEF B, L, i, e, words

\* A write of the k blocks at TotalBlocks of a well-formed image.
LEMMA BlocksLand ==
  ASSUME ImageInv, pc \in {"chunk", "fill"}, cmd \in SparseImage, WellFormed(cmd),
         disk = UpTo(cmd, TotalBlocks), NEW k \in Nat, NEW src \in Nat,
         NEW fill \in BOOLEAN, k * cmd.blk_sz <= MAX_UINT32,
         Brings(cmd, TotalBlocks, k, src, fill),
         NEW r \in WriteBlockToPartition(disk[cmd.part],
                     TotalBlocks * BlockCountFactor, k * cmd.blk_sz, src, fill),
         disk' = [disk EXCEPT ![cmd.part] = r.words]
  PROVE  /\ r.ok => disk' = UpTo(cmd, TotalBlocks + k)
         /\ Partly(cmd, disk')
<1> DEFINE off == TotalBlocks * BlockCountFactor
           d == disk[cmd.part]
           Size == k * cmd.blk_sz
<1>1. /\ off \in Nat /\ off * BlockSize = TotalBlocks * cmd.blk_sz
      /\ TotalBlocks \in Nat /\ cmd.part \in Parts /\ d \in Words
  BY Places, Before, SparseType
<1>2. /\ r \in WriteBlockToPartition(d, off, Size, src, fill)
      /\ Size \in Nat /\ Size <= MAX_UINT32
  BY SparseType, ProductType
<1> HIDE DEF off, d, Size
<1>3. PICK m \in 0..Size : /\ r.words = Put(d, off * BlockSize, m, src, fill)
                           /\ r.ok => m = Size
  BY <1>1, <1>2, WriteLands
<1>4. m \in Nat /\ m <= k * cmd.blk_sz
  BY <1>2 DEF Size
<1>5. disk' = Behind(cmd, TotalBlocks, m, src, fill)
  BY <1>1, <1>3 DEF d, Behind
<1>6. /\ m = k * cmd.blk_sz =>
           Behind(cmd, TotalBlocks, m, src, fill) = UpTo(cmd, TotalBlocks + k)
      /\ Partly(cmd, Behind(cmd, TotalBlocks, m, src, fill))
  BY <1>1, <1>4, ImageLands
<1>7. QED
  BY <1>3, <1>5, <1>6 DEF Size

LEMMA ChunkRawStored ==
  ASSUME ImageInv, StoredInv, ChunkRaw
  PROVE  StoredInv'
<1> DEFINE i == Chunk + 1
           e == cmd.plan[i]
<1>1. /\ MoreChunks /\ ChunkReadable /\ ChunkAccepted /\ cmd' = cmd
      /\ pc = "chunk" /\ ChunkHeader.type = "RAW"
  BY DEF ChunkRaw, MoreChunks
<1>2. cmd \in Commands /\ cmd.fmt = "sparse" /\ cmd \in SparseImage
  BY <1>1, CommandType DEF ImageInv
<1>3. PICK r \in WriteBlockToPartition(disk[cmd.part], TotalBlocks * BlockCountFactor,
                                       ChunkDataSz, Image + 1, FALSE) :
        /\ disk' = [disk EXCEPT ![cmd.part] = r.words]
        /\ fault' = (fault \/ ~r.ok)
        /\ IF r.ok
           THEN IF TotalBlocks > MAX_UINT32 - ChunkHeader.chunk_sz
                THEN Answer("FAIL") /\ UNCHANGED counters
                ELSE /\ TotalBlocks' = TotalBlocks + ChunkHeader.chunk_sz
                     /\ Image' = Image + 1 + ChunkDataSz
                     /\ NextChunk
           ELSE Answer("FAIL") /\ UNCHANGED counters
  BY DEF ChunkRaw, Write
<1>4. reply = "none"
  BY <1>1 DEF StoredInv
<1>5. CASE ~WellFormed(cmd)
  <2>1. Answer("FAIL") \/ NextChunk
    BY <1>3
  <2>2. CASE Answer("FAIL")
    BY <1>1, <1>5, <2>2, StoredAnswered
  <2>3. CASE NextChunk
    BY <1>1, <1>2, <1>4, <1>5, <2>3, StoredOn DEF NextChunk
  <2>4. QED BY <2>1, <2>2, <2>3
<1>6. CASE WellFormed(cmd)
  <2>1. /\ cmd.blk_sz \in Nat /\ Chunk \in Nat /\ i \in 1..Len(cmd.plan)
        /\ ChunkHeader.type = e.type /\ ChunkHeader.chunk_sz = e.n
        /\ ChunkHeader.total_sz = PlanWords(cmd, e)
        /\ e.n \in Nat /\ 1 <= e.n
        /\ TotalBlocks \in Nat /\ TotalBlocks = BlocksTo(cmd)[Chunk]
        /\ TotalBlocks + e.n = BlocksTo(cmd)[i]
        /\ BlocksTo(cmd)[i] <= MAX_UINT32
        /\ Image \in Nat /\ Image = Header(cmd, i)
        /\ Header(cmd, Chunk + 2) = Image + PlanWords(cmd, e)
    BY <1>1, <1>6, GoodChunk
  <2>2. e.type = "RAW" /\ PlanWords(cmd, e) = 1 + e.n * cmd.blk_sz
    BY <1>1, <2>1 DEF PlanWords
  <2>3. /\ ChunkDataSz = e.n * cmd.blk_sz /\ ChunkDataSz \in Nat
        /\ ChunkDataSz <= MAX_UINT32
    <3>1. ChunkDataSz = e.n * cmd.blk_sz
      BY <2>1 DEF ChunkDataSz
    <3>2. ChunkDataSz \in Nat
      BY <2>1, <3>1, ProductType
    <3>3. 1 + ChunkDataSz <= MAX_UINT32
      BY <1>1, <2>1, <2>2, <3>1, HeaderType, Numbers
    <3>4. QED
      BY <3>1, <3>2, <3>3, Numbers
  <2>4. disk = UpTo(cmd, TotalBlocks) /\ cmd.part \in Parts
    BY <1>1, <1>2, <1>6, Encoded DEF StoredInv
  <2>7. Brings(cmd, TotalBlocks, e.n, Image + 1, FALSE)
    <3>1. i - 1 = Chunk
      BY <2>1
    <3> HIDE DEF i
    <3>2. SUFFICES ASSUME NEW w \in Nat, BlocksTo(cmd)[i - 1] * cmd.blk_sz <= w,
                          w < BlocksTo(cmd)[i] * cmd.blk_sz
                   PROVE  Expanded(cmd, w, Old) =
                            (Image + 1) + (w - BlocksTo(cmd)[i - 1] * cmd.blk_sz)
      BY <2>1, <3>1 DEF Brings
    <3>3. Expanded(cmd, w, Old) =
            Header(cmd, i) + 1 + (w - BlocksTo(cmd)[i - 1] * cmd.blk_sz)
      BY <1>2, <1>6, <2>1, <2>2, <3>2, ExpandedIn DEF i
    <3>4. QED
      BY <2>1, <3>3
  <2>8. /\ r.ok => disk' = UpTo(cmd, TotalBlocks + e.n)
        /\ Partly(cmd, disk')
    <3>1. /\ e.n \in Nat /\ Image + 1 \in Nat /\ FALSE \in BOOLEAN
          /\ e.n * cmd.blk_sz <= MAX_UINT32
      BY <2>1, <2>3
    <3>2. r \in WriteBlockToPartition(disk[cmd.part],
                  TotalBlocks * BlockCountFactor, e.n * cmd.blk_sz, Image + 1, FALSE)
      BY <2>3
    <3>3. pc \in {"chunk", "fill"} /\ disk' = [disk EXCEPT ![cmd.part] = r.words]
      BY <1>1, <1>3
    <3> HIDE DEF e
    <3>4. QED
      BY <1>2, <1>6, <2>4, <2>7, <3>1, <3>2, <3>3, BlocksLand
  <2>9. CASE r.ok
    <3>1. ~(TotalBlocks > MAX_UINT32 - ChunkHeader.chunk_sz)
      BY <2>1, Numbers
    <3>2. /\ TotalBlocks' = TotalBlocks + e.n /\ Image' = Image + 1 + ChunkDataSz
          /\ NextChunk
      BY <1>3, <2>1, <2>9, <3>1
    <3>3. disk' = UpTo(cmd, TotalBlocks')
      BY <2>8, <2>9, <3>2
    <3>4. AtChunk'
      <4>1. Chunk' = i /\ Image' = Header(cmd, Chunk + 2)
            /\ TotalBlocks' = BlocksTo(cmd)[i]
        BY <2>1, <2>2, <2>3, <3>2 DEF NextChunk
      <4>2. i + 1 = Chunk + 2 /\ i \in 0..Len(cmd.plan)
        BY <2>1
      <4>3. QED
        BY <1>1, <4>1, <4>2 DEF AtChunk
    <3>5. QED
      BY <1>1, <1>2, <1>4, <3>2, <3>3, <3>4, StoredOn DEF NextChunk
  <2>10. CASE ~r.ok
    <3>1. Answer("FAIL") /\ fault'
      BY <1>3, <2>10
    <3>2. QED
      BY <1>1, <2>8, <3>1, StoredAnswered DEF Partly
  <2>11. QED BY <2>9, <2>10
<1>7. QED BY <1>5, <1>6

LEMMA ChunkRefusedStored ==
  ASSUME ImageInv, StoredInv, ChunkRefused
  PROVE  StoredInv'
<1>1. ~WellFormed(cmd)
  BY GoodChunk DEF ChunkRefused
<1>2. cmd' = cmd /\ Answer("FAIL")
  BY DEF ChunkRefused
<1>3. QED
  BY <1>1, <1>2, StoredAnswered

LEMMA ChunkSkippedStored ==
  ASSUME ImageInv, StoredInv, ChunkSkipped
  PROVE  StoredInv'
<1> DEFINE i == Chunk + 1
           e == cmd.plan[i]
<1>1. /\ MoreChunks /\ cmd' = cmd /\ pc = "chunk" /\ disk' = disk
      /\ ChunkHeader.type \in {"DONT_CARE", "CRC"} /\ NextChunk
      /\ TotalBlocks' = TotalBlocks + ChunkHeader.chunk_sz
      /\ ChunkHeader.type # "CRC" => Image' = Image + 1
  BY DEF ChunkSkipped, MoreChunks
<1>2. cmd \in Commands /\ cmd.fmt = "sparse" /\ cmd \in SparseImage
  BY <1>1, CommandType DEF ImageInv
<1>3. pc' = "chunk" /\ reply' = "none"
  BY <1>1 DEF StoredInv, NextChunk
<1>4. CASE ~WellFormed(cmd)
  BY <1>1, <1>2, <1>3, <1>4, StoredOn
<1>5. CASE WellFormed(cmd)
  <2>1. /\ cmd.blk_sz \in Nat /\ Chunk \in Nat /\ i \in 1..Len(cmd.plan)
        /\ ChunkHeader.type = e.type /\ ChunkHeader.chunk_sz = e.n
        /\ e.type \in {"RAW", "FILL", "DONT_CARE"} /\ e.n \in Nat
        /\ TotalBlocks \in Nat /\ TotalBlocks = BlocksTo(cmd)[Chunk]
        /\ TotalBlocks + e.n = BlocksTo(cmd)[i]
        /\ Image \in Nat /\ Image = Header(cmd, i)
        /\ Header(cmd, Chunk + 2) = Image + PlanWords(cmd, e)
    BY <1>1, <1>5, GoodChunk
  <2>2. e.type = "DONT_CARE" /\ PlanWords(cmd, e) = 1
    BY <1>1, <2>1 DEF PlanWords
  <2>3. i - 1 = Chunk
    BY <2>1
  <2>4. /\ TotalBlocks' = BlocksTo(cmd)[i] /\ Image' = Header(cmd, Chunk + 2)
        /\ Chunk' = i
    BY <1>1, <2>1, <2>2 DEF NextChunk
  <2>5. UpTo(cmd, TotalBlocks') = UpTo(cmd, TotalBlocks)
    <3> HIDE DEF i, e
    <3>1. ASSUME NEW w \in 0..(PartSize - 1)
          PROVE  (IF w < TotalBlocks' * cmd.blk_sz THEN Expanded(cmd, w, Old) ELSE Old)
                 = IF w < TotalBlocks * cmd.blk_sz THEN Expanded(cmd, w, Old) ELSE Old
      <4>1. w \in Nat
        BY Numbers
      <4>2. CASE w < BlocksTo(cmd)[i - 1] * cmd.blk_sz
        <5>1. TotalBlocks <= TotalBlocks' /\ TotalBlocks' \in Nat
          BY <2>1, <2>4
        <5>2. TotalBlocks * cmd.blk_sz <= TotalBlocks' * cmd.blk_sz
              /\ TotalBlocks * cmd.blk_sz \in Nat /\ TotalBlocks' * cmd.blk_sz \in Nat
          BY <2>1, <5>1, ProductGrows
        <5>3. w < TotalBlocks * cmd.blk_sz
          BY <2>1, <2>3, <4>2
        <5>4. w < TotalBlocks' * cmd.blk_sz
          BY <4>1, <5>2, <5>3
        <5>5. QED
          BY <5>3, <5>4
      <4>3. CASE ~(w < BlocksTo(cmd)[i - 1] * cmd.blk_sz)
        <5>1. CASE w < BlocksTo(cmd)[i] * cmd.blk_sz
          <6>1. BlocksTo(cmd)[i - 1] * cmd.blk_sz \in Nat
            BY <2>1, <2>3, ProductType
          <6>2. BlocksTo(cmd)[i - 1] * cmd.blk_sz <= w
            BY <4>1, <4>3, <6>1
          <6>3. Expanded(cmd, w, Old) = Old
            BY <1>2, <1>5, <2>1, <2>2, <4>1, <5>1, <6>2, ExpandedIn DEF e
          <6>4. QED
            BY <6>3
        <5>2. CASE ~(w < BlocksTo(cmd)[i] * cmd.blk_sz)
          BY <2>1, <2>3, <2>4, <4>3, <5>2
        <5>3. QED BY <5>1, <5>2
      <4>4. QED BY <4>2, <4>3
    <3>2. QED
      BY <3>1 DEF UpTo
  <2>6. AtChunk'
    <3>1. i + 1 = Chunk + 2 /\ i \in 0..Len(cmd.plan)
      BY <2>1
    <3>2. QED
      BY <1>1, <2>4, <3>1 DEF AtChunk
  <2>7. disk' = UpTo(cmd, TotalBlocks')
    BY <1>1, <1>5, <2>5 DEF StoredInv
  <2>8. QED
    BY <1>1, <1>2, <1>3, <2>6, <2>7, StoredOn
<1>6. QED BY <1>4, <1>5

LEMMA ChunkFillStored ==
  ASSUME ImageInv, StoredInv, ChunkFill
  PROVE  StoredInv'
<1> DEFINE i == Chunk + 1
           e == cmd.plan[i]
<1>1. /\ MoreChunks /\ cmd' = cmd /\ pc = "chunk" /\ disk' = disk
      /\ ChunkHeader.type = "FILL"
      /\ \/ /\ pc' = "fill" /\ Temp' = 0 /\ Image' = Image + 2
            /\ UNCHANGED <<reply, Chunk, TotalBlocks>>
         \/ fault' = TRUE /\ Answer("FAIL")
  BY DEF ChunkFill, MoreChunks
<1>2. cmd \in Commands /\ cmd.fmt = "sparse" /\ cmd \in SparseImage
      /\ reply = "none" /\ (WellFormed(cmd) => disk = UpTo(cmd, TotalBlocks))
  BY <1>1, CommandType DEF ImageInv, StoredInv
<1>3. CASE fault' = TRUE /\ Answer("FAIL")
  <2>1. WellFormed(cmd) => \A p \in Parts : \A w \in 0..(PartSize - 1) :
                             disk'[p][w] \in {Old, Stored(cmd, p, w)}
    BY <1>1, <1>2, UpToStored
  <2>2. QED
    BY <1>1, <1>3, <2>1, StoredAnswered
<1>4. CASE /\ pc' = "fill" /\ Temp' = 0 /\ Image' = Image + 2
           /\ UNCHANGED <<reply, Chunk, TotalBlocks>>
  <2>1. ASSUME WellFormed(cmd) PROVE AtBlock'
    <3>1. /\ Chunk \in Nat /\ i \in 1..Len(cmd.plan) /\ e.type = "FILL"
          /\ e.n \in Nat /\ TotalBlocks \in Nat
          /\ TotalBlocks = BlocksTo(cmd)[Chunk] /\ Image = Header(cmd, i)
      BY <1>1, <2>1, GoodChunk
    <3>2. i \in DOMAIN cmd.plan
      BY <1>2, <3>1, PlanGrows
    <3>3. Temp' <= e.n /\ TotalBlocks' = BlocksTo(cmd)[Chunk] + Temp'
      BY <1>4, <3>1
    <3>4. QED
      BY <1>1, <1>4, <3>1, <3>2, <3>3 DEF AtBlock
  <2>2. pc' \in {"chunk", "fill"} /\ pc' # "chunk" /\ reply' = "none"
    BY <1>2, <1>4
  <2>3. WellFormed(cmd) => disk' = UpTo(cmd, TotalBlocks')
    BY <1>1, <1>2, <1>4
  <2>4. QED
    BY <1>1, <1>2, <2>1, <2>2, <2>3, StoredOn
<1>5. QED BY <1>1, <1>3, <1>4

\* What the loop of HandleChunkTypeFill finds in such an image.
LEMMA GoodFill ==
  ASSUME ImageInv, StoredInv, pc = "fill", WellFormed(cmd)
  PROVE  /\ cmd \in SparseImage /\ cmd.blk_sz \in Nat
         /\ Chunk \in Nat /\ Chunk + 1 \in 1..Len(cmd.plan)
         /\ cmd.plan[Chunk + 1].type = "FILL" /\ cmd.plan[Chunk + 1].n \in Nat
         /\ FillHeader.chunk_sz = cmd.plan[Chunk + 1].n
         /\ BlocksTo(cmd)[Chunk] \in Nat /\ BlocksTo(cmd)[Chunk + 1] \in Nat
         /\ BlocksTo(cmd)[Chunk + 1] =
              BlocksTo(cmd)[Chunk] + cmd.plan[Chunk + 1].n
         /\ BlocksTo(cmd)[Chunk + 1] <= MAX_UINT32
         /\ BlocksTo(cmd)[Chunk + 1] * cmd.blk_sz <= PartSize
         /\ Temp \in Nat /\ Temp <= cmd.plan[Chunk + 1].n
         /\ TotalBlocks \in Nat /\ TotalBlocks = BlocksTo(cmd)[Chunk] + Temp
         /\ Header(cmd, Chunk + 1) \in Nat
         /\ Image = Header(cmd, Chunk + 1) + 2 /\ Image = Header(cmd, Chunk + 2)
<1> DEFINE L == Len(cmd.plan)
           i == Chunk + 1
           B == BlocksTo(cmd)
           W == WordsTo(cmd)
           e == cmd.plan[i]
<1>1. cmd \in SparseImage /\ cmd \in Commands
  BY CommandType DEF ImageInv
<1>2. /\ L \in Nat /\ DOMAIN cmd.plan = 1..L /\ B \in [0..L -> Nat]
      /\ W \in [0..L -> Nat]
      /\ \A j \in 1..L : B[j] = B[j - 1] + cmd.plan[j].n
      /\ \A j \in 1..L : W[j] = W[j - 1] + PlanWords(cmd, cmd.plan[j])
      /\ \A j \in 1..L : cmd.plan[j].n \in Nat
      /\ \A j, k \in 0..L : j <= k => B[j] <= B[k]
  BY <1>1, PlanGrows
<1>3. /\ B[L] <= MAX_UINT32 /\ B[L] * cmd.blk_sz <= PartSize /\ cmd.blk_sz \in Nat
      /\ \A j \in 1..L : cmd.cells[Header(cmd, j)] =
           [type |-> cmd.plan[j].type, chunk_sz |-> cmd.plan[j].n,
            total_sz |-> PlanWords(cmd, cmd.plan[j])]
  BY <1>1, Encoded
<1>4. /\ i \in DOMAIN cmd.plan /\ e.type = "FILL" /\ Temp <= e.n
      /\ Image = Header(cmd, i) + 2 /\ TotalBlocks = B[Chunk] + Temp
  BY DEF StoredInv, AtBlock
<1>5. Chunk \in Nat /\ Temp \in Nat
  BY Numbers DEF ImageInv, TypeOK
<1> HIDE DEF B, W, L
<1>6. /\ i \in 1..L /\ i - 1 = Chunk /\ i \in 0..L /\ Chunk \in 0..L /\ L \in 0..L
      /\ i <= L
  BY <1>2, <1>4, <1>5
<1>7. /\ B[i] = B[Chunk] + e.n /\ e.n \in Nat /\ W[i] = W[Chunk] + PlanWords(cmd, e)
      /\ B[Chunk] \in Nat /\ B[i] \in Nat /\ B[L] \in Nat /\ B[i] <= B[L]
      /\ W[Chunk] \in Nat
  BY <1>2, <1>6
<1>8. PlanWords(cmd, e) = 2
  BY <1>4 DEF PlanWords
<1>9. Header(cmd, i) = 1 + W[Chunk] /\ Header(cmd, Chunk + 2) = 1 + W[i]
  <2>1. (Chunk + 2) - 1 = i
    BY <1>5
  <2>2. QED
    BY <1>6, <2>1 DEF Header, W
<1>10. cmd.cells[Header(cmd, i)].chunk_sz = e.n
  <2> DEFINE h(j) == [type |-> cmd.plan[j].type, chunk_sz |-> cmd.plan[j].n,
                      total_sz |-> PlanWords(cmd, cmd.plan[j])]
  <2>1. h(i).chunk_sz = e.n
    OBVIOUS
  <2> HIDE DEF h
  <2>2. cmd.cells[Header(cmd, i)] = h(i)
    BY <1>3, <1>6 DEF h
  <2>3. QED
    BY <2>1, <2>2
<1> HIDE DEF e, i
<1>11. /\ Header(cmd, i) \in Nat /\ Image = Header(cmd, Chunk + 2)
       /\ Image - 2 = Header(cmd, i)
  BY <1>4, <1>7, <1>8, <1>9
<1>12. B[i] <= MAX_UINT32 /\ B[i] * cmd.blk_sz <= PartSize
  <2>1. B[i] * cmd.blk_sz <= B[L] * cmd.blk_sz /\ B[i] * cmd.blk_sz \in Nat
        /\ B[L] * cmd.blk_sz \in Nat
    BY <1>3, <1>7, ProductGrows
  <2>2. QED
    BY <1>3, <1>7, <2>1, Numbers
<1>13. FillHeader.chunk_sz = e.n
  BY <1>10, <1>11 DEF FillHeader
<1>14. TotalBlocks \in Nat
  BY <1>4, <1>5, <1>7
<1>15. QED
  BY <1>1, <1>3, <1>4, <1>5, <1>6, <1>7, <1>11, <1>12, <1>13, <1>14 DEF B, L, i, e

LEMMA FillBlockStored ==
  ASSUME ImageInv, StoredInv, FillBlock
  PROVE  StoredInv'
<1> DEFINE i == Chunk + 1
           e == cmd.plan[i]
<1>1. /\ pc = "fill" /\ Temp < FillHeader.chunk_sz /\ cmd' = cmd
      /\ pc \in {"chunk", "fill"}
  BY DEF FillBlock
<1>2. cmd \in Commands /\ cmd.fmt = "sparse" /\ cmd \in SparseImage
      /\ reply = "none"
  BY <1>1, CommandType DEF ImageInv, StoredInv
<1>3. CASE ~WellFormed(cmd)
  <2>1. Answer("FAIL") \/ UNCHANGED <<pc, reply>>
    BY DEF FillBlock, Write
  <2>2. CASE Answer("FAIL")
    BY <1>1, <1>3, <2>2, StoredAnswered
  <2>3. CASE UNCHANGED <<pc, reply>>
    <3>1. pc' \in {"chunk", "fill"} /\ reply' = "none"
      BY <1>1, <1>2, <2>3
    <3>2. QED
      BY <1>1, <1>2, <1>3, <3>1, StoredOn
  <2>4. QED BY <2>1, <2>2, <2>3
<1>4. CASE WellFormed(cmd)
  <2>1. /\ cmd.blk_sz \in Nat /\ Chunk \in Nat /\ i \in 1..Len(cmd.plan)
        /\ e.type = "FILL" /\ e.n \in Nat /\ FillHeader.chunk_sz = e.n
        /\ BlocksTo(cmd)[Chunk] \in Nat /\ BlocksTo(cmd)[i] \in Nat
        /\ BlocksTo(cmd)[i] = BlocksTo(cmd)[Chunk] + e.n
        /\ BlocksTo(cmd)[i] <= MAX_UINT32
        /\ Temp \in Nat /\ Temp < e.n
        /\ TotalBlocks \in Nat /\ TotalBlocks = BlocksTo(cmd)[Chunk] + Temp
        /\ Header(cmd, i) \in Nat /\ Image = Header(cmd, i) + 2
    BY <1>1, <1>4, GoodFill
  <2>2. /\ disk = UpTo(cmd, TotalBlocks)
        /\ BlocksTo(cmd)[i] * cmd.blk_sz <= PartSize
    BY <1>1, <1>4, GoodFill DEF StoredInv
  <2>3. i - 1 = Chunk
    BY <2>1
  <2> HIDE DEF i, e
  <2>4. /\ TotalBlocks + 1 <= BlocksTo(cmd)[i] /\ TotalBlocks + 1 \in Nat
        /\ Temp + 1 <= e.n /\ TotalBlocks + 1 = BlocksTo(cmd)[Chunk] + (Temp + 1)
    <3> DEFINE b == BlocksTo(cmd)[Chunk]
               n == e.n
    <3>1. /\ b \in Nat /\ n \in Nat /\ Temp \in Nat /\ Temp < n
          /\ TotalBlocks = b + Temp /\ BlocksTo(cmd)[i] = b + n
      BY <2>1
    <3> HIDE DEF b, n
    <3>2. TotalBlocks + 1 <= b + n /\ TotalBlocks + 1 \in Nat /\ Temp + 1 <= n
          /\ TotalBlocks + 1 = b + (Temp + 1)
      BY <3>1
    <3>3. QED
      BY <3>1, <3>2 DEF b, n
  <2>5. /\ (TotalBlocks + 1) * cmd.blk_sz <= BlocksTo(cmd)[i] * cmd.blk_sz
        /\ (TotalBlocks + 1) * cmd.blk_sz \in Nat
        /\ BlocksTo(cmd)[i] * cmd.blk_sz \in Nat
    BY <2>1, <2>4, ProductGrows
  <2>6. /\ (TotalBlocks + 1) * cmd.blk_sz = TotalBlocks * cmd.blk_sz + cmd.blk_sz
        /\ TotalBlocks * cmd.blk_sz \in Nat /\ 1 * cmd.blk_sz = cmd.blk_sz
    BY <2>1, ProductNext
  <2>7. ~(TotalBlocks * cmd.blk_sz + cmd.blk_sz > PartSize)
    BY <2>1, <2>2, <2>5, <2>6, Numbers
  <2>8. PICK r \in WriteBlockToPartition(disk[cmd.part],
                     TotalBlocks * BlockCountFactor, cmd.blk_sz, Image - 1, TRUE) :
          /\ disk' = [disk EXCEPT ![cmd.part] = r.words]
          /\ fault' = (fault \/ ~r.ok)
          /\ IF r.ok
             THEN /\ TotalBlocks' = BlockAfter(TotalBlocks) /\ Temp' = Temp + 1
                  /\ UNCHANGED <<pc, reply, Image, Chunk>>
             ELSE Answer("FAIL") /\ UNCHANGED counters
    BY <2>7 DEF FillBlock, Write
  <2>9. Brings(cmd, TotalBlocks, 1, Image - 1, TRUE)
    <3>1. SUFFICES ASSUME NEW w \in Nat, TotalBlocks * cmd.blk_sz <= w,
                          w < (TotalBlocks + 1) * cmd.blk_sz
                   PROVE  Expanded(cmd, w, Old) = Image - 1
      BY DEF Brings
    <3>2. BlocksTo(cmd)[i - 1] <= TotalBlocks /\ BlocksTo(cmd)[i - 1] \in Nat
      BY <2>1, <2>3
    <3>3. BlocksTo(cmd)[i - 1] * cmd.blk_sz <= TotalBlocks * cmd.blk_sz
          /\ BlocksTo(cmd)[i - 1] * cmd.blk_sz \in Nat
      BY <2>1, <3>2, ProductGrows
    <3>4. BlocksTo(cmd)[i - 1] * cmd.blk_sz <= w /\ w < BlocksTo(cmd)[i] * cmd.blk_sz
      BY <2>5, <2>6, <3>1, <3>3
    <3>5. i \in 1..Len(cmd.plan) /\ cmd.plan[i].type = "FILL"
      BY <2>1 DEF e
    <3>6. Expanded(cmd, w, Old) = Header(cmd, i) + 1
      BY <1>2, <1>4, <3>1, <3>4, <3>5, ExpandedIn
    <3>7. QED
      BY <2>1, <3>6
  <2>10. /\ r.ok => disk' = UpTo(cmd, TotalBlocks + 1)
         /\ Partly(cmd, disk')
    <3>1. cmd.blk_sz <= MAX_UINT32
      BY <1>2, Numbers DEF SparseImage
    <3>2. 1 \in Nat /\ Image - 1 \in Nat /\ TRUE \in BOOLEAN
      BY <2>1
    <3>3. /\ r \in WriteBlockToPartition(disk[cmd.part],
                TotalBlocks * BlockCountFactor, 1 * cmd.blk_sz, Image - 1, TRUE)
          /\ disk' = [disk EXCEPT ![cmd.part] = r.words]
          /\ 1 * cmd.blk_sz <= MAX_UINT32
      BY <2>6, <2>8, <3>1
    <3>4. QED
      BY <1>1, <1>2, <1>4, <2>2, <2>9, <3>2, <3>3, BlocksLand
  <2>11. CASE r.ok
    <3>1. TotalBlocks' = TotalBlocks + 1
      <4>1. TotalBlocks + 1 < Wrap
        BY <2>1, <2>4, Numbers
      <4>2. (TotalBlocks + 1) % Wrap = TotalBlocks + 1
        BY <2>4, <4>1, Numbers
      <4>3. QED
        BY <2>8, <2>11, <4>2 DEF BlockAfter
    <3>2. /\ Temp' = Temp + 1 /\ pc' = "fill" /\ reply' = "none"
          /\ Image' = Image /\ Chunk' = Chunk
      BY <1>1, <1>2, <2>8, <2>11
    <3>3. AtBlock'
      <4>1. i \in DOMAIN cmd.plan
        BY <1>2, <2>1, PlanGrows
      <4>2. QED
        BY <1>1, <2>1, <2>4, <3>1, <3>2, <4>1 DEF AtBlock, i, e
    <3>4. QED
      BY <1>1, <1>2, <2>10, <2>11, <3>1, <3>2, <3>3, StoredOn
  <2>12. CASE ~r.ok
    <3>1. Answer("FAIL") /\ fault'
      BY <2>8, <2>12
    <3>2. QED
      BY <1>1, <2>10, <3>1, StoredAnswered DEF Partly
  <2>13. QED BY <2>11, <2>12
<1>5. QED BY <1>3, <1>4

LEMMA FillDoneStored ==
  ASSUME ImageInv, StoredInv, FillDone
  PROVE  StoredInv'
<1> DEFINE i == Chunk + 1
<1>1. /\ pc = "fill" /\ Temp = FillHeader.chunk_sz /\ NextChunk
      /\ UNCHANGED <<disk, cmd, Image, TotalBlocks>>
  BY DEF FillDone
<1>2. cmd \in Commands /\ cmd.fmt = "sparse"
      /\ pc' \in {"chunk", "fill"} /\ pc' # "fill" /\ reply' = "none"
  BY <1>1 DEF ImageInv, StoredInv, NextChunk
<1>3. ASSUME WellFormed(cmd) PROVE AtChunk'
  <2>1. /\ Chunk \in Nat /\ i \in 1..Len(cmd.plan) /\ Temp = cmd.plan[i].n
        /\ BlocksTo(cmd)[i] = BlocksTo(cmd)[Chunk] + cmd.plan[i].n
        /\ TotalBlocks = BlocksTo(cmd)[Chunk] + Temp
        /\ Image = Header(cmd, Chunk + 2)
    BY <1>1, <1>3, GoodFill
  <2>2. i + 1 = Chunk + 2 /\ i \in 0..Len(cmd.plan)
    BY <2>1
  <2>3. QED
    BY <1>1, <2>1, <2>2 DEF AtChunk, NextChunk
<1>4. WellFormed(cmd) => disk' = UpTo(cmd, TotalBlocks')
  BY <1>1 DEF StoredInv
<1>5. QED
  BY <1>1, <1>2, <1>3, <1>4, StoredOn

\* All blocks of a well-formed image are the whole image.
LEMMA SparseDoneStored ==
  ASSUME ImageInv, StoredInv, SparseDone
  PROVE  StoredInv'
<1> DEFINE L == Len(cmd.plan)
           n == BlocksTo(cmd)[L]
           good == IF TotalBlocks = cmd.total_blks THEN "OKAY" ELSE "FAIL"
<1>1. /\ pc = "chunk" /\ Chunk >= cmd.total_chunks /\ Answer(good)
      /\ cmd' = cmd /\ disk' = disk
  BY DEF SparseDone
<1>2. cmd \in SparseImage /\ cmd.fmt = "sparse"
  BY <1>1, CommandType DEF ImageInv
<1>3. ASSUME WellFormed(cmd)
      PROVE  /\ good = "OKAY"
             /\ \A p \in Parts : \A w \in 0..(PartSize - 1) :
                  disk'[p][w] = Stored(cmd, p, w)
  <2>1. /\ cmd.total_chunks = L /\ cmd.total_blks = n /\ cmd.blk_sz \in Nat
    BY <1>2, <1>3, Encoded
  <2>2. L \in Nat /\ BlocksTo(cmd) \in [0..L -> Nat]
    BY <1>2, PlanGrows
  <2>3. Chunk \in 0..L /\ TotalBlocks = BlocksTo(cmd)[Chunk]
        /\ disk = UpTo(cmd, TotalBlocks)
    BY <1>1, <1>3 DEF StoredInv, AtChunk
  <2>4. Chunk = L
    BY <1>1, <2>1, <2>2, <2>3
  <2>5. TotalBlocks = n /\ n \in Nat
    BY <2>2, <2>3, <2>4
  <2> HIDE DEF n
  <2>6. ASSUME NEW p \in Parts, NEW w \in 0..(PartSize - 1)
        PROVE  disk'[p][w] = Stored(cmd, p, w)
    <3>1. disk'[p][w] = IF p = cmd.part /\ w < n * cmd.blk_sz
                        THEN Expanded(cmd, w, Old) ELSE Old
      BY <1>1, <2>3, <2>5 DEF UpTo
    <3>2. Stored(cmd, p, w) = IF p = cmd.part THEN Expanded(cmd, w, Old) ELSE Old
      BY <1>2 DEF Stored
    <3>3. CASE w < n * cmd.blk_sz
      BY <3>1, <3>2, <3>3
    <3>4. CASE ~(w < n * cmd.blk_sz)
      <4>1. w \in Nat /\ n * cmd.blk_sz \in Nat
        BY <2>1, <2>5, Numbers, ProductType
      <4>2. n * cmd.blk_sz <= w
        BY <3>4, <4>1
      <4>3. Expanded(cmd, w, Old) = Old
        BY <1>2, <1>3, <4>1, <4>2, ExpandedBehind DEF n
      <4>4. QED
        BY <3>1, <3>2, <3>4, <4>3
    <3>5. QED BY <3>3, <3>4
  <2>7. good = "OKAY"
    BY <2>1, <2>5
  <2>8. QED
    BY <2>6, <2>7
<1>4. good \in {"OKAY", "FAIL"}
  OBVIOUS
<1> HIDE DEF good
<1>5. WellFormed(cmd) =>
           /\ good = "FAIL" /\ cmd.fmt # "meta" => fault'
           /\ \A p \in Parts : \A w \in 0..(PartSize - 1) :
                disk'[p][w] = Stored(cmd, p, w)
  BY <1>3
<1>6. QED
  BY <1>1, <1>4, <1>5, StoredAnswered

\* A well-formed image passes the checks of its header, and its first chunk
\* begins where the loop begins.
LEMMA FlashSparseStored ==
  ASSUME ImageInv, StoredInv, FlashSparse
  PROVE  StoredInv'
<1>1. /\ pc = "ready" /\ cmd.fmt = "sparse" /\ Image' = 1
      /\ UNCHANGED <<disk, cmd, Chunk, TotalBlocks>>
      /\ \/ SparseHeaderAccepted(cmd) /\ pc' = "chunk" /\ reply' = reply
         \/ ~SparseHeaderAccepted(cmd) /\ Answer("FAIL")
  BY DEF FlashSparse
<1>2. /\ cmd \in Commands /\ cmd \in SparseImage /\ reply = "none"
      /\ disk = Untouched /\ Chunk = 0 /\ TotalBlocks = 0
  BY <1>1, CommandType DEF ImageInv, StoredInv
<1>3. ASSUME WellFormed(cmd) PROVE SparseHeaderAccepted(cmd)
  <2>1. /\ cmd.part \in Parts /\ cmd.blk_sz # 0 /\ cmd.blk_sz % BlockSize = 0
        /\ cmd.file_hdr /\ cmd.sz = 1 + WordsTo(cmd)[Len(cmd.plan)]
        /\ cmd.total_blks * cmd.blk_sz <= PartSize
    BY <1>2, <1>3, Encoded
  <2>2. WordsTo(cmd)[Len(cmd.plan)] \in Nat
    BY <1>2, PlanGrows
  <2>3. cmd.sz >= 1
    BY <2>1, <2>2
  <2>4. QED
    BY <2>1, <2>3 DEF SparseHeaderAccepted, FitsPartition
<1>4. CASE ~SparseHeaderAccepted(cmd)
  <2>1. ~WellFormed(cmd) /\ Answer("FAIL")
    BY <1>1, <1>3, <1>4
  <2>2. QED
    BY <1>1, <2>1, StoredAnswered
<1>5. CASE SparseHeaderAccepted(cmd)
  <2>1. pc' = "chunk" /\ reply' = "none"
    BY <1>1, <1>2, <1>5
  <2>2. ASSUME WellFormed(cmd) PROVE AtChunk'
    <3>1. /\ 0 \in 0..Len(cmd.plan) /\ BlocksTo(cmd)[0] = 0 /\ WordsTo(cmd)[0] = 0
      BY <1>2, PlanGrows
    <3>2. Header(cmd, 0 + 1) = 1
      BY <3>1 DEF Header
    <3>3. QED
      BY <1>1, <1>2, <3>1, <3>2 DEF AtChunk
  <2>3. ASSUME WellFormed(cmd) PROVE disk' = UpTo(cmd, TotalBlocks')
    <3>1. 0 * cmd.blk_sz = 0
      BY <1>2, <2>3, Encoded
    <3>2. \A w \in 0..(PartSize - 1) : ~(w < 0)
      BY Numbers
    <3>3. UpTo(cmd, 0) = Untouched
      BY <3>1, <3>2 DEF UpTo, Untouched
    <3>4. QED
      BY <1>1, <1>2, <3>3
  <2>4. QED
    BY <1>1, <1>2, <2>1, <2>2, <2>3, StoredOn
<1>6. QED BY <1>4, <1>5

-----------------------------------------------------------------------------
(***************************************************************************)
(* Raw and meta images, and erasing                                        *)
(***************************************************************************)
\* The first m words of the buffer from src are on partition name.
Begun(name, src, m) ==
  \A p \in Parts : \A w \in 0..(PartSize - 1) :
    disk'[p][w] = IF p = name /\ w < m THEN src + w ELSE disk[p][w]

\* What a write to the start of a partition leaves on all of them.
LEMMA RawLands ==
  ASSUME ImageInv, NEW name \in Parts, NEW src \in Nat, NEW size \in Nat,
         size <= MAX_UINT32,
         NEW r \in WriteBlockToPartition(disk[name], 0, size, src, FALSE),
         disk' = [disk EXCEPT ![name] = r.words]
  PROVE  \E m \in 0..size : (r.ok => m = size) /\ Begun(name, src, m)
<1> DEFINE D == 0..(PartSize - 1)
           d == disk[name]
           off == 0
           fill == FALSE
<1>1. /\ disk \in [Parts -> Words] /\ d \in Words /\ off \in Nat
      /\ fill \in BOOLEAN
  BY Before
<1>2. r \in WriteBlockToPartition(d, off, size, src, fill)
  OBVIOUS
<1>3. DOMAIN d = D /\ off * BlockSize = 0
  BY <1>1, Numbers DEF Words
<1> HIDE DEF d, off, fill
<1>4. PICK m \in 0..size : /\ r.words = Put(d, off * BlockSize, m, src, fill)
                           /\ r.ok => m = size
  BY <1>1, <1>2, WriteLands
<1>5. m \in Nat
  OBVIOUS
<1>6. ASSUME NEW w \in D
      PROVE  r.words[w] = IF w < m THEN src + w ELSE d[w]
  <2>1. w \in Nat
    BY Numbers
  <2>2. r.words[w] = IF w \in 0..(0 + m - 1)
                     THEN IF FALSE THEN src ELSE src + (w - 0) ELSE d[w]
    BY <1>3, <1>4, <1>5 DEF Put, fill
  <2>3. w \in 0..(0 + m - 1) <=> w < m
    BY <1>5, <2>1
  <2>4. QED
    BY <2>1, <2>2, <2>3
<1>7. ASSUME NEW p \in Parts, NEW w \in D
      PROVE  disk'[p][w] = IF p = name /\ w < m THEN src + w ELSE disk[p][w]
  BY <1>1, <1>6 DEF d
<1>8. QED
  BY <1>4, <1>7 DEF Begun

LEMMA FlashRawStored ==
  ASSUME ImageInv, StoredInv, FlashRaw
  PROVE  StoredInv'
<1>1. cmd.fmt = "raw" /\ cmd' = cmd /\ pc = "ready"
  BY DEF FlashRaw
<1>2. cmd.sz \in Nat /\ cmd.sz <= MAX_UINT32
  BY <1>1, CommandType, Numbers DEF ImageInv, RawImage
<1>3. \A p \in Parts : \A w \in 0..(PartSize - 1) :
        /\ disk[p][w] = Old
        /\ Stored(cmd, p, w) = IF p = cmd.part /\ w < cmd.sz THEN w ELSE Old
  BY <1>1 DEF StoredInv, Untouched, Stored
<1>4. CASE cmd.part \in Parts /\ cmd.sz <= PartSize
  <2>1. PICK r \in WriteBlockToPartition(disk[cmd.part], 0, cmd.sz, 0, FALSE) :
          /\ disk' = [disk EXCEPT ![cmd.part] = r.words]
          /\ fault' = (fault \/ ~r.ok)
          /\ IF r.ok THEN Answer("OKAY") ELSE Answer("FAIL")
    BY <1>4 DEF FlashRaw, RawImgFlash, Write
  <2>2. PICK m \in 0..cmd.sz :
          /\ r.ok => m = cmd.sz
          /\ \A p \in Parts : \A w \in 0..(PartSize - 1) :
               disk'[p][w] = IF p = cmd.part /\ w < m THEN 0 + w ELSE disk[p][w]
    <3> DEFINE src == 0
               part == cmd.part
               sz == cmd.sz
    <3>1. /\ src \in Nat /\ part \in Parts /\ sz \in Nat /\ sz <= MAX_UINT32
          /\ r \in WriteBlockToPartition(disk[part], 0, sz, src, FALSE)
          /\ disk' = [disk EXCEPT ![part] = r.words]
      BY <1>2, <1>4, <2>1
    <3> HIDE DEF src, part, sz
    <3>2. \E m \in 0..sz : (r.ok => m = sz) /\ Begun(part, src, m)
      BY <3>1, RawLands
    <3>3. QED
      BY <3>2 DEF src, part, sz, Begun
  <2>3. ASSUME NEW p \in Parts, NEW w \in 0..(PartSize - 1)
        PROVE  /\ disk'[p][w] \in {Old, Stored(cmd, p, w)}
               /\ r.ok => disk'[p][w] = Stored(cmd, p, w)
    <3>1. disk'[p][w] = IF p = cmd.part /\ w < m THEN w ELSE Old
      <4>1. w \in Nat /\ 0 + w = w
        BY Numbers
      <4>2. QED
        BY <1>3, <2>2, <4>1
    <3>2. w < m => w < cmd.sz
      BY <1>2, Numbers
    <3>3. QED
      BY <1>3, <2>2, <3>1, <3>2
  <2>4. CASE r.ok
    <3>1. Answer("OKAY") /\ "OKAY" \in {"OKAY", "FAIL"}
      BY <2>1, <2>4
    <3>2. QED
      BY <1>1, <2>3, <2>4, <3>1, StoredAnswered
  <2>5. CASE ~r.ok
    <3>1. Answer("FAIL") /\ fault'
      BY <2>1, <2>5
    <3>2. QED
      BY <1>1, <2>3, <3>1, StoredAnswered
  <2>6. QED BY <2>4, <2>5
<1>5. CASE ~(cmd.part \in Parts /\ cmd.sz <= PartSize)
  <2>1. Answer("FAIL") /\ ~WellFormed(cmd)
    BY <1>1, <1>5 DEF FlashRaw, RawImgFlash, WellFormed
  <2>2. QED
    BY <1>1, <2>1, StoredAnswered
<1>6. QED BY <1>4, <1>5

LEMMA EraseStored ==
  ASSUME ImageInv, StoredInv, ErasePartition
  PROVE  StoredInv'
<1>1. cmd.fmt = "erase" /\ cmd' = cmd /\ pc = "ready"
  BY DEF ErasePartition
<1>2. disk = Untouched
  BY <1>1 DEF StoredInv
<1>3. \A p \in Parts : \A w \in 0..(PartSize - 1) :
        Stored(cmd, p, w) = IF p = cmd.part THEN Blank ELSE Old
  BY <1>1 DEF Stored
<1>4. CASE /\ cmd.part \in Parts /\ Answer("OKAY")
           /\ disk' = [disk EXCEPT ![cmd.part] = [w \in DOMAIN @ |-> Blank]]
  <2>1. \A p \in Parts : \A w \in 0..(PartSize - 1) :
          disk'[p][w] = Stored(cmd, p, w)
    BY <1>2, <1>3, <1>4 DEF Untouched
  <2>2. "OKAY" \in {"OKAY", "FAIL"} /\ Answer("OKAY")
    BY <1>4
  <2>3. QED
    BY <1>1, <2>1, <2>2, StoredAnswered
<1>5. ASSUME cmd.part \in Parts, fault' = TRUE, Answer("FAIL"),
             NEW k \in 0..(PartSize \div BlockSize),
             disk' = [disk EXCEPT ![cmd.part] = [w \in DOMAIN @ |->
                        IF w < k * BlockSize THEN Blank ELSE @[w]]]
      PROVE  StoredInv'
  <2>1. \A p \in Parts : \A w \in 0..(PartSize - 1) :
          disk'[p][w] \in {Old, Stored(cmd, p, w)}
    <3> DEFINE b == k * BlockSize
    <3>1. disk' = [disk EXCEPT ![cmd.part] = [w \in DOMAIN @ |->
                     IF w < b THEN Blank ELSE @[w]]]
      BY <1>5
    <3> HIDE DEF b
    <3>2. ASSUME NEW p \in Parts, NEW w \in 0..(PartSize - 1)
          PROVE  disk'[p][w] \in {Blank, Old} /\ (p # cmd.part => disk'[p][w] = Old)
      <4>1. disk[p] = [v \in 0..(PartSize - 1) |-> Old] /\ p \in DOMAIN disk
        BY <1>2 DEF Untouched
      <4>2. CASE p = cmd.part
        <5>1. disk'[p] = [v \in 0..(PartSize - 1) |->
                            IF v < b THEN Blank ELSE disk[p][v]]
          BY <3>1, <4>1, <4>2
        <5>2. disk'[p][w] = IF w < b THEN Blank ELSE disk[p][w]
          BY <5>1
        <5>3. QED
          BY <4>1, <4>2, <5>2
      <4>3. CASE p # cmd.part
        BY <3>1, <4>1, <4>3
      <4>4. QED BY <4>2, <4>3
    <3>3. QED
      BY <1>3, <3>2
  <2>2. QED
    BY <1>1, <1>5, <2>1, StoredAnswered
<1>6. CASE cmd.part \notin Parts /\ Answer("FAIL")
  <2>1. ~WellFormed(cmd)
    BY <1>1, <1>6 DEF WellFormed
  <2>2. QED
    BY <1>1, <1>6, <2>1, StoredAnswered
<1>7. QED
  BY <1>4, <1>5, <1>6 DEF ErasePartition

\* A step that stays in the list of a meta image.
LEMMA StoredEntry ==
  ASSUME cmd' = cmd, cmd.fmt = "meta", pc' = "meta", reply' = "none", AtEntry'
  PROVE  StoredInv'
<1>1. /\ \A i \in 1..Chunk' : i \in MetaList(cmd)
      /\ \A p \in Parts : \A w \in 0..(PartSize - 1) :
           \/ disk'[p][w] = Old
           \/ \E i \in 1..Chunk' : /\ cmd.entries[i].name = p
                                   /\ w < cmd.entries[i].size
                                   /\ disk'[p][w] = cmd.entries[i].start + w
  BY DEF AtEntry, Has
<1>2. OkayMeansStored'
  BY <1>1 DEF OkayMeansStored
<1>3. GoodImageAccepted'
  BY DEF GoodImageAccepted
<1>4. QED
  BY <1>2, <1>3 DEF StoredInv

LEMMA FlashMetaStored ==
  ASSUME ImageInv, StoredInv, FlashMeta
  PROVE  StoredInv'
<1>1. /\ cmd.fmt = "meta" /\ pc = "ready" /\ UNCHANGED <<disk, cmd>>
      /\ \/ pc' = "meta" /\ reply' = reply /\ Chunk' = Chunk
         \/ Answer("FAIL")
  BY DEF FlashMeta, counters
<1>2. reply = "none" /\ disk' = Untouched /\ Chunk = 0
  BY <1>1 DEF StoredInv
<1>3. \A p \in Parts : \A w \in 0..(PartSize - 1) : disk'[p][w] = Old
  BY <1>2 DEF Untouched
<1>4. CASE Answer("FAIL")
  BY <1>1, <1>3, <1>4, StoredAnswered
<1>5. CASE pc' = "meta" /\ reply' = reply /\ Chunk' = Chunk
  <2>1. \A i \in Nat : i \notin 1..Chunk'
    BY <1>2, <1>5
  <2>2. AtEntry'
    BY <1>2, <1>3, <1>5 DEF AtEntry
  <2>3. QED
    BY <1>1, <1>2, <1>5, <2>2, StoredEntry
<1>6. QED BY <1>1, <1>4, <1>5

LEMMA MetaEntryStored ==
  ASSUME ImageInv, StoredInv, MetaEntry
  PROVE  StoredInv'
<1> DEFINE n == Chunk + 1
<1>1. pc = "meta" /\ ~MetaEnds /\ cmd' = cmd
  BY DEF MetaEntry
<1>2. /\ cmd.fmt = "meta" /\ Len(cmd.entries) \in Nat /\ Chunk \in Nat
      /\ cmd \in MetaImage /\ reply = "none" /\ AtEntry
  BY <1>1, MetaType, Before, Numbers, CommandType DEF ImageInv, StoredInv
<1>3. /\ Chunk < Len(cmd.entries) /\ Entry = cmd.entries[n]
      /\ Entry.start # 0 /\ Entry.size # 0
  BY <1>1 DEF MetaEnds, Entry
<1>4. /\ n \in 1..Len(cmd.entries) /\ DOMAIN cmd.entries = 1..Len(cmd.entries)
      /\ n \in Nat /\ 1 <= n
  BY <1>2, <1>3 DEF MetaImage
<1>5. Entry.start \in Nat /\ Entry.size \in Nat
  BY <1>2, <1>3, <1>4, MetaType
<1>6. n \in MetaList(cmd)
  <2>1. ASSUME NEW j \in 1..n
        PROVE  cmd.entries[j].start # 0 /\ cmd.entries[j].size # 0
    <3>1. CASE j = n
      BY <1>3, <3>1
    <3>2. CASE j # n
      <4>1. j \in 1..Chunk /\ j \in 1..j
        BY <1>2, <3>2
      <4>2. j \in MetaList(cmd)
        BY <1>2, <4>1 DEF AtEntry
      <4>3. QED
        BY <4>1, <4>2 DEF MetaList
    <3>3. QED BY <3>1, <3>2
  <2>2. QED
    BY <1>4, <2>1 DEF MetaList
<1>7. \A i \in 1..Chunk : i \in MetaList(cmd)
  BY <1>2 DEF AtEntry
<1>8. ASSUME NEW p \in Parts, NEW w \in 0..(PartSize - 1)
      PROVE  \/ disk[p][w] = Old
             \/ \E i \in MetaList(cmd) :
                  Has(i, p, w) /\ disk[p][w] = cmd.entries[i].start + w
  BY <1>2, <1>7 DEF AtEntry
<1>9. CASE Answer("FAIL") /\ disk' = disk
  <2>1. \A p \in Parts : \A w \in 0..(PartSize - 1) :
             \/ disk'[p][w] = Old
             \/ \E i \in MetaList(cmd) :
                  Has(i, p, w) /\ disk'[p][w] = cmd.entries[i].start + w
    BY <1>8, <1>9
  <2>2. QED
    BY <1>1, <1>2, <1>9, <2>1, StoredAnswered
<1>10. CASE ~(Answer("FAIL") /\ disk' = disk)
  <2>1. Entry.name \in Parts /\ Entry.size <= PartSize
        /\ Entry.start + Entry.size <= cmd.sz
    BY <1>10 DEF MetaEntry, RawImgFlash
  <2>2. PICK r \in WriteBlockToPartition(disk[Entry.name], 0, Entry.size,
                                         Entry.start, FALSE) :
          /\ disk' = [disk EXCEPT ![Entry.name] = r.words]
          /\ IF r.ok THEN Chunk' = n /\ UNCHANGED <<pc, reply>>
             ELSE Answer("FAIL")
    BY <1>10 DEF MetaEntry, RawImgFlash, Write
  <2>3. PICK m \in 0..Entry.size :
          (r.ok => m = Entry.size) /\ Begun(Entry.name, Entry.start, m)
    <3> DEFINE name == Entry.name
               src == Entry.start
               size == Entry.size
    <3>1. size <= MAX_UINT32
      BY <1>2, <1>5, <2>1, MetaType, Numbers
    <3>2. /\ src \in Nat /\ size \in Nat /\ name \in Parts
          /\ r \in WriteBlockToPartition(disk[name], 0, size, src, FALSE)
          /\ disk' = [disk EXCEPT ![name] = r.words]
      BY <1>5, <2>1, <2>2
    <3> HIDE DEF name, src, size
    <3>3. \E m \in 0..size : (r.ok => m = size) /\ Begun(name, src, m)
      BY <3>1, <3>2, RawLands
    <3>4. QED
      BY <3>3 DEF name, src, size
  <2>4. \A p \in Parts : \A w \in 0..(PartSize - 1) :
          disk'[p][w] = IF p = Entry.name /\ w < m THEN Entry.start + w
                        ELSE disk[p][w]
    BY <2>3 DEF Begun
  <2>5. CASE r.ok
    <3>1. Chunk' = n /\ pc' = "meta" /\ reply' = "none" /\ m = Entry.size
      BY <1>1, <1>2, <2>2, <2>3, <2>5
    <3>2. \A i \in 1..n : i = n \/ i \in 1..Chunk
      BY <1>2
    <3>3. \A i \in 1..n : i \in MetaList(cmd)
      BY <1>6, <1>7, <3>2
    <3>4. ASSUME NEW p \in Parts, NEW w \in 0..(PartSize - 1)
          PROVE  \/ disk'[p][w] = Old /\ \A i \in 1..n : ~Has(i, p, w)
                 \/ \E i \in 1..n : /\ Has(i, p, w)
                                    /\ disk'[p][w] = cmd.entries[i].start + w
                                    /\ \A j \in (i + 1)..n : ~Has(j, p, w)
      <4>1. CASE Has(n, p, w)
        <5>1. disk'[p][w] = cmd.entries[n].start + w
          BY <1>3, <2>4, <3>1, <4>1 DEF Has
        <5>2. n \in 1..n /\ \A j \in (n + 1)..n : ~Has(j, p, w)
          BY <1>4
        <5>3. QED
          BY <4>1, <5>1, <5>2
      <4>2. CASE ~Has(n, p, w)
        <5>1. disk'[p][w] = disk[p][w]
          BY <1>3, <2>4, <3>1, <4>2 DEF Has
        <5>2. CASE disk[p][w] = Old /\ \A i \in 1..Chunk : ~Has(i, p, w)
          BY <3>2, <4>2, <5>1, <5>2
        <5>3. CASE ~(disk[p][w] = Old /\ \A i \in 1..Chunk : ~Has(i, p, w))
          <6>1. PICK i \in 1..Chunk : /\ Has(i, p, w)
                                      /\ disk[p][w] = cmd.entries[i].start + w
                                      /\ \A j \in (i + 1)..Chunk : ~Has(j, p, w)
            BY <1>2, <5>3 DEF AtEntry
          <6>2. i \in 1..n /\ \A j \in (i + 1)..n : j = n \/ j \in (i + 1)..Chunk
            BY <1>2
          <6>3. QED
            BY <4>2, <5>1, <6>1, <6>2
        <5>4. QED BY <5>2, <5>3
      <4>3. QED BY <4>1, <4>2
    <3>5. AtEntry'
      <4> HIDE DEF n
      <4>1. QED BY <1>1, <3>1, <3>3, <3>4 DEF AtEntry, Has
    <3>6. QED
      BY <1>1, <1>2, <3>1, <3>5, StoredEntry
  <2>6. CASE ~r.ok
    <3>1. ASSUME NEW p \in Parts, NEW w \in 0..(PartSize - 1)
          PROVE  \/ disk'[p][w] = Old
                 \/ \E i \in MetaList(cmd) :
                      Has(i, p, w) /\ disk'[p][w] = cmd.entries[i].start + w
      <4>1. CASE p = Entry.name /\ w < m
        <5>1. w \in Nat /\ m \in Nat /\ m <= Entry.size
          BY <1>5, Numbers
        <5>2. w < Entry.size
          BY <1>5, <4>1, <5>1
        <5>3. Has(n, p, w) /\ disk'[p][w] = cmd.entries[n].start + w
          BY <1>3, <2>4, <4>1, <5>2 DEF Has
        <5>4. QED
          BY <1>6, <5>3
      <4>2. CASE ~(p = Entry.name /\ w < m)
        <5>1. disk'[p][w] = disk[p][w]
          BY <2>4, <4>2
        <5>2. QED
          BY <1>8, <5>1
      <4>3. QED BY <4>1, <4>2
    <3>2. Answer("FAIL")
      BY <2>2, <2>6
    <3>3. QED
      BY <1>1, <1>2, <3>1, <3>2, StoredAnswered
  <2>7. QED BY <2>5, <2>6
<1>11. QED BY <1>9, <1>10

\* When the list ends, what is there is the last entry for each word.
LEMMA MetaDoneStored ==
  ASSUME ImageInv, StoredInv, MetaDone
  PROVE  StoredInv'
<1>1. pc = "meta" /\ MetaEnds /\ Answer("OKAY") /\ UNCHANGED <<disk, cmd>>
  BY DEF MetaDone
<1>2. /\ cmd.fmt = "meta" /\ Len(cmd.entries) \in Nat /\ Chunk \in Nat
      /\ DOMAIN cmd.entries = 1..Len(cmd.entries) /\ AtEntry
  BY <1>1, MetaType, Before, Numbers, CommandType DEF ImageInv, StoredInv, MetaImage
<1>3. ASSUME NEW i \in MetaList(cmd)
      PROVE  i \in 1..Chunk
  <2>1. /\ i \in 1..Len(cmd.entries)
        /\ \A j \in 1..i : cmd.entries[j].start # 0 /\ cmd.entries[j].size # 0
    BY <1>2 DEF MetaList
  <2>2. ASSUME ~(i <= Chunk) PROVE FALSE
    <3>1. Chunk + 1 \in 1..i /\ Chunk < Len(cmd.entries)
      BY <1>2, <2>1, <2>2
    <3>2. Entry.start # 0 /\ Entry.size # 0
      BY <2>1, <3>1 DEF Entry
    <3>3. QED
      BY <1>1, <3>1, <3>2 DEF MetaEnds
  <2>3. QED
    BY <1>2, <2>1, <2>2
<1>4. ASSUME NEW p \in Parts, NEW w \in 0..(PartSize - 1)
      PROVE  disk'[p][w] = Stored(cmd, p, w)
  <2> DEFINE here == {i \in MetaList(cmd) : cmd.entries[i].name = p
                                            /\ w < cmd.entries[i].size}
             last == CHOOSE j \in here : \A k \in here : k <= j
  <2>1. Stored(cmd, p, w) = IF here = {} THEN Old ELSE cmd.entries[last].start + w
    BY <1>2 DEF Stored
  <2>2. \A i : i \in here <=> i \in 1..Chunk /\ Has(i, p, w)
    BY <1>2, <1>3 DEF AtEntry, Has
  <2> HIDE DEF here
  <2>3. CASE disk[p][w] = Old /\ \A i \in 1..Chunk : ~Has(i, p, w)
    <3>1. here = {}
      BY <2>2, <2>3
    <3>2. QED
      BY <1>1, <2>1, <2>3, <3>1
  <2>4. CASE ~(disk[p][w] = Old /\ \A i \in 1..Chunk : ~Has(i, p, w))
    <3>1. PICK i \in 1..Chunk : /\ Has(i, p, w)
                                /\ disk[p][w] = cmd.entries[i].start + w
                                /\ \A j \in (i + 1)..Chunk : ~Has(j, p, w)
      BY <1>2, <2>4 DEF AtEntry
    <3>2. i \in here
      BY <2>2, <3>1
    <3>3. ASSUME NEW k \in here PROVE k <= i
      <4>1. k \in 1..Chunk /\ Has(k, p, w)
        BY <2>2
      <4>2. k \notin (i + 1)..Chunk
        BY <3>1, <4>1
      <4>3. QED
        BY <4>1, <4>2
    <3>4. \A j \in here : j \in Int
      BY <2>2
    <3>5. last = i
      <4>1. ASSUME NEW j \in here, \A k \in here : k <= j PROVE j = i
        BY <3>2, <3>3, <3>4, <4>1
      <4>2. QED
        BY <3>2, <3>3, <4>1
    <3> HIDE DEF last
    <3>6. here # {}
      BY <3>2
    <3>7. QED
      BY <1>1, <2>1, <3>1, <3>5, <3>6
  <2>5. QED BY <2>3, <2>4
<1>5. "OKAY" \in {"OKAY", "FAIL"} /\ "OKAY" # "FAIL"
  OBVIOUS
<1>6. QED
  BY <1>1, <1>4, <1>5, StoredAnswered

-----------------------------------------------------------------------------
(***************************************************************************)
(* The end of a command                                                    *)
(***************************************************************************)
\* The steps a command can still take, at most.
Left ==
  CASE pc = "ready" -> Wrap * Wrap + 1
    [] pc = "chunk" -> (cmd.total_chunks - Chunk) * (Wrap + 1) + 1
    [] pc = "fill" -> (cmd.total_chunks - Chunk - 1) * (Wrap + 1)
                      + (FillHeader.chunk_sz - Temp) + 2
    [] pc = "meta" -> Len(cmd.entries) - Chunk + 1
    [] pc = "done" -> 0

\* No loop has gone past its end.
EndInv ==
  /\ pc = "ready" => Chunk = 0
  /\ pc = "chunk" => Chunk <= cmd.total_chunks
  /\ pc = "fill" => Temp <= FillHeader.chunk_sz
  /\ pc = "meta" => Chunk <= Len(cmd.entries)

\* A step answers, enters a loop, ends a round of one, or enters or leaves
\* the loop over the blocks of a fill chunk.
LEMMA Moves ==
  ASSUME ImageInv, Next
  PROVE  /\ cmd' = cmd /\ pc \in {"ready", "chunk", "fill", "meta"}
         /\ \/ pc' = "done"
            \/ pc = "ready" /\ pc' = "chunk" /\ Chunk' = Chunk /\ cmd.fmt = "sparse"
            \/ /\ pc = "ready" /\ pc' = "meta" /\ Chunk' = Chunk /\ cmd.fmt = "meta"
               /\ Len(cmd.entries) < cmd.sz
            \/ /\ pc = "chunk" /\ pc' = "chunk" /\ Chunk' = Chunk + 1
               /\ Chunk < cmd.total_chunks
            \/ /\ pc = "chunk" /\ pc' = "fill" /\ Chunk' = Chunk /\ Temp' = 0
               /\ FillHeader' = ChunkHeader /\ Chunk < cmd.total_chunks
               /\ ChunkHeader.chunk_sz \in 0..MAX_UINT32
            \/ /\ pc = "fill" /\ pc' = "fill" /\ UNCHANGED <<Image, Chunk>>
               /\ Temp' = Temp + 1 /\ Temp < FillHeader.chunk_sz
            \/ pc = "fill" /\ pc' = "chunk" /\ Chunk' = Chunk + 1
            \/ /\ pc = "meta" /\ pc' = "meta" /\ Chunk' = Chunk + 1
               /\ Chunk < Len(cmd.entries)
<1>1. CASE FlashSparse
  BY <1>1 DEF FlashSparse, Answer
<1>2. CASE ChunkRefused \/ SparseDone
  BY <1>2 DEF ChunkRefused, SparseDone, MoreChunks, Answer
<1>3. CASE ChunkRaw
  BY <1>3 DEF ChunkRaw, Write, MoreChunks, Answer, NextChunk
<1>4. CASE ChunkFill
  <2>1. /\ MoreChunks /\ ChunkReadable /\ cmd' = cmd
        /\ \/ pc' = "done"
           \/ pc' = "fill" /\ Temp' = 0 /\ Image' = Image + 2 /\ Chunk' = Chunk
    BY <1>4 DEF ChunkFill, Answer
  <2>2. /\ ChunkHeader.chunk_sz \in 0..MAX_UINT32 /\ Chunk < cmd.total_chunks
        /\ Image \in Nat /\ pc = "chunk"
    BY <2>1, HeaderType, Before DEF MoreChunks
  <2>3. Image' = Image + 2 => FillHeader' = ChunkHeader
    <3>1. (Image + 2) - 2 = Image
      BY <2>2
    <3>2. QED
      BY <2>1, <3>1 DEF FillHeader, ChunkHeader
  <2>4. QED
    BY <2>1, <2>2, <2>3
<1>5. CASE FillBlock
  BY <1>5 DEF FillBlock, Write, Answer
<1>6. CASE FillDone
  BY <1>6 DEF FillDone, NextChunk
<1>7. CASE ChunkSkipped
  BY <1>7 DEF ChunkSkipped, MoreChunks, NextChunk
<1>8. CASE FlashRaw \/ ErasePartition \/ MetaDone
  BY <1>8 DEF FlashRaw, RawImgFlash, Write, ErasePartition, MetaDone, Answer
<1>9. CASE FlashMeta
  <2>1. /\ cmd' = cmd /\ pc = "ready" /\ cmd.fmt = "meta"
        /\ \/ pc' = "done"
           \/ pc' = "meta" /\ Chunk' = Chunk /\ cmd.sz > 1 + Len(cmd.entries)
    BY <1>9 DEF FlashMeta, Answer, counters
  <2>2. cmd.sz \in Nat /\ Len(cmd.entries) \in Nat
    BY <2>1, MetaType
  <2>3. QED
    BY <2>1, <2>2
<1>10. CASE MetaEntry
  BY <1>10 DEF MetaEntry, MetaEnds, RawImgFlash, Write, Answer
<1>11. QED
  BY <1>1, <1>2, <1>3, <1>4, <1>5, <1>6, <1>7, <1>8, <1>9, <1>10 DEF Next

\* As long as a command has not answered, it can take a step.
LEMMA LeftType ==
  ASSUME ImageInv, EndInv
  PROVE  Left \in Nat /\ (pc # "done" => Left > 0)
<1> DEFINE K == Wrap + 1
           T == cmd.total_chunks
           F == FillHeader.chunk_sz
           E == Len(cmd.entries)
<1>1. /\ K \in Nat /\ Wrap * Wrap \in Nat /\ Chunk \in Nat /\ Temp \in Nat
      /\ pc \in {"ready", "chunk", "fill", "meta", "done"}
  BY Numbers, Before, ProductType DEF ImageInv, TypeOK
<1>2. pc \in {"chunk", "fill"} => T \in Nat /\ Chunk <= T
  BY <1>1, SparseType, FillType DEF EndInv
<1>3. pc = "fill" => F \in Nat /\ Temp <= F /\ Chunk < T
  BY FillType, Numbers DEF EndInv
<1>4. pc = "meta" => E \in Nat /\ Chunk <= E
  BY MetaType DEF ImageInv, EndInv
<1>5. /\ pc = "ready" => Left = Wrap * Wrap + 1
      /\ pc = "chunk" => Left = (T - Chunk) * K + 1
      /\ pc = "fill" => Left = (T - Chunk - 1) * K + (F - Temp) + 2
      /\ pc = "meta" => Left = E - Chunk + 1
      /\ pc = "done" => Left = 0
  BY DEF Left
<1> HIDE DEF K, T, F, E
<1>6. CASE pc = "ready"
  BY <1>1, <1>5, <1>6
<1>7. CASE pc = "chunk"
  <2>1. T - Chunk \in Nat
    BY <1>1, <1>2, <1>7
  <2>2. (T - Chunk) * K \in Nat
    BY <1>1, <2>1, ProductType
  <2>3. QED
    BY <1>5, <1>7, <2>2
<1>8. CASE pc = "fill"
  <2>1. T - Chunk - 1 \in Nat /\ F - Temp \in Nat
    BY <1>1, <1>2, <1>3, <1>8
  <2>2. (T - Chunk - 1) * K \in Nat
    BY <1>1, <2>1, ProductType
  <2>3. QED
    BY <1>5, <1>8, <2>1, <2>2
<1>9. CASE pc = "meta"
  BY <1>1, <1>4, <1>5, <1>9
<1>10. CASE pc = "done"
  BY <1>5, <1>10
<1>11. QED
  BY <1>1, <1>6, <1>7, <1>8, <1>9, <1>10

\* Every step uses one up.
LEMMA LeftFalls ==
  ASSUME ImageInv, EndInv, Next
  PROVE  EndInv' /\ Left' < Left
<1> DEFINE K == Wrap + 1
           T == cmd.total_chunks
           F == FillHeader.chunk_sz
           E == Len(cmd.entries)
           S == Wrap * Wrap
<1>1. /\ K \in Nat /\ Wrap \in Nat /\ K = Wrap + 1 /\ MAX_UINT32 = Wrap - 1
      /\ Chunk \in Nat /\ Temp \in Nat /\ S \in Nat
  BY Numbers, Before, ProductType
<1>2. pc \in {"chunk", "fill"} => T \in Nat /\ Chunk <= T
  BY <1>1, SparseType, FillType DEF EndInv
<1>3. pc = "fill" => F \in Nat /\ Temp <= F /\ Chunk < T
  BY FillType, Numbers DEF EndInv
<1>4. pc = "meta" => E \in Nat /\ Chunk <= E
  BY MetaType DEF ImageInv, EndInv
<1>5. cmd' = cmd /\ pc \in {"ready", "chunk", "fill", "meta"}
  BY Moves
<1>6. /\ pc = "ready" => Left = S + 1
      /\ pc = "chunk" => Left = (T - Chunk) * K + 1
      /\ pc = "fill" => Left = (T - Chunk - 1) * K + (F - Temp) + 2
      /\ pc = "meta" => Left = E - Chunk + 1
  BY DEF Left
<1>7. /\ pc' = "done" => Left' = 0
      /\ pc' = "chunk" => Left' = (T - Chunk') * K + 1
      /\ pc' = "fill" => Left' = (T - Chunk' - 1) * K + (F' - Temp') + 2
      /\ pc' = "meta" => Left' = E - Chunk' + 1
  BY <1>5 DEF Left
<1>8. \A n \in Nat : n * K \in Nat /\ (n + 1) * K = n * K + K
  BY <1>1, ProductNext
<1> HIDE DEF K, T, F, E, S
<1>9. Left \in Nat /\ Left > 0
  BY <1>5, LeftType
<1>10. CASE pc' = "done"
  BY <1>7, <1>9, <1>10 DEF EndInv
<1>11. CASE pc = "ready" /\ pc' = "chunk" /\ Chunk' = Chunk /\ cmd.fmt = "sparse"
  <2>1. T \in Nat /\ T <= MAX_UINT32
    BY <1>11, CommandType, Numbers DEF ImageInv, SparseImage, T
  <2>2. Chunk' = 0
    BY <1>11 DEF EndInv
  <2>3. T * K + 1 < S + 1
    <3>1. MAX_UINT32 \in Nat /\ MAX_UINT32 * K = S - 1
      BY <1>1, Numbers DEF S
    <3>2. T * K <= MAX_UINT32 * K /\ T * K \in Nat
      BY <1>1, <2>1, <3>1, ProductGrows
    <3>3. QED
      BY <1>1, <3>1, <3>2
  <2>4. Left' = T * K + 1
    <3>1. T - 0 = T
      BY <2>1
    <3>2. QED
      BY <1>7, <1>11, <2>2, <3>1
  <2>5. Left' < Left
    BY <1>6, <1>11, <2>3, <2>4
  <2>6. QED
    BY <1>5, <1>9, <1>11, <2>1, <2>2, <2>5 DEF EndInv, T
<1>12. CASE /\ pc = "ready" /\ pc' = "meta" /\ Chunk' = Chunk /\ cmd.fmt = "meta"
            /\ Len(cmd.entries) < cmd.sz
  <2>1. E \in Nat /\ E < MAX_UINT32
    BY <1>12, MetaType, Numbers DEF E
  <2>2. Chunk' = 0 /\ Left' = E + 1
    BY <1>7, <1>12, <2>1 DEF EndInv
  <2>3. Wrap <= S
    BY <1>1, Numbers DEF S
  <2>4. Left' < Left
    BY <1>1, <1>6, <1>12, <2>1, <2>2, <2>3
  <2>5. QED
    BY <1>5, <1>9, <1>12, <2>1, <2>2, <2>4 DEF EndInv, E
<1>13. CASE /\ pc = "chunk" /\ pc' = "chunk" /\ Chunk' = Chunk + 1
            /\ Chunk < cmd.total_chunks
  <2> DEFINE n == T - Chunk - 1
  <2>1. /\ n \in Nat /\ n + 1 = T - Chunk /\ n = T - (Chunk + 1) /\ Chunk + 1 <= T
    BY <1>1, <1>2, <1>13 DEF T
  <2>2. Left' = n * K + 1 /\ Left = (n + 1) * K + 1
    BY <1>6, <1>7, <1>13, <2>1
  <2> HIDE DEF n
  <2>3. Left' < Left
    BY <1>1, <1>8, <2>1, <2>2, Numbers
  <2>4. QED
    BY <1>5, <1>9, <1>13, <2>1, <2>3 DEF EndInv, T
<1>14. CASE /\ pc = "chunk" /\ pc' = "fill" /\ Chunk' = Chunk /\ Temp' = 0
            /\ FillHeader' = ChunkHeader /\ Chunk < cmd.total_chunks
            /\ ChunkHeader.chunk_sz \in 0..MAX_UINT32
  <2> DEFINE n == T - Chunk - 1
  <2>1. n \in Nat /\ n + 1 = T - Chunk
    BY <1>1, <1>2, <1>14 DEF T
  <2>2. F' \in Nat /\ F' <= MAX_UINT32 /\ F' = FillHeader'.chunk_sz
    BY <1>14, Numbers DEF F
  <2>3. Left' = n * K + (F' - 0) + 2 /\ Left = (n + 1) * K + 1
    BY <1>6, <1>7, <1>14, <2>1
  <2> HIDE DEF n
  <2>4. Left' < Left
    BY <1>1, <1>8, <2>1, <2>2, <2>3, Numbers
  <2>5. QED
    BY <1>9, <1>14, <2>2, <2>4 DEF EndInv
<1>15. CASE /\ pc = "fill" /\ pc' = "fill" /\ UNCHANGED <<Image, Chunk>>
            /\ Temp' = Temp + 1 /\ Temp < FillHeader.chunk_sz
  <2> DEFINE n == T - Chunk - 1
  <2>1. n \in Nat /\ Temp < F /\ F \in Nat
    BY <1>1, <1>2, <1>3, <1>15 DEF T, F
  <2>2. F' = F /\ FillHeader' = FillHeader
    BY <1>5, <1>15 DEF F, FillHeader
  <2>3. Left' = n * K + (F - (Temp + 1)) + 2 /\ Left = n * K + (F - Temp) + 2
    BY <1>6, <1>7, <1>15, <2>2
  <2> HIDE DEF n
  <2>4. Left' < Left
    BY <1>1, <1>8, <2>1, <2>3
  <2>5. Temp + 1 <= F
    BY <1>1, <2>1
  <2>6. QED
    BY <1>9, <1>15, <2>2, <2>4, <2>5 DEF EndInv, F
<1>16. CASE pc = "fill" /\ pc' = "chunk" /\ Chunk' = Chunk + 1
  <2> DEFINE n == T - Chunk - 1
  <2>1. n \in Nat /\ n = T - (Chunk + 1) /\ F - Temp \in Nat /\ Chunk + 1 <= T
    BY <1>1, <1>2, <1>3, <1>16
  <2>2. Left' = n * K + 1 /\ Left = n * K + (F - Temp) + 2
    BY <1>6, <1>7, <1>16, <2>1
  <2> HIDE DEF n
  <2>3. Left' < Left
    BY <1>8, <2>1, <2>2
  <2>4. QED
    BY <1>5, <1>9, <1>16, <2>1, <2>3 DEF EndInv, T
<1>17. CASE /\ pc = "meta" /\ pc' = "meta" /\ Chunk' = Chunk + 1
            /\ Chunk < Len(cmd.entries)
  <2>1. Chunk + 1 <= E /\ E \in Nat
    BY <1>1, <1>4, <1>17 DEF E
  <2>2. Left' < Left
    BY <1>1, <1>6, <1>7, <1>17, <2>1
  <2>3. QED
    BY <1>5, <1>9, <1>17, <2>1, <2>2 DEF EndInv, E
<1>18. QED
  BY Moves, <1>10, <1>11, <1>12, <1>13, <1>14, <1>15, <1>16, <1>17

-----------------------------------------------------------------------------
(***************************************************************************)
(* Theorems                                                                *)
(***************************************************************************)
LEMMA ImageStep ==
  ASSUME ImageInv, [Next]_vars
  PROVE  ImageInv'
<1>1. CASE MetaDone
  <2>1. /\ Answer("OKAY")
        /\ UNCHANGED <<disk, cmd, counters, unlockCritical, readTo, writtenTo, fault>>
    BY <1>1 DEF MetaDone
  <2>2. QED
    BY <2>1, Before, Answered
<1>2. CASE UNCHANGED vars
  BY <1>2 DEF ImageInv, vars, TypeOK, AccessesInside, SparseHeaderAccepted,
              FitsPartition
<1>3. QED
  BY <1>1, <1>2, FlashSparseInv, ChunkRefusedInv, ChunkRawInv, ChunkFillInv,
     FillBlockInv, FillDoneInv, ChunkSkippedInv, SparseDoneInv, FlashRawInv,
     FlashMetaInv, MetaEntryInv, EraseInv DEF Next

LEMMA ImageInvariant == Spec => []ImageInv
<1>1. ASSUME Init PROVE ImageInv
  <2>1. disk \in [Parts -> Words]
    BY <1>1 DEF Init, Words
  <2>2. /\ cmd \in Commands /\ pc = "ready" /\ Image = 0 /\ Chunk = 0
        /\ TotalBlocks = 0 /\ Temp = 0 /\ reply = "none"
        /\ unlockCritical \in BOOLEAN /\ readTo = 0 /\ writtenTo = 0
        /\ fault = FALSE
    BY <1>1 DEF Init
  <2>3. cmd.fmt # "erase" => cmd.sz \in Nat
    BY <2>2, CommandsAssumption, Numbers
       DEF SparseImage, RawImage, MetaImage, Erase
  <2>4. 0 \in 0..MAX_UINT32 /\ 0 <= PartSize /\ 0 \in Nat
    BY Numbers
  <2>5. cmd.fmt # "erase" => 0 <= cmd.sz
    BY <2>3
  <2>6. QED
    BY <2>1, <2>2, <2>4, <2>5 DEF ImageInv, TypeOK, AccessesInside, Words
<1>2. ImageInv /\ [Next]_vars => ImageInv'
  BY ImageStep
<1>3. QED
  BY <1>1, <1>2, PTL DEF Spec

LEMMA StoredStep ==
  ASSUME ImageInv, StoredInv, [Next]_vars
  PROVE  StoredInv'
<1>1. CASE UNCHANGED vars
  BY <1>1 DEF StoredInv, vars, OkayMeansStored, GoodImageAccepted, AtChunk,
              AtBlock, AtEntry, Has
<1>2. QED
  BY <1>1, FlashSparseStored, ChunkRefusedStored, ChunkRawStored,
     ChunkFillStored, FillBlockStored, FillDoneStored, ChunkSkippedStored,
     SparseDoneStored, FlashRawStored, FlashMetaStored, MetaEntryStored,
     MetaDoneStored, EraseStored DEF Next

LEMMA StoredInvariant == Spec => []StoredInv
<1>1. ASSUME Init PROVE StoredInv
  <2>1. /\ disk = Untouched /\ pc = "ready" /\ reply = "none"
        /\ Chunk = 0 /\ TotalBlocks = 0
    BY <1>1 DEF Init, Untouched
  <2>2. OkayMeansStored
    BY <2>1 DEF OkayMeansStored, Untouched
  <2>3. GoodImageAccepted
    BY <2>1 DEF GoodImageAccepted
  <2>4. QED
    BY <2>1, <2>2, <2>3 DEF StoredInv
<1>2. ImageInv /\ StoredInv /\ [Next]_vars => StoredInv'
  BY StoredStep
<1>3. QED
  BY <1>1, <1>2, ImageInvariant, PTL DEF Spec

\* Every variable keeps its type; no 32 bit counter leaves its range.
THEOREM ImageTypeCorrect == Spec => []TypeOK
<1>1. ImageInv => TypeOK
  BY DEF ImageInv
<1>2. QED
  BY <1>1, ImageInvariant, PTL

\* Whatever the fields of an image say, no handler reads behind the end of
\* the download, and none writes behind the end of the partition.
THEOREM AccessesAlwaysInside == Spec => []AccessesInside
<1>1. ImageInv => AccessesInside
  BY DEF ImageInv
<1>2. QED
  BY <1>1, ImageInvariant, PTL

\* For every image that follows its format and fits, whatever the sizes of
\* blocks, counters and partition: at each moment, a write that stopped half
\* way included, every word of every partition is what it was or what the
\* image makes it, and when the command answers OKAY all of the image is there.
THEOREM OkayAlwaysStored == Spec => []OkayMeansStored
<1>1. StoredInv => OkayMeansStored
  BY DEF StoredInv
<1>2. QED
  BY <1>1, StoredInvariant, PTL

\* Such an image, a sparse one of any chunks or a raw one, or an erasure of a
\* partition that exists, is answered FAIL only after a read, a write or an
\* allocation has failed: no check of the handlers refuses it, and no counter
\* of theirs wraps around.
THEOREM GoodAlwaysAccepted == Spec => []GoodImageAccepted
<1>1. StoredInv => GoodImageAccepted
  BY DEF StoredInv
<1>2. QED
  BY <1>1, StoredInvariant, PTL

\* Every command ends: whatever the fields of an image say, of its chunks and
\* of their blocks, each step of the handlers leaves fewer that can follow, and
\* Wrap * Wrap + 1 is the most there can be at the start.
THEOREM CommandAlwaysEnds ==
  Spec => [](Left \in Nat /\ Left <= Wrap * Wrap + 1) /\ [][Left' < Left]_vars
<1> DEFINE Counted == Left \in Nat
           Bound == Left <= Wrap * Wrap + 1
<1>1. ASSUME Init PROVE EndInv /\ Bound
  <2>1. pc = "ready" /\ Chunk = 0 /\ Wrap * Wrap \in Nat
    BY <1>1, Numbers, ProductType DEF Init
  <2>2. Left = Wrap * Wrap + 1
    BY <2>1 DEF Left
  <2>3. QED
    BY <2>1, <2>2 DEF EndInv
<1>2. ASSUME ImageInv, EndInv, [Next]_vars
      PROVE  EndInv' /\ [Left' < Left]_vars
  BY <1>2, LeftFalls DEF vars, EndInv, FillHeader
<1>3. ImageInv /\ EndInv => Counted
  BY LeftType
<1>4. ASSUME Counted, Counted', Bound, [Left' < Left]_vars
      PROVE  Bound'
  <2>1. UNCHANGED vars => Left' = Left
    BY DEF vars, Left, FillHeader
  <2>2. QED
    BY <1>4, <2>1, Numbers, ProductType
<1> HIDE DEF Counted, Bound
<1>5. Spec => []EndInv /\ [][Left' < Left]_vars
  BY <1>1, <1>2, ImageInvariant, PTL DEF Spec
<1>6. Spec => []Counted
  BY <1>3, <1>5, ImageInvariant, PTL
<1>7. Spec => []Bound
  BY <1>1, <1>4, <1>5, <1>6, PTL DEF Spec
<1>8. Spec => [](Counted /\ Bound)
  BY <1>6, <1>7, PTL
<1>9. QED
  BY <1>5, <1>8, PTL DEF Counted, Bound

\* No entry of a meta image changes a critical partition that is locked.
THEOREM CriticalAlwaysKept == Spec => CriticalKept
<1>1. ASSUME ImageInv, [Next]_vars, cmd.fmt = "meta", ~unlockCritical,
             NEW p \in Critical
      PROVE  disk'[p] = disk[p]
  <2>1. pc \notin {"chunk", "fill"}
    BY <1>1 DEF ImageInv
  <2>2. MetaEntry \/ disk' = disk
    BY <1>1, <2>1
       DEF Next, vars, FlashSparse, ChunkRefused, ChunkRaw, ChunkFill, FillBlock,
           FillDone, ChunkSkipped, SparseDone, FlashRaw, FlashMeta, MetaDone,
           ErasePartition, MoreChunks
  <2>3. CASE MetaEntry /\ disk' # disk
    <3>1. /\ EntryAllowed
          /\ \E r : disk' = [disk EXCEPT ![Entry.name] = r]
      BY <2>3 DEF MetaEntry, RawImgFlash, Write
    <3>2. Entry.name # p
      BY <1>1, <3>1 DEF EntryAllowed
    <3>3. p \in Parts /\ disk \in [Parts -> Words]
      BY <1>1, Before, NamesAssumption
    <3>4. QED
      BY <3>1, <3>2, <3>3
  <2>4. QED
    BY <2>2, <2>3
<1>2. ImageInv /\ [Next]_vars =>
        [cmd.fmt = "meta" /\ ~unlockCritical =>
           \A p \in Critical : disk'[p] = disk[p]]_vars
  BY <1>1
<1>3. QED
  BY <1>2, ImageInvariant, PTL DEF Spec, CriticalKept
=============================================================================
