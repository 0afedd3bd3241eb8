---------------------------- MODULE MCImageFlash ----------------------------
(***************************************************************************)
(* ImageFlash with every sparse image of at most MaxChunks chunks taken    *)
(* from a list of sound and unsound ones, every raw size, and lists of     *)
(* entries of a meta image.                                                *)
(***************************************************************************)
EXTENDS ImageFlash, SequencesExt

CONSTANT MaxChunks

\* A chunk: its header and how many words really follow it.
Ch(t, n, total, payload) ==
  <<[type |-> t, chunk_sz |-> n, total_sz |-> total]>>
  \o [i \in 1..payload |-> Data]

\* Chunks of an image with block size b, sound ones first.
MCChunks(b) ==
  {Ch("RAW", n, 1 + n * b, n * b) : n \in {m \in 0..2 : 1 + m * b <= MAX_UINT32}}
  \union {Ch("FILL", n, 2, 1) : n \in {1, 2}}
  \union {Ch("DONT_CARE", n, 1, 0) : n \in {1, 4}}
  \union {Ch("CRC", 0, 1, 0), Ch("CRC", 1, 1, b)}
  \union {Ch("RAW", 7, (1 + 7 * b) % Wrap, 2), Ch("RAW", 1, 1, b),
          Ch("FILL", 7, 2, 1), Ch("FILL", 1, 1, 0),
          Ch("DONT_CARE", 7, 1, 0), Ch("CRC", 7, 1, 1), <<Data>>}

\* The image of the chunks s without its last cut words; the buffer is longer.
Sum(s) == FoldLeft(LAMBDA x, c : x + c[1].chunk_sz, 0, s)
Sparse(b, s, cut, blks, count, fh, ch) ==
  LET cells == FlattenSeq(s)
  IN [fmt |-> "sparse", part |-> "data",
      sz |-> IF cut > 1 + Len(cells) THEN 0 ELSE 1 + Len(cells) - cut,
      blk_sz |-> b, total_blks |-> blks, total_chunks |-> count,
      file_hdr |-> fh, chunk_hdr |-> ch, cells |-> Append(cells, Data), plan |-> <<>>]

ChunkLists(b, n) == UNION {[1..k -> MCChunks(b)] : k \in 0..n}

\* Any chunks; the last word may be cut off, one chunk may be missing, and
\* the header may say that there are fewer blocks.
AnySparse ==
  {Sparse(b, s, cut, (Sum(s) \div part) % Wrap, Len(s) + more, TRUE, TRUE) :
     b \in {2, 6}, part \in {1, 2}, s \in ChunkLists(2, MaxChunks) \union ChunkLists(6, MaxChunks),
     cut \in {0, 1}, more \in {0, 1}}
BadHeaders ==
  {Sparse(b, s, cut, blks, Len(s), fh, ch) :
     b \in {0, 2, 3}, s \in ChunkLists(2, 1), cut \in {0, 9},
     blks \in {0, 1, 7}, fh \in BOOLEAN, ch \in BOOLEAN}

\* The image that encodes a plan.
Encode(b, plan) ==
  [Sparse(b, [i \in DOMAIN plan |->
                CASE plan[i].type = "RAW" ->
                       Ch("RAW", plan[i].n, 1 + plan[i].n * b, plan[i].n * b)
                  [] plan[i].type = "FILL" -> Ch("FILL", plan[i].n, 2, 1)
                  [] plan[i].type = "DONT_CARE" ->
                       Ch("DONT_CARE", plan[i].n, 1, 0)],
          0, FoldLeft(LAMBDA x, e : x + e.n, 0, plan), Len(plan), TRUE, TRUE)
   EXCEPT !.plan = plan]
PlanBlocks(plan) == FoldLeft(LAMBDA x, e : x + e.n, 0, plan)
Plans(b) ==
  {plan \in UNION {[1..k -> [type : {"RAW"}, n : {m \in 1..3 : 1 + m * b <= MAX_UINT32}]
                             \union [type : {"FILL"}, n : {1, 3}]
                             \union [type : {"DONT_CARE"}, n : {1, 4}]] :
                     k \in 1..4} :
     PlanBlocks(plan) <= MAX_UINT32 /\ PlanBlocks(plan) * b <= PartSize}

MCEntries ==
  [name : {"data", "xbl", "none"}, terminated : {TRUE}, start : {3, 5},
   size : {0, 1, 2, 3}]
  \union {[name |-> "data", terminated |-> FALSE, start |-> 3, size |-> 2],
          [name |-> "data", terminated |-> TRUE, start |-> 0, size |-> 2]}
Metas ==
  {[fmt |-> "meta", part |-> "bootloader", sz |-> n, entries |-> s] :
     n \in {0, 1, 2, 6, 7},
     s \in UNION {[1..k -> MCEntries] : k \in 0..2}
           \union {[i \in 1..3 |-> [name |-> "data", terminated |-> TRUE,
                                    start |-> 5, size |-> 1]]}}

MCCommands ==
  AnySparse \union BadHeaders \union UNION {{Encode(b, p) : p \in Plans(b)} : b \in {2, 4}}
  \union [fmt : {"raw"}, part : {"data", "xbl", "none"}, sz : 0..MAX_UINT32]
  \union Metas
  \union [fmt : {"erase"}, part : {"data", "none"}]
=============================================================================
