--------------------------- MODULE GptFlashProofs ---------------------------
(***************************************************************************)
(* Proofs about GptFlash, for every number of units and width of Lun,      *)
(* every number the host gives, every size of a unit and of an entry       *)
(* array, every set of images, wherever they put their entries, and every  *)
(* write that fails or is cut.                                             *)
(***************************************************************************)
EXTENDS GptFlash, TLAPS

\* All that is on the unit belongs to one table.
HoldsOnly(unit, i) ==
  \A b \in Blocks : unit[b] # Erased => \E w \in Writes : unit[b] = Part(w, i)

\* The writes of WriteGpt that are done by the time p is next.
Done(p) ==
  CASE p = "backup header" -> {"header"}
    [] p = "entries" -> {"header", "backup header"}
    [] p = "backup entries" -> {"header", "backup header", "entries"}
    [] p = "reenumerate" ->
         {"header", "backup header", "entries", "backup entries"}
    [] OTHER -> {}

Stored(unit, w, i) == \A b \in Target(w, i) : unit[b] = Part(w, i)

\* The write v comes after w, and may be to blocks that w has written: one of
\* the two is that of the primary entries, whose place nothing checks.
MaySpoil(v, w) ==
  \/ v = "entries" /\ w \in {"header", "backup header"}
  \/ v = "backup entries" /\ w = "entries"

Spared(w, done, i) ==
  \A v \in done : MaySpoil(v, w) => Target(v, i) \intersect Target(w, i) = {}

\* What has been written, and no later write has spoiled, is on the unit.
Progress(unit, done, i) ==
  /\ \A w \in done : Fits(w, i)
  /\ \A w \in done : Spared(w, done, i) => Stored(unit, w, i)

\* A unit never holds parts of two tables, not even while it is written.
OneTable ==
  /\ \A u \in Units : \E i \in Tables : HoldsOnly(block[u], i)
  /\ pc \in Writes \ {"erase"} => HoldsOnly(block[at], img)

\* It is so while a table is being written, and after it is answered OKAY.
TableProgress ==
  at \in Units =>
    /\ Progress(block[at], Done(pc), img)
    /\ reply = "OKAY" /\ pc = "idle" =>
         Progress(block[at], Done("reenumerate"), img)

\* The host gave a number for which the unit u may be taken.
MayMean(u) == \E n \in named : ToInt32(n) = u \/ ~Indexes(ToInt32(n))

\* The number in Lun, and the unit that is being written, come from the host.
LunNamed ==
  RootDevice = "UFS" =>
    /\ Lun # NO_LUN => \E n \in named : ToInt32(n) = Lun
    /\ pc \in Writes => MayMean(at)

GptInv == TypeOK /\ OneTable /\ TableProgress /\ LunNamed

-----------------------------------------------------------------------------
(***************************************************************************)
(* Numbers, blocks and writes                                              *)
(***************************************************************************)
Int32s == -(INT32_MAX + 1)..INT32_MAX

\* Whatever number the host gives, what is stored fits an INT32.
LEMMA ToInt32Type == \A n \in Nat : ToInt32(n) \in Int32s
PROOF
  <1> SUFFICES ASSUME NEW n \in Nat PROVE ToInt32(n) \in Int32s
    OBVIOUS
  <1> DEFINE wrap == 2 * (INT32_MAX + 1)
  <1>1. wrap \in Nat \ {0} /\ wrap = 2 * INT32_MAX + 2
    BY DeviceAssumption
  <1>2. ToInt32(n) = IF n % wrap <= INT32_MAX THEN n % wrap
                    ELSE (n % wrap) - wrap
    BY DEF ToInt32
  <1> HIDE DEF wrap
  <1>3. n % wrap \in 0..(wrap - 1)
    BY <1>1
  <1> QED BY <1>1, <1>2, <1>3, DeviceAssumption DEF Int32s

\* The unit of an EMMC and those of a UFS are told apart from NoUnit, and a
\* UFS has none that is called NO_LUN.
LEMMA UnitsType ==
  /\ NoUnit \notin Units
  /\ RootDevice = "UFS" => NO_LUN \notin Units
  /\ RootDevice = "EMMC" => Units = {NO_LUN}
PROOF
  BY DeviceAssumption DEF Units, NoUnit, NO_LUN

\* What an accepted number makes of Lun, and the units it may select.
LEMMA ChosenUnit ==
  ASSUME NEW n \in Names, ~TooLarge(n), Lun \in Int32s
  PROVE  /\ ChosenLun(n) \in Int32s
         /\ StorageUnits(ChosenLun(n)) \subseteq Units \union {NoUnit}
         /\ \A u \in StorageUnits(ChosenLun(n)) \ {NoUnit} :
              RootDevice = "UFS" => ChosenLun(n) # NO_LUN
                /\ (ChosenLun(n) = u \/ ~Indexes(ChosenLun(n)))
PROOF
  <1>1. n # Unnamed => n \in Nat
    BY DeviceAssumption
  <1>2. ChosenLun(n) \in Int32s
    <2>1. NO_LUN \in Int32s
      BY DeviceAssumption DEF NO_LUN, Int32s
    <2> QED BY <1>1, <2>1, ToInt32Type DEF ChosenLun
  <1>3. Indexes(NO_LUN)
    BY DeviceAssumption DEF Indexes, NO_LUN
  <1> QED BY <1>2, <1>3, UnitsType DEF StorageUnits

\* A part of a table is never taken for an erased block.
LEMMA PartNotErased ==
  ASSUME NEW w, NEW i
  PROVE  Part(w, i) # Erased
PROOF
  BY DEF Part, Erased

\* Apart from the primary entries, the places PatchGpt and WriteGpt compute
\* lie on the unit and apart.
LEMMA TargetsApart ==
  ASSUME NEW i
  PROVE  /\ \A w \in Writes \ {"entries"} : Fits(w, i)
         /\ \A w, v \in Writes \ {"erase", "entries"} :
              w # v => Target(w, i) \intersect Target(v, i) = {}
PROOF
  <1>1. /\ Target("erase", i) = Blocks /\ Target("mbr", i) = {0}
        /\ Target("header", i) = {1}
        /\ Target("backup header", i) = {BackupHeader}
        /\ Target("backup entries", i) = BackupEntries
    BY DEF Target
  <1>2. /\ 0 \in Blocks /\ 1 \in Blocks /\ BackupHeader \in Blocks
        /\ BackupEntries \subseteq Blocks
    BY SizeAssumption DEF Blocks, BackupEntries, BackupHeader
  <1>3. \A w \in Writes \ {"entries"} : Fits(w, i)
    BY <1>1, <1>2 DEF Writes, Fits
  <1> DEFINE Owner(b) == IF b = 0 THEN "mbr"
                         ELSE IF b = 1 THEN "header"
                         ELSE IF b = BackupHeader THEN "backup header"
                         ELSE "backup entries"
  <1>4. Owner(0) = "mbr" /\ Owner(1) = "header"
        /\ Owner(BackupHeader) = "backup header"
    BY SizeAssumption DEF BackupHeader
  <1>5. \A b \in BackupEntries : Owner(b) = "backup entries"
    BY SizeAssumption DEF BackupHeader, BackupEntries
  <1> HIDE DEF Owner
  <1>6. ASSUME NEW w \in Writes \ {"erase", "entries"}, NEW b \in Target(w, i)
        PROVE  Owner(b) = w
    BY <1>1, <1>4, <1>5 DEF Writes
  <1> QED BY <1>3, <1>6

\* No write, cut or not, leaves anything but erased blocks and parts of the
\* table being written next to what was there.
LEMMA WrittenHoldsOnly ==
  ASSUME NEW unit, NEW w \in Writes, NEW i, NEW img0, NEW cut
  PROVE  /\ HoldsOnly(unit, i) /\ (w = "erase" \/ i = img0)
              => HoldsOnly(Written(unit, w, img0, cut), i)
         /\ w = "erase" /\ cut = NumSectors
              => HoldsOnly(Written(unit, w, img0, cut), i)
PROOF
  <1>1. ASSUME w = "erase", cut = NumSectors, NEW b \in Blocks
        PROVE  Written(unit, w, img0, cut)[b] = Erased
    <2>1. Fits("erase", img0) /\ b \in Target("erase", img0) /\ b < NumSectors
      BY SizeAssumption DEF Target, Blocks, Fits
    <2> QED BY <1>1, <2>1 DEF Written, Content
  <1> QED BY <1>1 DEF HoldsOnly, Written, Content

\* A write that ends has stored its part, and no part that lies apart from it
\* is touched.
LEMMA WrittenStored ==
  ASSUME NEW unit, NEW w \in Writes \ {"erase"}, NEW i, Fits(w, i)
  PROVE  LET new == Written(unit, w, i, NumSectors)
         IN /\ Stored(new, w, i)
            /\ \A v \in Writes \ {"erase", w} :
                 Fits(v, i) /\ Target(v, i) \intersect Target(w, i) = {}
                   /\ Stored(unit, v, i) => Stored(new, v, i)
PROOF
  <1>1. \A b \in Blocks : b < NumSectors
    BY SizeAssumption DEF Blocks
  <1>2. Target(w, i) \subseteq Blocks
    BY DEF Fits
  <1>3. \A b \in Target(w, i) : Written(unit, w, i, NumSectors)[b] = Part(w, i)
    BY <1>1, <1>2 DEF Written, Content
  <1>4. \A b \in Blocks \ Target(w, i) :
          Written(unit, w, i, NumSectors)[b] = unit[b]
    BY DEF Written
  <1> QED BY <1>3, <1>4 DEF Stored, Fits

\* The type of a unit's contents is kept by every write, cut or not.
Contents ==
  [Blocks -> {Erased} \union {Part(w, i) : w \in Writes, i \in Tables}]

LEMMA WrittenType ==
  ASSUME NEW unit \in Contents, NEW w \in Writes, NEW i \in Tables, NEW cut
  PROVE  Written(unit, w, i, cut) \in Contents
PROOF
  BY DEF Contents, Written, Content

\* One more write adds to what is on the unit, and spoils only what it may.
LEMMA ProgressStep ==
  ASSUME NEW unit, NEW p \in Writes, NEW i, Fits(p, i),
         Progress(unit, Done(p), i)
  PROVE  Progress(Written(unit, p, i, NumSectors), Done(After(p)), i)
PROOF
  <1> DEFINE next == Done(After(p))
             new == Written(unit, p, i, NumSectors)
  <1>1. /\ next \subseteq Done(p) \union {p}
        /\ next \subseteq Writes \ {"erase", "mbr"}
        /\ p \in {"erase", "mbr"} => next = {}
        /\ p \notin {"erase", "mbr"} => p \in next /\ Done(p) \subseteq next
        /\ p \notin Done(p)
    BY DEF Done, After, Writes
  <1>2. \A w \in Done(p) :
          MaySpoil(p, w) \/ (p # "entries" /\ w # "entries")
    BY DEF Done, Writes, MaySpoil
  <1>3. \A w \in Done(p) : Fits(w, i)
    BY DEF Progress
  <1> HIDE DEF next
  <1>4. ASSUME NEW w \in next, Spared(w, next, i)
        PROVE  Stored(new, w, i)
    <2>1. p \in Writes \ {"erase"} /\ p \in next
      BY <1>1, <1>4
    <2>2. CASE w = p
      BY <2>1, <2>2, WrittenStored
    <2>3. CASE w # p
      <3>1. w \in Done(p) /\ w \in Writes \ {"erase", p}
        BY <1>1, <1>4, <2>3
      <3>2. Spared(w, Done(p), i)
        BY <1>1, <1>4, <2>1 DEF Spared
      <3>3. Stored(unit, w, i) /\ Fits(w, i)
        BY <3>1, <3>2 DEF Progress
      <3>4. Target(w, i) \intersect Target(p, i) = {}
        <4>1. CASE MaySpoil(p, w)
          BY <1>4, <2>1, <4>1 DEF Spared
        <4>2. CASE p # "entries" /\ w # "entries"
          BY <2>1, <3>1, <4>2, TargetsApart
        <4> QED BY <1>2, <3>1, <4>1, <4>2
      <3> QED BY <2>1, <3>1, <3>3, <3>4, WrittenStored
    <2> QED BY <2>2, <2>3
  <1>5. \A w \in next : Fits(w, i)
    BY <1>1, <1>3
  <1> QED BY <1>4, <1>5 DEF Progress, next

-----------------------------------------------------------------------------
(***************************************************************************)
(* The inductive invariant                                                 *)
(***************************************************************************)
LEMMA GptInvInit == Init => GptInv
PROOF
  <1> SUFFICES ASSUME Init PROVE GptInv
    OBVIOUS
  <1> DEFINE parts == {Part(w, Factory) : w \in Writes}
  <1>a. /\ Part("mbr", Factory) \in parts /\ Part("header", Factory) \in parts
        /\ Part("entries", Factory) \in parts
        /\ Part("backup entries", Factory) \in parts
        /\ Part("backup header", Factory) \in parts
    BY DEF Writes
  <1>b. parts \subseteq {Part(w, i) : w \in Writes, i \in Tables}
    BY DEF Tables
  <1>c. \A b \in Blocks : FactoryBlocks[b] \in {Erased} \union parts
    <2> HIDE DEF parts
    <2> QED BY <1>a DEF FactoryBlocks
  <1>d. FactoryBlocks = [b \in Blocks |-> FactoryBlocks[b]]
    BY DEF FactoryBlocks
  <1>1. FactoryBlocks \in Contents
    <2> HIDE DEF parts
    <2> QED BY <1>b, <1>c, <1>d DEF Contents
  <1>2. HoldsOnly(FactoryBlocks, Factory)
    BY <1>c DEF HoldsOnly
  <1>3. TypeOK
    <2>1. block \in [Units -> Contents]
      BY <1>1 DEF Init
    <2>2. /\ pc \in Writes \union {"idle", "reenumerate"} /\ pc \notin Writes
          /\ ParseSecondaryGpt \in BOOLEAN /\ img \in Tables
          /\ at \in Units \union {NoUnit}
          /\ reply \in {"none", "OKAY", "FAIL"} /\ named \subseteq Names
      BY DEF Init, Writes, Tables
    <2>3. Lun \in Int32s
      BY DeviceAssumption DEF Init, NO_LUN, Int32s
    <2> QED BY <2>1, <2>2, <2>3 DEF TypeOK, Contents, Int32s
  <1>4. OneTable
    BY <1>2 DEF Init, OneTable, Tables, Writes
  <1>5. TableProgress
    BY UnitsType DEF Init, TableProgress
  <1>6. LunNamed
    BY DEF Init, LunNamed, Writes
  <1> QED BY <1>3, <1>4, <1>5, <1>6 DEF GptInv

\* Where a write of WriteGpt, cut or not, leaves the unit it writes to.
LEMMA WriteKeeps ==
  ASSUME GptInv, pc \in Writes, NEW cut,
         block' = [block EXCEPT ![at] = Written(@, pc, img, cut)]
  PROVE  /\ block' \in [Units -> Contents]
         /\ \A u \in Units : \E i \in Tables : HoldsOnly(block'[u], i)
         /\ pc # "erase" \/ cut = NumSectors => HoldsOnly(block'[at], img)
PROOF
  <1>1. at \in Units /\ img \in Tables /\ block \in [Units -> Contents]
    BY DEF GptInv, TypeOK, Contents
  <1>2. block'[at] = Written(block[at], pc, img, cut)
        /\ \A u \in Units \ {at} : block'[u] = block[u]
    BY <1>1
  <1>3. block' \in [Units -> Contents]
    <2>1. block[at] \in Contents
      BY <1>1
    <2>2. Written(block[at], pc, img, cut) \in Contents
      BY <1>1, <2>1, WrittenType
    <2> QED BY <1>1, <2>2
  <1>4. \A u \in Units : \E i \in Tables : HoldsOnly(block[u], i)
    BY DEF GptInv, OneTable
  <1>5. pc # "erase" => HoldsOnly(block[at], img)
    BY DEF GptInv, OneTable
  <1>6. \E i \in Tables : HoldsOnly(block'[at], i)
    <2>1. CASE pc = "erase"
      BY <1>1, <1>2, <1>4, <2>1, WrittenHoldsOnly
    <2>2. CASE pc # "erase"
      BY <1>1, <1>2, <1>5, <2>2, WrittenHoldsOnly
    <2> QED BY <2>1, <2>2
  <1>7. pc # "erase" \/ cut = NumSectors => HoldsOnly(block'[at], img)
    <2>1. CASE pc # "erase"
      BY <1>2, <1>5, <2>1, WrittenHoldsOnly
    <2>2. CASE pc = "erase" /\ cut = NumSectors
      BY <1>2, <2>2, WrittenHoldsOnly
    <2> QED BY <2>1, <2>2
  <1> QED BY <1>2, <1>3, <1>4, <1>6, <1>7

\* Every action keeps GptInv.
LEMMA GptInvStep == GptInv /\ [Next]_vars => GptInv'
PROOF
  <1> SUFFICES ASSUME GptInv, [Next]_vars PROVE GptInv'
    OBVIOUS
  <1>a. /\ block \in [Units -> Contents]
        /\ pc \in Writes \union {"idle", "reenumerate"}
        /\ pc \in Writes => at \in Units
        /\ Lun \in Int32s /\ at \in Units \union {NoUnit}
        /\ ParseSecondaryGpt \in BOOLEAN /\ img \in Tables
        /\ reply \in {"none", "OKAY", "FAIL"} /\ named \subseteq Names
    BY DEF GptInv, TypeOK, Contents, Int32s
  <1>b. \A u \in Units : \E i \in Tables : HoldsOnly(block[u], i)
    BY DEF GptInv, OneTable
  <1>c. "idle" \notin Writes /\ "reenumerate" \notin Writes
        /\ "erase" \in Writes
    BY DEF Writes
  <1>d. \A unit, i : Progress(unit, Done("idle"), i)
                     /\ Progress(unit, Done("erase"), i)
    BY DEF Done, Progress
  \* The type invariant primed, in the abbreviations of this module.
  <1>t. ASSUME block' \in [Units -> Contents],
               pc' \in Writes \union {"idle", "reenumerate"},
               pc' \in Writes => at' \in Units,
               Lun' \in Int32s, at' \in Units \union {NoUnit},
               ParseSecondaryGpt' \in BOOLEAN, img' \in Tables,
               reply' \in {"none", "OKAY", "FAIL"}, named' \subseteq Names
        PROVE  TypeOK'
    BY <1>t DEF TypeOK, Contents, Int32s
  \* A number that is taken from the host, whatever becomes of it.
  <1>n. ASSUME NEW n \in Names, Named(n), pc' \notin Writes,
               n # Unnamed /\ Lun' = ToInt32(n)
        PROVE  Lun' \in Int32s /\ named' \subseteq Names /\ LunNamed'
    <2>1. n \in Nat
      BY <1>n, DeviceAssumption
    <2>2. n \in named' /\ named' \subseteq Names
      BY <1>a, <1>n DEF Named
    <2> QED BY <1>n, <2>1, <2>2, ToInt32Type DEF LunNamed
  <1>1. ASSUME NEW n \in Names, FlashBadLun(n) PROVE GptInv'
    <2>1. /\ n # Unnamed /\ Lun' = ToInt32(n) /\ Named(n)
          /\ pc' = "idle" /\ at' = NoUnit /\ reply' = "FAIL"
          /\ UNCHANGED <<block, ParseSecondaryGpt, img>>
      BY <1>1 DEF FlashBadLun, TooLarge, Fails
    <2>2. Lun' \in Int32s /\ named' \subseteq Names /\ LunNamed'
      BY <1>c, <1>n, <2>1
    <2>3. TypeOK'
      BY <1>a, <1>c, <1>t, <2>1, <2>2
    <2>4. OneTable'
      BY <1>b, <1>c, <2>1 DEF OneTable
    <2>5. TableProgress'
      BY <2>1, UnitsType DEF TableProgress
    <2> QED BY <2>2, <2>3, <2>4, <2>5 DEF GptInv
  <1>2. ASSUME NEW n \in Names, FlashOther(n) PROVE GptInv'
    <2>1. /\ n # Unnamed /\ Lun' = ToInt32(n) /\ Named(n) /\ pc = "idle"
          /\ UNCHANGED <<block, pc, at, ParseSecondaryGpt, img, reply>>
      BY <1>2 DEF FlashOther
    <2>2. Lun' \in Int32s /\ named' \subseteq Names /\ LunNamed'
      BY <1>c, <1>n, <2>1
    <2>3. TypeOK'
      BY <1>a, <1>c, <1>t, <2>1, <2>2
    <2>4. OneTable' /\ TableProgress'
      BY <2>1 DEF GptInv, OneTable, TableProgress
    <2> QED BY <2>2, <2>3, <2>4 DEF GptInv
  <1>3. ASSUME NEW i \in Images, NEW n \in Names, FlashPartition(i, n)
        PROVE  GptInv'
    <2>1. /\ pc = "idle" /\ ~TooLarge(n) /\ Lun' = ChosenLun(n) /\ Named(n)
          /\ block' = block
      BY <1>3 DEF FlashPartition
    <2>2. i \in Tables
      BY DEF Tables
    <2>3. /\ ParseSecondaryGpt' \in BOOLEAN
          /\ \/ pc' = "idle" /\ at' = NoUnit /\ reply' = "FAIL" /\ img' = img
             \/ /\ pc' = "reenumerate" /\ at' = NoUnit
                /\ reply' = reply /\ img' = img
             \/ /\ pc' = "erase" /\ reply' = reply /\ img' = i
                /\ at' \in StorageUnits(ChosenLun(n)) \ {NoUnit}
      BY <1>3, <1>a DEF FlashPartition, Fails
    <2>4. /\ Lun' \in Int32s
          /\ StorageUnits(ChosenLun(n)) \subseteq Units \union {NoUnit}
          /\ \A u \in StorageUnits(ChosenLun(n)) \ {NoUnit} :
               RootDevice = "UFS" => ChosenLun(n) # NO_LUN
                 /\ (ChosenLun(n) = u \/ ~Indexes(ChosenLun(n)))
      BY <1>a, <2>1, ChosenUnit
    <2>5. named' \subseteq Names /\ named \subseteq named'
          /\ (n # Unnamed => n \in named')
      BY <1>a, <2>1 DEF Named
    <2>6. TypeOK'
      BY <1>a, <1>c, <1>t, <2>1, <2>2, <2>3, <2>4, <2>5
    <2>7. OneTable'
      BY <1>b, <1>c, <2>1, <2>3 DEF OneTable
    <2>8. TableProgress'
      BY <1>d, <2>3, UnitsType DEF TableProgress
    <2>9. LunNamed'
      <3> SUFFICES ASSUME RootDevice = "UFS"
                   PROVE  /\ Lun' # NO_LUN => \E m \in named' : ToInt32(m) = Lun'
                          /\ pc' \in Writes => MayMean(at)'
        BY DEF LunNamed
      <3>1. Lun' # NO_LUN => \E m \in named' : ToInt32(m) = Lun'
        BY <2>1, <2>5 DEF ChosenLun, GptInv, LunNamed
      <3>2. pc' \in Writes =>
              Lun' # NO_LUN /\ (Lun' = at' \/ ~Indexes(Lun'))
        BY <1>c, <2>1, <2>3, <2>4
      <3> QED BY <3>1, <3>2 DEF MayMean
    <2> QED BY <2>6, <2>7, <2>8, <2>9 DEF GptInv
  <1>4. CASE WriteStep
    <2>1. /\ pc \in Writes /\ Fits(pc, img) /\ pc' = After(pc) /\ at \in Units
          /\ block' = [block EXCEPT ![at] = Written(@, pc, img, NumSectors)]
          /\ UNCHANGED <<Lun, at, ParseSecondaryGpt, img, reply, named>>
      BY <1>4, <1>a DEF WriteStep
    <2>2. /\ block' \in [Units -> Contents]
          /\ \A u \in Units : \E i \in Tables : HoldsOnly(block'[u], i)
          /\ HoldsOnly(block'[at], img)
      BY <2>1, WriteKeeps
    <2>3. pc' \in Writes \union {"reenumerate"} /\ pc' # "idle"
      BY <2>1 DEF After, Writes
    <2>4. TypeOK'
      BY <1>a, <1>t, <2>1, <2>2, <2>3
    <2>5. OneTable'
      BY <2>1, <2>2 DEF OneTable
    <2>6. TableProgress'
      <3>1. Progress(block[at], Done(pc), img)
        BY <2>1 DEF GptInv, TableProgress
      <3>2. block'[at] = Written(block[at], pc, img, NumSectors)
        BY <1>a, <2>1
      <3>3. Progress(block'[at], Done(pc'), img)
        BY <2>1, <3>1, <3>2, ProgressStep
      <3> QED BY <2>1, <2>3, <3>3 DEF TableProgress
    <2>7. LunNamed'
      BY <2>1 DEF GptInv, LunNamed, MayMean
    <2> QED BY <2>4, <2>5, <2>6, <2>7 DEF GptInv
  <1>5. CASE WriteRefused
    <2>1. /\ pc' = "idle" /\ at' = NoUnit /\ reply' = "FAIL"
          /\ UNCHANGED <<block, Lun, ParseSecondaryGpt, img, named>>
      BY <1>5 DEF WriteRefused, Fails
    <2>2. TypeOK'
      BY <1>a, <1>c, <1>t, <2>1
    <2>3. OneTable'
      BY <1>b, <1>c, <2>1 DEF OneTable
    <2>4. TableProgress' /\ LunNamed'
      BY <1>c, <2>1, UnitsType DEF GptInv, TableProgress, LunNamed
    <2> QED BY <2>2, <2>3, <2>4 DEF GptInv
  <1>6. CASE WriteFails
    <2>1. PICK cut \in Cuts :
            block' = [block EXCEPT ![at] = Written(@, pc, img, cut)]
      BY <1>6 DEF WriteFails
    <2>2. /\ pc \in Writes
          /\ pc' = "idle" /\ at' = NoUnit /\ reply' = "FAIL"
          /\ UNCHANGED <<Lun, ParseSecondaryGpt, img, named>>
      BY <1>6 DEF WriteFails, Fails
    <2>3. /\ block' \in [Units -> Contents]
          /\ \A u \in Units : \E i \in Tables : HoldsOnly(block'[u], i)
      BY <2>1, <2>2, WriteKeeps
    <2>4. TypeOK'
      BY <1>a, <1>c, <1>t, <2>2, <2>3
    <2>5. OneTable'
      BY <1>c, <2>2, <2>3 DEF OneTable
    <2>6. TableProgress' /\ LunNamed'
      BY <1>c, <2>2, UnitsType DEF GptInv, TableProgress, LunNamed
    <2> QED BY <2>4, <2>5, <2>6 DEF GptInv
  <1>7. CASE Reenumerate
    <2>1. /\ pc = "reenumerate" /\ pc' = "idle" /\ reply' \in {"OKAY", "FAIL"}
          /\ UNCHANGED <<block, Lun, at, ParseSecondaryGpt, img, named>>
      BY <1>7 DEF Reenumerate
    <2>2. TypeOK'
      BY <1>a, <1>c, <1>t, <2>1
    <2>3. OneTable'
      BY <1>b, <1>c, <2>1 DEF OneTable
    <2>4. TableProgress'
      BY <1>d, <2>1 DEF GptInv, TableProgress
    <2>5. LunNamed'
      BY <1>c, <2>1 DEF GptInv, LunNamed
    <2> QED BY <2>2, <2>3, <2>4, <2>5 DEF GptInv
  <1>8. CASE PowerCut
    <2>1. /\ pc' = "idle" /\ Lun' = NO_LUN /\ at' = NoUnit
          /\ ParseSecondaryGpt' = FALSE
          /\ reply' = "none" /\ named' = {} /\ img' = img
      BY <1>8 DEF PowerCut
    <2>2. /\ block' \in [Units -> Contents]
          /\ \A u \in Units : \E i \in Tables : HoldsOnly(block'[u], i)
      <3>1. CASE pc \in Writes
        <4>1. PICK cut \in Cuts :
                block' = [block EXCEPT ![at] = Written(@, pc, img, cut)]
          BY <1>8, <3>1 DEF PowerCut
        <4> QED BY <3>1, <4>1, WriteKeeps
      <3>2. CASE pc \notin Writes
        BY <1>8, <1>a, <1>b, <3>2 DEF PowerCut
      <3> QED BY <3>1, <3>2
    <2>3. NO_LUN \in Int32s
      BY DeviceAssumption DEF NO_LUN, Int32s
    <2>4. TypeOK'
      BY <1>a, <1>c, <1>t, <2>1, <2>2, <2>3
    <2>5. OneTable'
      BY <1>c, <2>1, <2>2 DEF OneTable
    <2>6. TableProgress' /\ LunNamed'
      BY <1>c, <2>1, UnitsType DEF TableProgress, LunNamed
    <2> QED BY <2>4, <2>5, <2>6 DEF GptInv
  <1>9. CASE UNCHANGED vars
    BY <1>9 DEF vars, GptInv, TypeOK, OneTable, TableProgress, LunNamed, MayMean
  <1> QED BY <1>1, <1>2, <1>3, <1>4, <1>5, <1>6, <1>7, <1>8, <1>9 DEF Next

\* GptInv is an invariant.
LEMMA GptInvHolds == Spec => []GptInv
PROOF
  BY GptInvInit, GptInvStep, PTL DEF Spec

-----------------------------------------------------------------------------
(***************************************************************************)
(* The theorems                                                            *)
(***************************************************************************)
\* Every variable of the table flashing keeps its type: whatever number the
\* host gives, only a unit the device has is written.
THEOREM GptTypeCorrect == Spec => []TypeOK
PROOF
  <1>1. GptInv => TypeOK
    BY DEF GptInv
  <1> QED BY <1>1, GptInvHolds, PTL

\* Whichever writes of WriteGpt fail, wherever the power is cut and wherever
\* an image puts its entries, the two copies of the table on a unit are never
\* both whole and of different tables.
THEOREM CopiesAlwaysAgree == Spec => []CopiesAgree
PROOF
  <1>1. GptInv => CopiesAgree
    <2> SUFFICES ASSUME GptInv, NEW u \in Units, NEW i, NEW j,
                        PrimaryWhole(block[u], i), BackupWhole(block[u], j)
                 PROVE  i = j
      BY DEF CopiesAgree
    <2>1. block[u][1] = Part("header", i)
          /\ block[u][BackupHeader] = Part("backup header", j)
      BY DEF PrimaryWhole, BackupWhole
    <2>2. PICK k \in Tables : HoldsOnly(block[u], k)
      BY DEF GptInv, OneTable
    <2>3. 1 \in Blocks /\ BackupHeader \in Blocks
      BY SizeAssumption DEF Blocks, BackupHeader
    <2>4. Part("header", i) # Erased /\ Part("backup header", j) # Erased
      BY PartNotErased
    <2>5. PICK w \in Writes : Part("header", i) = Part(w, k)
      BY <2>1, <2>2, <2>3, <2>4 DEF HoldsOnly
    <2>6. PICK v \in Writes : Part("backup header", j) = Part(v, k)
      BY <2>1, <2>2, <2>3, <2>4 DEF HoldsOnly
    <2>7. i = k /\ j = k
      BY <2>5, <2>6 DEF Part
    <2> QED BY <2>7
  <1> QED BY <1>1, GptInvHolds, PTL

\* An OKAY of WriteGpt for a table that went to a unit means that each copy
\* is whole on it, unless the image put its entries on another part.
THEOREM OkayAlwaysWritten == Spec => []OkayMeansWritten
PROOF
  <1>1. GptInv => OkayMeansWritten
    <2> SUFFICES ASSUME GptInv, reply = "OKAY", pc = "idle", at \in Units
                 PROVE  /\ Fits("entries", img)
                        /\ \A b \in BackupEntries : LastUsable < b
                        /\ PrimaryEntries(img)
                             \intersect (BackupEntries \union {1}) = {} =>
                             PrimaryWhole(block[at], img)
                        /\ BackupHeader \notin PrimaryEntries(img) =>
                             BackupWhole(block[at], img)
      BY DEF OkayMeansWritten
    <2> DEFINE all == Done("reenumerate")
    <2>1. Progress(block[at], all, img)
      BY DEF GptInv, TableProgress
    <2>2. all = {"header", "backup header", "entries", "backup entries"}
      BY DEF Done
    <2> HIDE DEF all
    <2>3. Fits("entries", img)
      BY <2>1, <2>2 DEF Progress
    <2>4. \A b \in BackupEntries : LastUsable < b
      BY SizeAssumption DEF BackupEntries, LastUsable
    <2>5. /\ Target("header", img) = {1}
          /\ Target("backup header", img) = {BackupHeader}
          /\ Target("entries", img) = PrimaryEntries(img)
          /\ Target("backup entries", img) = BackupEntries
      BY DEF Target
    <2>6. ASSUME PrimaryEntries(img) \intersect (BackupEntries \union {1}) = {}
          PROVE  PrimaryWhole(block[at], img)
      <3>1. Spared("header", all, img) /\ Spared("entries", all, img)
        BY <2>5, <2>6 DEF Spared, MaySpoil
      <3>2. Stored(block[at], "header", img) /\ Stored(block[at], "entries", img)
        BY <2>1, <2>2, <3>1 DEF Progress
      <3> QED BY <2>3, <2>5, <3>2 DEF Stored, PrimaryWhole
    <2>7. ASSUME BackupHeader \notin PrimaryEntries(img)
          PROVE  BackupWhole(block[at], img)
      <3>1. Spared("backup header", all, img)
            /\ Spared("backup entries", all, img)
        BY <2>5, <2>7 DEF Spared, MaySpoil
      <3>2. Stored(block[at], "backup header", img)
            /\ Stored(block[at], "backup entries", img)
        BY <2>1, <2>2, <3>1 DEF Progress
      <3> QED BY <2>5, <3>2 DEF Stored, BackupWhole
    <2> QED BY <2>3, <2>4, <2>6, <2>7
  <1> QED BY <1>1, GptInvHolds, PTL

\* On UFS WriteGpt writes no unit but one that a number the host gave since
\* the loader was started stands for, counted as an INT32 and not as it was
\* typed, unless such a number lies outside LunGuids.
THEOREM OnlyNamedLunsAreWritten == Spec => OnlyNamedLunsWritten
PROOF
  <1>1. GptInv /\ [Next]_vars =>
          [\A u \in Units : RootDevice = "UFS" /\ block'[u] # block[u] =>
             \E n \in named : ToInt32(n) = u \/ ~Indexes(ToInt32(n))]_vars
    <2> SUFFICES ASSUME GptInv, Next, NEW u \in Units, RootDevice = "UFS",
                        block'[u] # block[u]
                 PROVE  MayMean(u)
      BY DEF vars, MayMean
    <2>1. block \in [Units -> Contents]
      BY DEF GptInv, TypeOK, Contents
    <2>2. pc \in Writes
          /\ \E cut : block' = [block EXCEPT ![at] = Written(@, pc, img, cut)]
      BY DEF Next, FlashBadLun, FlashOther, FlashPartition, Fails, WriteStep,
             WriteRefused, WriteFails, Reenumerate, PowerCut
    <2>3. u = at
      BY <2>1, <2>2
    <2> QED BY <2>2, <2>3 DEF GptInv, LunNamed
  <1> QED BY <1>1, GptInvHolds, PTL DEF OnlyNamedLunsWritten, Spec

=============================================================================
