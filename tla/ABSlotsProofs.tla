--------------------------- MODULE ABSlotsProofs ---------------------------
(***************************************************************************)
(* Proofs about ABSlots, for every set of two-slot partitions, every set   *)
(* of well-formed partition tables, every size of the counters and every   *)
(* argument of set_active, whatever allocation or boot LUN call fails.     *)
(***************************************************************************)
EXTENDS ABSlots, TLAPS

\* A set_active without a slot has marked both of them.
Torn == "both" \in mishaps

\* What the attributes of the two boot entries satisfy at all times: one is
\* active at most, or, when torn, at least one can be found.
SaneAttrs(at, torn) ==
  /\ at \in [Slots -> Attrs]
  /\ IF torn THEN ActiveSlotOf(at) \in Slots ELSE OneActive(at)

\* The inductive invariant: the table on the device stays sane, and memory as
\* sane as the last set_active has left it.
SlotInv ==
  /\ TypeOK
  /\ SaneAttrs(attr, Torn) /\ SaneAttrs(gpt.attr, FALSE)
  /\ session => ~Torn
  /\ Torn => "swapped" \in mishaps
  /\ mode = "off" => mishaps = {}

-----------------------------------------------------------------------------
(***************************************************************************)
(* Every function of PartitionTableUpdate.c keeps the attributes sane.     *)
(***************************************************************************)
\* The active slot is one that claims to be, if there is one.
LEMMA ActiveSlotClaims ==
  ASSUME NEW at
  PROVE  /\ ActiveSlotOf(at) \in Slots \union {NoSlot}
         /\ ActiveSlotOf(at) \in Slots => Claims(at, ActiveSlotOf(at))
         /\ ActiveSlotOf(at) \in Slots <=> \E s \in Slots : Claims(at, s)
         /\ ActiveSlotOf(at) \in Slots <=> ActiveSlotOf(at) # NoSlot
PROOF
  BY DEF ActiveSlotOf, Slots, NoSlot

\* The active slot of sane attributes is the one slot marked active.
LEMMA ActiveSlotIsMarked ==
  ASSUME NEW at, SaneAttrs(at, FALSE)
  PROVE  /\ ActiveSlotOf(at) \in Slots \union {NoSlot}
         /\ \A s \in Slots : (ActiveSlotOf(at) = s) <=> at[s].active
PROOF
  BY DEF SaneAttrs, OneActive, ActiveSlotOf, Claims, Slots, NoSlot, Attrs

\* Which slot is active is a matter of the marks and the priorities.
LEMMA SamePriosSameActive ==
  ASSUME NEW at, NEW new,
         \A t \in Slots : /\ new[t].active = at[t].active
                          /\ new[t].prio = at[t].prio
  PROVE  /\ ActiveSlotOf(new) = ActiveSlotOf(at)
         /\ OneActive(at) => OneActive(new)
PROOF
  BY DEF ActiveSlotOf, Claims, OneActive, Slots

\* GetActiveSlot, with its first-boot default, keeps attributes sane.
LEMMA GetActiveSlotSane ==
  ASSUME NEW at, NEW torn \in BOOLEAN, SaneAttrs(at, torn)
  PROVE  SaneAttrs(GetActiveSlot(at), torn)
PROOF
  <1>1. CASE ~IsFirstBoot(at)
    BY <1>1 DEF GetActiveSlot
  <1>2. CASE IsFirstBoot(at)
    <2>1. ~torn /\ OneActive(at) /\ at \in [Slots -> Attrs]
      BY <1>2 DEF IsFirstBoot, SaneAttrs, Slots, NoSlot
    <2>2. \A s \in Slots : ~at[s].active
      BY <1>2, <2>1, ActiveSlotIsMarked DEF IsFirstBoot, Slots, NoSlot, SaneAttrs
    <2>3. FreshDefault \in Attrs /\ FreshDefault.prio > 0
      BY BoundsAssumption DEF FreshDefault, Attrs
    <2> QED
      BY <1>2, <2>1, <2>2, <2>3 DEF GetActiveSlot, SaneAttrs, OneActive, Slots
  <1> QED BY <1>1, <1>2

\* MarkPtnActive on the active slot leaves it as the only one.
LEMMA MarkPtnActiveSane ==
  ASSUME NEW at, at \in [Slots -> Attrs], NEW s \in Slots, Claims(at, s)
  PROVE  LET new == MarkPtnActive(at, s)
         IN /\ SaneAttrs(new, FALSE) /\ ActiveSlotOf(new) = s
            /\ \A t \in Slots :
                 /\ new[t].active = (t = s) /\ new[t].prio = at[t].prio
                 /\ new[t].succ = at[t].succ /\ new[t].retry = at[t].retry
                 /\ new[t].unboot = at[t].unboot
PROOF
  <1> DEFINE new == MarkPtnActive(at, s)
  <1>1. \A t \in Slots : at[t] \in Attrs
    OBVIOUS
  <1>2. \A t \in Slots :
          /\ new[t] \in Attrs
          /\ new[t].active = (t = s) /\ new[t].prio = at[t].prio
          /\ new[t].succ = at[t].succ /\ new[t].retry = at[t].retry
          /\ new[t].unboot = at[t].unboot
    BY <1>1 DEF MarkPtnActive, Attrs
  <1>3. new \in [Slots -> Attrs]
    BY <1>2 DEF MarkPtnActive
  <1> HIDE DEF new
  <1>4. at[s].prio > 0
    BY DEF Claims
  <1>5. OneActive(new)
    BY <1>2, <1>4 DEF OneActive, Slots
  <1>6. SaneAttrs(new, FALSE)
    BY <1>3, <1>5 DEF SaneAttrs
  <1>7. ActiveSlotOf(new) = s
    BY <1>2, <1>6, ActiveSlotIsMarked
  <1> QED BY <1>2, <1>6, <1>7 DEF new

\* SetActiveSlot leaves exactly the chosen slot active, whatever it finds.
LEMMA SetActiveSlotSane ==
  ASSUME NEW at, at \in [Slots -> Attrs], NEW s \in Slots, NEW r \in BOOLEAN
  PROVE  /\ SaneAttrs(SetActiveSlot(at, s, r), FALSE)
         /\ ActiveSlotOf(SetActiveSlot(at, s, r)) = s
         /\ IsBootable(SetActiveSlot(at, s, r), s)
PROOF
  <1> DEFINE new == SetActiveSlot(at, s, r)
             mid == [t \in Slots |->
                       IF t = s
                       THEN [at[t] EXCEPT !.prio = MAX_PRIORITY,
                                          !.active = TRUE,
                                          !.retry = MAX_RETRY_COUNT,
                                          !.unboot = FALSE,
                                          !.succ = @ /\ ~r]
                       ELSE [at[t] EXCEPT !.prio = MAX_PRIORITY - 1,
                                          !.active = FALSE]]
  <1>a. \A t \in Slots : at[t] \in Attrs
    OBVIOUS
  <1>b. /\ MAX_PRIORITY \in 0..MAX_PRIORITY
        /\ MAX_PRIORITY - 1 \in 0..MAX_PRIORITY
        /\ MAX_RETRY_COUNT \in 0..MAX_RETRY_COUNT
        /\ MAX_PRIORITY > 0 /\ MAX_RETRY_COUNT > 0
    BY BoundsAssumption
  <1>c. \A t \in Slots : mid[t] \in Attrs
    <2> SUFFICES ASSUME NEW t \in Slots PROVE mid[t] \in Attrs
      OBVIOUS
    <2>1. at[t] \in Attrs /\ (at[t].succ /\ ~r) \in BOOLEAN
      BY <1>a
    <2>2. CASE t = s
      BY <1>b, <2>1, <2>2 DEF Attrs
    <2>3. CASE t # s
      BY <1>b, <2>1, <2>3 DEF Attrs
    <2> QED BY <2>2, <2>3
  <1>d. mid \in [Slots -> Attrs]
    BY <1>c
  <1>e. /\ mid[s].prio = MAX_PRIORITY /\ mid[s].retry = MAX_RETRY_COUNT
        /\ mid[s].unboot = FALSE /\ mid[s].active = TRUE
    BY <1>a DEF Attrs
  <1>f. new = MarkPtnActive(mid, s)
    BY DEF SetActiveSlot
  <1> HIDE DEF new, mid
  <1>1. Claims(mid, s)
    BY <1>b, <1>e DEF Claims
  <1>2. /\ SaneAttrs(new, FALSE) /\ ActiveSlotOf(new) = s
        /\ new[s].retry = MAX_RETRY_COUNT /\ new[s].unboot = FALSE
    <2>1. LET m == MarkPtnActive(mid, s)
          IN /\ SaneAttrs(m, FALSE) /\ ActiveSlotOf(m) = s
             /\ \A t \in Slots :
                  /\ m[t].active = (t = s) /\ m[t].prio = mid[t].prio
                  /\ m[t].succ = mid[t].succ /\ m[t].retry = mid[t].retry
                  /\ m[t].unboot = mid[t].unboot
      BY <1>d, <1>1, MarkPtnActiveSane
    <2> QED BY <1>e, <1>f, <2>1
  <1>3. IsBootable(new, s)
    <2>1. new[s].retry > 0
      BY <1>b, <1>2
    <2> QED BY <1>2, <2>1 DEF IsBootable
  <1> QED BY <1>2, <1>3 DEF new

\* Without a slot it leaves one that can be found.
LEMMA SetActiveBothSane ==
  ASSUME NEW at, at \in [Slots -> Attrs]
  PROVE  SaneAttrs(SetActiveBoth(at), TRUE)
PROOF
  <1> DEFINE new == SetActiveBoth(at)
             fst == [prio |-> MAX_PRIORITY - 1, active |-> TRUE,
                     retry |-> MAX_RETRY_COUNT, succ |-> FALSE,
                     unboot |-> FALSE]
  <1>1. fst \in Attrs /\ fst.prio > 0
    BY BoundsAssumption DEF Attrs
  <1>2. at["a"] \in Attrs /\ at["b"] \in Attrs
    BY DEF Slots
  <1>3. [at["b"] EXCEPT !.active = TRUE] \in Attrs
    BY <1>2 DEF Attrs
  <1>4. new \in [Slots -> Attrs] /\ new["a"] = fst
    BY <1>1, <1>3 DEF SetActiveBoth, Slots
  <1> HIDE DEF new
  <1>5. Claims(new, "a")
    BY <1>1, <1>4 DEF Claims
  <1>6. ActiveSlotOf(new) \in Slots
    BY <1>5, ActiveSlotClaims DEF Slots
  <1> QED BY <1>4, <1>6 DEF SaneAttrs, new

\* Flashing or erasing a boot partition leaves the active marks alone.
LEMMA FastbootUpdateAttrSane ==
  ASSUME NEW at, NEW torn \in BOOLEAN, SaneAttrs(at, torn), NEW s \in Slots
  PROVE  SaneAttrs(FastbootUpdateAttr(at, s), torn)
PROOF
  <1> DEFINE new == FastbootUpdateAttr(at, s)
  <1>a. \A t \in Slots : at[t] \in Attrs
    BY DEF SaneAttrs
  <1>b. /\ MAX_PRIORITY \in 0..MAX_PRIORITY /\ MAX_PRIORITY > 0
        /\ MAX_RETRY_COUNT \in 0..MAX_RETRY_COUNT
    BY BoundsAssumption
  <1>c. [at[s] EXCEPT !.prio = MAX_PRIORITY, !.retry = MAX_RETRY_COUNT,
                      !.succ = FALSE, !.unboot = FALSE] \in Attrs
    BY <1>a, <1>b DEF Attrs
  <1>1. new \in [Slots -> Attrs]
    BY <1>a, <1>c DEF FastbootUpdateAttr, SaneAttrs
  <1>2. \A t \in Slots : /\ new[t].active = at[t].active
                         /\ new[t].prio \in {at[t].prio, MAX_PRIORITY}
    BY DEF FastbootUpdateAttr, SaneAttrs, Attrs
  <1> HIDE DEF new
  <1>3. CASE ~torn
    BY <1>1, <1>2, <1>3, <1>b DEF SaneAttrs, OneActive, Slots, new
  <1>4. CASE torn
    <2>1. PICK t \in Slots : Claims(at, t)
      BY <1>4, ActiveSlotClaims DEF SaneAttrs
    <2>2. Claims(new, t)
      BY <1>2, <2>1, <1>b DEF Claims
    <2>3. ActiveSlotOf(new) \in Slots
      BY <2>2, ActiveSlotClaims
    <2> QED BY <1>1, <1>4, <2>3 DEF SaneAttrs, new
  <1> QED BY <1>3, <1>4

\* Neither ClearUnbootable nor the unbootable mark touches them.
LEMMA UnbootableBitSane ==
  ASSUME NEW at, NEW torn \in BOOLEAN, SaneAttrs(at, torn)
  PROVE  /\ SaneAttrs(ClearUnbootable(at), torn)
         /\ \A s \in Slots : SaneAttrs(MarkUnbootable(at, s), torn)
PROOF
  <1>1. \A s \in Slots, u \in BOOLEAN :
          SaneAttrs([at EXCEPT ![s].unboot = u], torn)
    <2> SUFFICES ASSUME NEW s \in Slots, NEW u \in BOOLEAN
                 PROVE  SaneAttrs([at EXCEPT ![s].unboot = u], torn)
      OBVIOUS
    <2> DEFINE new == [at EXCEPT ![s].unboot = u]
    <2>1. new \in [Slots -> Attrs]
      BY DEF SaneAttrs, Attrs
    <2>2. \A t \in Slots : /\ new[t].active = at[t].active
                           /\ new[t].prio = at[t].prio
      BY DEF SaneAttrs, Attrs
    <2> HIDE DEF new
    <2>3. /\ ActiveSlotOf(new) = ActiveSlotOf(at)
          /\ OneActive(at) => OneActive(new)
      BY <2>2, SamePriosSameActive
    <2> QED BY <2>1, <2>3 DEF SaneAttrs, new
  <1> QED
    BY <1>1, ActiveSlotClaims DEF ClearUnbootable, MarkUnbootable

\* continue and boot work on sane attributes.
LEMMA PrepareBootSane ==
  ASSUME SlotInv, NEW cmd
  PROVE  SaneAttrs(PrepareBoot(cmd), Torn)
PROOF
  <1>1. SaneAttrs(attr, Torn) /\ Torn \in BOOLEAN
    BY DEF SlotInv, Torn
  <1> QED
    BY <1>1, GetActiveSlotSane, UnbootableBitSane DEF PrepareBoot

\* The slot variables published from sane attributes have their type.
LEMMA VarsOfType ==
  ASSUME NEW at, at \in [Slots -> Attrs]
  PROVE  VarsOf(at) \in [Slots -> [succ : BOOLEAN, unboot : BOOLEAN,
                                   retry : 0..MAX_RETRY_COUNT]]
PROOF
  BY DEF VarsOf, Attrs

\* In fastboot FindBootableSlot never spends a try.
LEMMA SpendRetryNone ==
  ASSUME NEW at, NEW s, NEW dev
  PROVE  SpendRetry(at, s, dev) = at
PROOF
  BY DEF SpendRetry, IsABRetryCountUpdateRequired, BootIntoFastboot

\* The device's table is never written back.
LEMMA TableNotWritten ==
  ASSUME NEW table, NEW at, NEW gd
  PROVE  UpdatePartitionAttributes(table, at, gd) = table
PROOF
  BY DEF UpdatePartitionAttributes, IsUpdatePartitionAttributes

\* The LUN computations stay among the LUNs, the GUID swap among the slots.
LEMMA SwitchTypes ==
  ASSUME SlotInv, NEW s, NEW read \in BootLunReads, NEW works,
         NEW list \in MultiSlotPartsLists
  PROVE  /\ SetBootLun(MatchBootLun(s, read), works) \in 0..2
         /\ SetBootLun(SwitchBootLun(s, read, list), works) \in 0..2
         /\ SetBootLun(SameBootLun(read, list), works) \in 0..2
         /\ FirstBootLun(works) \in 0..2
         /\ list \in SUBSET Parts
         /\ \A gd \in [Parts -> Slots] :
              SwitchPtnGuids(gd, list) \in [Parts -> Slots]
PROOF
  <1>1. lun \in 0..2 /\ HeadNode \in SUBSET Parts /\ read \in 0..2
    BY DEF SlotInv, TypeOK, BootLunReads
  <1>2. LunOf(s) \in 0..2
    BY DEF LunOf
  <1>3. MatchBootLun(s, read) \in 0..2 /\ FirstBootLun(works) \in 0..2
    BY <1>1, <1>2 DEF MatchBootLun, FirstBootLun, SetBootLun
  <1>4. SwitchBootLun(s, read, list) \in 0..2
        /\ SameBootLun(read, list) \in 0..2
    BY <1>1, <1>2 DEF SwitchBootLun, SameBootLun
  <1>5. list \in SUBSET Parts
    BY <1>1, DeviceAssumption DEF MultiSlotPartsLists
  <1>6. \A gd \in [Parts -> Slots] :
          SwitchPtnGuids(gd, list) \in [Parts -> Slots]
    BY DEF SwitchPtnGuids, Other, Slots
  <1> QED BY <1>1, <1>3, <1>4, <1>5, <1>6 DEF SetBootLun

\* A table the device holds or the host sends is sane.
LEMMA TablesSane ==
  ASSUME NEW t \in Tables
  PROVE  t \in Layouts /\ SaneAttrs(t.attr, FALSE) /\ t.guid \in [Parts -> Slots]
PROOF
  BY TablesAssumption DEF WellFormed, SaneAttrs, Layouts

\* SlotInv holds when the device is first switched on.
LEMMA SlotInvInit == Init => SlotInv
PROOF
  <1> SUFFICES ASSUME Init PROVE SlotInv
    OBVIOUS
  <1>1. gpt \in Layouts /\ SaneAttrs(gpt.attr, FALSE)
        /\ gpt.guid \in [Parts -> Slots]
    BY TablesSane DEF Init
  <1>2. lun \in 0..2 /\ ~Torn
    BY DEF Init, LunOf, Torn
  <1>3. VarsOf(gpt.attr) \in [Slots -> [succ : BOOLEAN, unboot : BOOLEAN,
                                       retry : 0..MAX_RETRY_COUNT]]
    BY <1>1, VarsOfType DEF SaneAttrs
  <1> QED
    BY <1>1, <1>2, <1>3 DEF Init, SlotInv, TypeOK, SaneAttrs

\* A reset leaves the invariant to the state of the device.
LEMMA LoseKeepsSlotInv ==
  ASSUME Lose, gpt' \in Layouts, OneActive(gpt'.attr), lun' \in 0..2,
         wanted' \in Slots \union {NoSlot}
  PROVE  SlotInv'
PROOF
  <1>1. SaneAttrs(gpt'.attr, FALSE) /\ gpt'.guid \in [Parts -> Slots]
        /\ gpt'.attr \in [Slots -> Attrs]
    BY DEF Layouts, SaneAttrs
  <1>2. VarsOf(gpt'.attr) \in [Slots -> [succ : BOOLEAN, unboot : BOOLEAN,
                                        retry : 0..MAX_RETRY_COUNT]]
    BY <1>1, VarsOfType
  <1>3. Torn' = FALSE /\ mishaps' \in SUBSET Mishaps
    BY DEF Lose, Torn
  <1> QED
    BY <1>1, <1>2, <1>3 DEF Lose, SlotInv, TypeOK

\* What every part of SlotInv' says of the attributes, in one piece.
LEMMA SlotInvParts ==
  ASSUME TypeOK', SaneAttrs(attr', Torn'), SaneAttrs(gpt'.attr, FALSE),
         session' => ~Torn', Torn' => "swapped" \in mishaps',
         mode' # "off"
  PROVE  SlotInv'
PROOF
  BY DEF SlotInv

\* The mishaps a set_active adds and takes away are mishaps.
LEMMA MishapsOfType ==
  ASSUME SlotInv, NEW read, NEW works, NEW list
  PROVE  /\ LunMissed(read, works) \in SUBSET {"lun"}
         /\ ListMissed(list) \in SUBSET {"memory"}
         /\ mishaps \in SUBSET Mishaps
PROOF
  BY DEF LunMissed, ListMissed, SlotInv, TypeOK

\* Every action keeps SlotInv.
LEMMA SlotInvStep == SlotInv /\ [Next]_vars => SlotInv'
PROOF
  <1> SUFFICES ASSUME SlotInv, [Next]_vars PROVE SlotInv'
    OBVIOUS
  <1> DEFINE SlotVarsType == [Slots -> [succ : BOOLEAN, unboot : BOOLEAN,
                                        retry : 0..MAX_RETRY_COUNT]]
  <1>a. /\ SaneAttrs(attr, Torn) /\ SaneAttrs(gpt.attr, FALSE)
        /\ Torn \in BOOLEAN
        /\ attr \in [Slots -> Attrs] /\ gpt.attr \in [Slots -> Attrs]
        /\ guid \in [Parts -> Slots] /\ gpt.guid \in [Parts -> Slots]
    BY DEF SlotInv, TypeOK, SaneAttrs, Layouts, Torn
  <1>b. NewSlotVars \in [succ : BOOLEAN, unboot : BOOLEAN,
                        retry : 0..MAX_RETRY_COUNT]
    BY BoundsAssumption DEF NewSlotVars
  <1>c. /\ SaneAttrs(GetActiveSlot(attr), Torn)
        /\ SaneAttrs(GetActiveSlot(gpt.attr), FALSE)
        /\ GetActiveSlot(attr) \in [Slots -> Attrs]
        /\ GetActiveSlot(gpt.attr) \in [Slots -> Attrs]
    BY <1>a, GetActiveSlotSane DEF SaneAttrs
  <1>d. \A works : FirstBootLun(works) \in 0..2
    BY DEF FirstBootLun, SetBootLun, SlotInv, TypeOK
  <1>e. IsFirstBoot(attr) \in BOOLEAN /\ IsFirstBoot(gpt.attr) \in BOOLEAN
    BY DEF IsFirstBoot
  <1>1. CASE LinuxLoaderEntry
    <2>1. VarsOf(GetActiveSlot(gpt.attr)) \in SlotVarsType
      BY <1>c, VarsOfType
    <2>2. ActiveSlotOf(GetActiveSlot(gpt.attr)) \in Slots \union {NoSlot}
      BY ActiveSlotClaims
    <2>3. gpt' = gpt /\ Torn = FALSE /\ Torn' = FALSE /\ mishaps' = {}
      BY <1>1, TableNotWritten DEF LinuxLoaderEntry, SlotInv, history, Torn
    <2> QED
      BY <1>1, <1>a, <1>c, <1>e, <2>1, <2>2, <2>3
      DEF LinuxLoaderEntry, SlotInv, TypeOK, history
  <1>2. CASE ResetDevice
    <2>1. gpt' \in Layouts /\ OneActive(gpt'.attr) /\ lun' \in 0..2
          /\ wanted' \in Slots \union {NoSlot}
      BY <1>2 DEF ResetDevice, disk, SlotInv, TypeOK, SaneAttrs
    <2> QED BY <1>2, <2>1, LoseKeepsSlotInv DEF ResetDevice
  <1>3. CASE CmdSetActiveFails
    BY <1>3 DEF CmdSetActiveFails, disk, memory, published, history,
                SlotInv, TypeOK, Torn
  <1>4. ASSUME NEW arg \in SlotArgs, NEW s \in Slots, CmdSetActive(arg, s)
        PROVE  SlotInv'
    <2>1. SaneAttrs(attr', FALSE) /\ ActiveSlotOf(attr') = s
      BY <1>4, <1>c, SetActiveSlotSane DEF CmdSetActive
    <2>2. PICK read \in BootLunReads, works \in BootLunWrites :
            LET kept == (mishaps \ {"both", "lun"}) \union LunMissed(read, works)
            IN \/ /\ lun' = SetBootLun(MatchBootLun(s, read), works)
                  /\ mishaps' = kept
                  /\ UNCHANGED <<guid, HeadNode>>
               \/ \E list \in MultiSlotPartsLists :
                    /\ HeadNode' = list
                    /\ guid' = SwitchPtnGuids(guid, list)
                    /\ lun' = SetBootLun(SwitchBootLun(s, read, list), works)
                    /\ mishaps' = kept \union ListMissed(list)
      BY <1>4 DEF CmdSetActive
    <2>3. PICK list \in MultiSlotPartsLists :
            \/ /\ lun' = SetBootLun(MatchBootLun(s, read), works)
               /\ mishaps' = (mishaps \ {"both", "lun"})
                             \union LunMissed(read, works)
               /\ UNCHANGED <<guid, HeadNode>>
            \/ /\ HeadNode' = list
               /\ guid' = SwitchPtnGuids(guid, list)
               /\ lun' = SetBootLun(SwitchBootLun(s, read, list), works)
               /\ mishaps' = ((mishaps \ {"both", "lun"})
                             \union LunMissed(read, works))
                             \union ListMissed(list)
      <3>1. MultiSlotPartsLists # {}
        BY DEF MultiSlotPartsLists
      <3> QED BY <2>2, <3>1
    <2>4. lun' \in 0..2 /\ guid' \in [Parts -> Slots]
          /\ HeadNode' \in SUBSET Parts
      <3>1. /\ SetBootLun(MatchBootLun(s, read), works) \in 0..2
            /\ SetBootLun(SwitchBootLun(s, read, list), works) \in 0..2
            /\ list \in SUBSET Parts
            /\ SwitchPtnGuids(guid, list) \in [Parts -> Slots]
        BY <1>a, SwitchTypes
      <3>2. HeadNode \in SUBSET Parts
        BY DEF SlotInv, TypeOK
      <3> QED BY <1>a, <2>3, <3>1, <3>2
    <2>5. mishaps' \in SUBSET Mishaps /\ Torn' = FALSE
      <3>1. /\ LunMissed(read, works) \in SUBSET {"lun"}
            /\ ListMissed(list) \in SUBSET {"memory"}
            /\ mishaps \in SUBSET Mishaps
        BY MishapsOfType
      <3>2. \/ mishaps' = (mishaps \ {"both", "lun"})
                          \union LunMissed(read, works)
            \/ mishaps' = ((mishaps \ {"both", "lun"})
                          \union LunMissed(read, works))
                          \union ListMissed(list)
        BY <2>3
      <3>3. /\ "both" \notin LunMissed(read, works)
            /\ "both" \notin ListMissed(list)
        BY <3>1
      <3>4. "both" \notin mishaps'
        BY <3>2, <3>3
      <3>5. mishaps' \in SUBSET Mishaps
        BY <3>1, <3>2 DEF Mishaps
      <3> QED BY <3>4, <3>5 DEF Torn
    <2>6. gpt' = gpt /\ FirstBoot' \in BOOLEAN /\ booted' = booted
          /\ CurrentSlotFB' = s
      BY <1>4, <2>1, <1>e, TableNotWritten DEF CmdSetActive, SlotInv, TypeOK
    <2>7. /\ mode = "fastboot"
          /\ \/ /\ slotVars' = [slotVars EXCEPT ![s] = NewSlotVars]
                /\ reply' = "OKAY" /\ wanted' = s /\ session' = TRUE
                /\ mode' = mode /\ tableKept' = tableKept
             \/ /\ mode' = "lost" /\ reply' = "none" /\ slotVars' = slotVars
                /\ wanted' = wanted /\ session' = session
                /\ tableKept' = tableKept
      BY <1>4 DEF CmdSetActive
    <2>8. slotVars' \in SlotVarsType
      BY <1>b, <2>7 DEF SlotInv, TypeOK
    <2> HIDE DEF SlotVarsType
    <2>9. /\ mode' \in {"fastboot", "lost"}
          /\ reply' \in {"none", "OKAY", "FAIL"}
          /\ wanted' \in Slots \union {NoSlot}
          /\ session' \in BOOLEAN /\ tableKept' \in BOOLEAN
      <3>1. /\ wanted \in Slots \union {NoSlot}
            /\ session \in BOOLEAN /\ tableKept \in BOOLEAN
        BY DEF SlotInv, TypeOK
      <3> QED BY <2>7, <3>1
    <2>10. attr' \in [Slots -> Attrs] /\ gpt' \in Layouts
           /\ SaneAttrs(gpt'.attr, FALSE)
           /\ booted' \in Slots \union {NoSlot}
           /\ CurrentSlotFB' \in Slots \union {NoSlot}
      BY <2>1, <2>6 DEF SlotInv, TypeOK, SaneAttrs
    <2>11. TypeOK'
      BY <2>4, <2>5, <2>6, <2>8, <2>9, <2>10 DEF TypeOK, SlotVarsType
    <2> QED BY <2>1, <2>5, <2>9, <2>10, <2>11, SlotInvParts
  <1>5. ASSUME NEW arg \in SlotArgs, CmdSetActiveNoSlot(arg) PROVE SlotInv'
    <2>1. SaneAttrs(attr', TRUE)
      BY <1>5, <1>c, SetActiveBothSane DEF CmdSetActiveNoSlot
    <2>2. PICK read \in BootLunReads, works \in BootLunWrites,
               list \in MultiSlotPartsLists :
            /\ HeadNode' = list
            /\ guid' = SwitchPtnGuids(guid, list)
            /\ lun' = SetBootLun(SameBootLun(read, list), works)
            /\ mishaps' = mishaps \union {"both", "swapped"}
                           \union ListMissed(list)
      BY <1>5 DEF CmdSetActiveNoSlot
    <2>3. lun' \in 0..2 /\ guid' \in [Parts -> Slots]
          /\ HeadNode' \in SUBSET Parts
      BY <2>2, <1>a, SwitchTypes
    <2>4. mishaps' \in SUBSET Mishaps /\ Torn' = TRUE /\ "swapped" \in mishaps'
      <3>1. /\ ListMissed(list) \in SUBSET {"memory"}
            /\ mishaps \in SUBSET Mishaps
        BY MishapsOfType
      <3> QED BY <2>2, <3>1 DEF Mishaps, Torn
    <2>5. gpt' = gpt /\ FirstBoot' \in BOOLEAN
          /\ CurrentSlotFB' \in Slots \union {NoSlot}
      BY <1>5, <1>e, TableNotWritten, ActiveSlotClaims
      DEF CmdSetActiveNoSlot, SlotInv, TypeOK
    <2>6. /\ mode' \in {"fastboot", "lost"} /\ reply' \in {"none", "OKAY"}
          /\ session' = FALSE
          /\ UNCHANGED <<booted, wanted, tableKept>>
          /\ \/ slotVars' = slotVars
             \/ \E s \in Slots : slotVars' = [slotVars EXCEPT ![s] = NewSlotVars]
      BY <1>5 DEF CmdSetActiveNoSlot
    <2>7. slotVars' \in SlotVarsType
      BY <1>b, <2>6 DEF SlotInv, TypeOK
    <2> HIDE DEF SlotVarsType
    <2>8. TypeOK'
      BY <2>1, <2>3, <2>4, <2>5, <2>6, <2>7
      DEF TypeOK, SlotInv, SlotVarsType, SaneAttrs
    <2> QED BY <1>a, <2>1, <2>4, <2>5, <2>6, <2>8, SlotInvParts
  <1>6. ASSUME NEW arg \in SlotArgs, CmdSetActiveComma(arg) PROVE SlotInv'
    <2>1. gpt' = gpt
      BY <1>6, TableNotWritten DEF CmdSetActiveComma
    <2> QED
      BY <1>6, <1>c, <1>e, <2>1
      DEF CmdSetActiveComma, published, history, SlotInv, TypeOK, Torn
  <1>7. ASSUME NEW name \in PartitionNames, NEW o \in WriteOutcomes,
               WriteBoot(name, o)
        PROVE  SlotInv'
    <2> DEFINE at == TargetAttrs(name)
               s == TargetSlot(name)
               updates == o \in {"written", "write error"} /\ s # NoSlot
    <2>1. SaneAttrs(at, Torn)
      BY <1>a, <1>c DEF TargetAttrs
    <2>2. s \in Slots \union {NoSlot}
      BY ActiveSlotClaims DEF TargetSlot, Slots
    <2>3. updates => s \in Slots
      BY <2>2
    <2>4. attr' = IF updates THEN FastbootUpdateAttr(at, s) ELSE at
      BY <1>7 DEF WriteBoot
    <2>5. slotVars' = IF updates THEN [slotVars EXCEPT ![s] = NewSlotVars]
                      ELSE slotVars
      BY <1>7 DEF WriteBoot
    <2>6. gpt' = gpt /\ FirstBoot' \in BOOLEAN /\ reply' \in {"OKAY", "FAIL"}
      BY <1>7, <1>e, TableNotWritten DEF WriteBoot, SlotInv, TypeOK
    <2>7. /\ UNCHANGED <<lun, mode, guid, HeadNode, CurrentSlotFB, booted,
                         wanted, session, tableKept, mishaps>>
          /\ mode = "fastboot" /\ Torn' = Torn
      BY <1>7 DEF WriteBoot, history, Torn
    <2>8. SaneAttrs(attr', Torn)
      <3>1. updates => SaneAttrs(FastbootUpdateAttr(at, s), Torn)
        BY <1>a, <2>1, <2>3, FastbootUpdateAttrSane
      <3> QED BY <2>1, <2>4, <3>1
    <2>9. slotVars' \in SlotVarsType
      BY <1>b, <2>3, <2>5 DEF SlotInv, TypeOK
    <2> HIDE DEF at, s, updates
    <2>10. TypeOK'
      BY <2>6, <2>7, <2>8, <2>9 DEF SlotInv, TypeOK, SaneAttrs
    <2> QED BY <2>6, <2>7, <2>8, <2>10, SlotInvParts DEF SlotInv
  <1>8. CASE FlashTableRejected
    BY <1>8, <1>d
    DEF FlashTableRejected, memory, published, SlotInv, TypeOK, Torn
  <1>9. CASE FlashTableNotRefreshed
    <2>1. gpt' \in Layouts /\ SaneAttrs(gpt'.attr, FALSE)
      BY <1>9, TablesSane DEF FlashTableNotRefreshed
    <2> QED
      BY <1>9, <1>d, <2>1
      DEF FlashTableNotRefreshed, memory, published, SlotInv, TypeOK, Torn
  <1>10. CASE FlashTable
    <2>1. PICK t \in Tables :
            /\ attr' = GetActiveSlot(t.attr) /\ guid' = t.guid
            /\ FirstBoot' = (FirstBoot \/ IsFirstBoot(t.attr))
            /\ gpt' = UpdatePartitionAttributes(t, attr', guid')
      BY <1>10 DEF FlashTable
    <2>2. gpt' = t /\ t \in Layouts /\ SaneAttrs(t.attr, FALSE)
          /\ t.guid \in [Parts -> Slots]
      BY <2>1, TableNotWritten, TablesSane
    <2>3. SaneAttrs(attr', FALSE) /\ attr' \in [Slots -> Attrs]
      BY <2>1, <2>2, GetActiveSlotSane DEF SaneAttrs
    <2>4. slotVars' \in SlotVarsType
      BY <1>10, <1>b DEF FlashTable
    <2>5. FirstBoot' \in BOOLEAN
      BY <2>1 DEF IsFirstBoot, SlotInv, TypeOK
    <2>6. mishaps' \in SUBSET Mishaps /\ Torn' = FALSE
      BY <1>10 DEF FlashTable, SlotInv, TypeOK, Torn
    <2>7. /\ lun' \in 0..2 /\ reply' = "OKAY" /\ wanted' = NoSlot
          /\ session' = FALSE /\ tableKept' = FALSE /\ mode = "fastboot"
          /\ UNCHANGED <<mode, HeadNode, CurrentSlotFB, booted>>
      BY <1>10, <1>d DEF FlashTable
    <2>8. gpt' \in Layouts /\ guid' \in [Parts -> Slots]
          /\ SaneAttrs(gpt'.attr, FALSE)
      BY <2>1, <2>2
    <2>9. TypeOK'
      BY <2>3, <2>4, <2>5, <2>6, <2>7, <2>8 DEF SlotInv, TypeOK
    <2> QED BY <2>3, <2>6, <2>7, <2>8, <2>9, SlotInvParts
  <1>11. CASE FlashOtherTable
    <2>1. mishaps' \in SUBSET Mishaps /\ Torn' = FALSE
      BY <1>11 DEF FlashOtherTable, SlotInv, TypeOK, Torn
    <2> QED
      BY <1>11, <1>a, <1>d, <2>1
      DEF FlashOtherTable, published, SlotInv, TypeOK
  <1>12. CASE CmdRefused
    BY <1>12
    DEF CmdRefused, disk, memory, published, history, SlotInv, TypeOK, Torn
  <1>13. CASE CmdGetVar
    <2>1. gpt' = gpt
      BY <1>13, TableNotWritten DEF CmdGetVar
    <2> QED
      BY <1>13, <1>c, <1>e, <2>1
      DEF CmdGetVar, published, history, SlotInv, TypeOK, Torn
  <1>14. ASSUME NEW cmd \in BootCmds, BootWithoutSlot(cmd) PROVE SlotInv'
    <2>1. SaneAttrs(PrepareBoot(cmd), Torn)
          /\ PrepareBoot(cmd) \in [Slots -> Attrs]
      BY PrepareBootSane DEF SaneAttrs
    <2>2. /\ attr' = PrepareBoot(cmd) /\ reply' = "FAIL" /\ mode = "fastboot"
          /\ UNCHANGED <<gpt, mode, booted>>
      BY <1>14 DEF BootWithoutSlot
    <2>3. /\ FirstBoot' \in BOOLEAN
          /\ UNCHANGED <<lun, guid, HeadNode, published, history>>
      BY <1>14, <1>e DEF BootWithoutSlot, BootKeeps, SlotInv, TypeOK
    <2> QED
      BY <2>1, <2>2, <2>3 DEF published, history, SlotInv, TypeOK, Torn
  <1>15. ASSUME NEW cmd \in BootCmds, BootActiveSlot(cmd) PROVE SlotInv'
    <2> DEFINE at == PrepareBoot(cmd)
               s == ActiveSlotOf(at)
    <2>1. SaneAttrs(at, Torn) /\ at \in [Slots -> Attrs] /\ mode = "fastboot"
      BY <1>15, PrepareBootSane DEF SaneAttrs, BootActiveSlot
    <2>2. s \in Slots /\ Claims(at, s)
      BY <1>15, ActiveSlotClaims DEF BootActiveSlot
    <2>3. /\ SaneAttrs(MarkPtnActive(at, s), FALSE)
          /\ ActiveSlotOf(MarkPtnActive(at, s)) = s
      BY <2>1, <2>2, MarkPtnActiveSane
    <2>4. SpendRetry(at, s, cmd = "boot") = at
      BY SpendRetryNone
    <2>5. /\ attr' \in {at, MarkPtnActive(at, s)}
          /\ reply' \in {"OKAY", "FAIL"}
          /\ \/ mode' = "linux" /\ booted' = s
             \/ UNCHANGED <<mode, booted>>
      BY <1>15, <2>4 DEF BootActiveSlot
    <2>6. gpt' = gpt
      BY <1>15, TableNotWritten DEF BootActiveSlot
    <2>7. /\ FirstBoot' \in BOOLEAN
          /\ UNCHANGED <<lun, guid, HeadNode, published, history>>
      BY <1>15, <1>e DEF BootActiveSlot, BootKeeps, SlotInv, TypeOK
    <2>8. SaneAttrs(attr', Torn) /\ attr' \in [Slots -> Attrs]
      BY <2>1, <2>2, <2>3, <2>5 DEF SaneAttrs
    <2> HIDE DEF at, s
    <2>9. mode' \in {"fastboot", "linux"} /\ booted' \in Slots \union {NoSlot}
      BY <2>1, <2>2, <2>5 DEF SlotInv, TypeOK
    <2>10. TypeOK'
      BY <2>5, <2>6, <2>7, <2>8, <2>9
      DEF published, history, SlotInv, TypeOK
    <2> QED
      BY <2>6, <2>7, <2>8, <2>9, <2>10, SlotInvParts
      DEF published, history, SlotInv, Torn
  <1>16. ASSUME NEW cmd \in BootCmds, BootUnbootable(cmd) PROVE SlotInv'
    <2> DEFINE at == PrepareBoot(cmd)
               s == ActiveSlotOf(at)
    <2>1. SaneAttrs(at, Torn)
      BY PrepareBootSane
    <2>2. s \in Slots
      BY <1>16, ActiveSlotClaims DEF BootUnbootable
    <2>3. SaneAttrs(attr', Torn) /\ attr' \in [Slots -> Attrs]
      BY <1>16, <1>a, <2>1, <2>2, UnbootableBitSane DEF BootUnbootable, SaneAttrs
    <2>4. gpt' = gpt
      BY <1>16, TableNotWritten DEF BootUnbootable
    <2> QED
      BY <1>16, <2>3, <2>4
      DEF BootUnbootable, published, history, SlotInv, TypeOK, Torn
  <1>17. ASSUME NEW cmd \in BootCmds, BootFallsBack(cmd) PROVE SlotInv'
    <2>1. gpt' = gpt
      BY <1>17, TableNotWritten DEF BootFallsBack
    <2>2. lun' \in 0..2
      BY <1>17, SwitchTypes DEF BootFallsBack
    <2>3. Lose /\ wanted' = wanted
      BY <1>17 DEF BootFallsBack
    <2> QED BY <2>1, <2>2, <2>3, LoseKeepsSlotInv DEF SlotInv, TypeOK, SaneAttrs
  <1>18. CASE OsMarkSuccessful
    <2>1. gpt' = [gpt EXCEPT !.attr[booted].succ = TRUE]
      BY <1>18 DEF OsMarkSuccessful
    <2> DEFINE new == [gpt.attr EXCEPT ![booted].succ = TRUE]
    <2>a. new \in [Slots -> Attrs]
          /\ \A t \in Slots : /\ new[t].active = gpt.attr[t].active
                              /\ new[t].prio = gpt.attr[t].prio
      <3>1. gpt.attr \in [Slots -> Attrs]
        BY <1>a
      <3>2. CASE booted \in Slots
        BY <3>1, <3>2 DEF Attrs
      <3>3. CASE booted \notin Slots
        <4>1. new = gpt.attr
          BY <3>1, <3>3
        <4> QED BY <3>1, <4>1
      <3> QED BY <3>2, <3>3
    <2>b. OneActive(new)
      BY <2>a, <1>a DEF OneActive, SaneAttrs, Slots
    <2> HIDE DEF new
    <2>c. gpt' = [gpt EXCEPT !.attr = new]
      BY <2>1 DEF new
    <2>2. gpt' \in Layouts /\ SaneAttrs(gpt'.attr, FALSE)
      BY <2>a, <2>b, <2>c DEF SlotInv, TypeOK, Layouts, SaneAttrs
    <2> QED
      BY <1>18, <2>2
      DEF OsMarkSuccessful, memory, published, history, SlotInv, TypeOK, Torn
  <1>19. CASE UNCHANGED vars
    BY <1>19 DEF vars, disk, memory, published, history, SlotInv, TypeOK, Torn
  <1> QED
    BY <1>1, <1>2, <1>3, <1>4, <1>5, <1>6, <1>7, <1>8, <1>9, <1>10, <1>11,
       <1>12, <1>13, <1>14, <1>15, <1>16, <1>17, <1>18, <1>19 DEF Next

-----------------------------------------------------------------------------
(***************************************************************************)
(* The first theorems.                                                     *)
(***************************************************************************)
\* SlotInv is an invariant.
LEMMA SlotInvHolds == Spec => []SlotInv
PROOF
  BY SlotInvInit, SlotInvStep, PTL DEF Spec

\* Every variable of the loader and of the device keeps its type: no counter
\* leaves its bits, no command leaves the state machine.
THEOREM TypeCorrect == Spec => []TypeOK
PROOF
  <1>1. SlotInv => TypeOK
    BY DEF SlotInv
  <1> QED BY <1>1, SlotInvHolds, PTL

\* At most one boot slot is active in PtnEntries unless the last set_active
\* named none, and never in the device's table, for every argument the
\* command lets through, every table and every failure.
THEOREM OneActiveSlotAlways == Spec => []OneActiveSlot
PROOF
  <1>1. SlotInv => OneActiveSlot
    BY DEF SlotInv, OneActiveSlot, SaneAttrs, Torn
  <1> QED BY <1>1, SlotInvHolds, PTL

-----------------------------------------------------------------------------
(***************************************************************************)
(* What the functions leave as it was                                      *)
(***************************************************************************)
\* FindBootableSlot marks the slot that is active already.
LEMMA MarkPtnActiveSame ==
  ASSUME NEW at, SaneAttrs(at, FALSE), NEW s \in Slots, ActiveSlotOf(at) = s
  PROVE  MarkPtnActive(at, s) = at
PROOF
  <1>1. \A t \in Slots : at[t].active = (t = s)
    <2>1. \A t \in Slots : at[t].active \in BOOLEAN
      BY DEF SaneAttrs, Attrs
    <2>2. \A t \in Slots : at[t].active <=> (t = s)
      BY ActiveSlotIsMarked
    <2> QED BY <2>1, <2>2
  <1>2. \A t \in Slots : [at[t] EXCEPT !.active = (t = s)] = at[t]
    <2> SUFFICES ASSUME NEW t \in Slots
                 PROVE  [at[t] EXCEPT !.active = (t = s)] = at[t]
      OBVIOUS
    <2>1. at[t] \in Attrs
      BY DEF SaneAttrs
    <2>2. [at[t] EXCEPT !.active = at[t].active] = at[t]
      BY <2>1 DEF Attrs
    <2> QED BY <1>1, <2>2
  <1> QED BY <1>2 DEF MarkPtnActive, SaneAttrs

\* Asking for the active slot changes nothing but a blank slot a, and finds
\* the same slot when it is asked again.
LEMMA GetActiveSlotKeeps ==
  ASSUME NEW at, NEW torn \in BOOLEAN, SaneAttrs(at, torn)
  PROVE  /\ GetActiveSlot(at)["b"] = at["b"]
         /\ ~IsFirstBoot(at) => GetActiveSlot(at) = at
         /\ ~IsFirstBoot(GetActiveSlot(at))
         /\ IsFirstBoot(at) => ActiveSlotOf(GetActiveSlot(at)) = "a"
PROOF
  <1>1. CASE ~IsFirstBoot(at)
    BY <1>1 DEF GetActiveSlot
  <1>2. CASE IsFirstBoot(at)
    <2>0. SaneAttrs(at, FALSE)
      BY <1>2 DEF SaneAttrs, IsFirstBoot, Slots, NoSlot
    <2>1. GetActiveSlot(at) = [at EXCEPT !["a"] = FreshDefault]
      BY <1>2 DEF GetActiveSlot
    <2>2. GetActiveSlot(at)["a"] = FreshDefault
          /\ GetActiveSlot(at)["b"] = at["b"]
      BY <2>0, <2>1 DEF SaneAttrs, Slots
    <2>3. GetActiveSlot(at)["a"].active
      BY <2>2 DEF FreshDefault
    <2>4. ActiveSlotOf(GetActiveSlot(at)) = "a"
      BY <2>0, <2>3, GetActiveSlotSane, ActiveSlotIsMarked DEF Slots
    <2> QED BY <1>2, <2>2, <2>3, <2>4 DEF IsFirstBoot
  <1> QED BY <1>1, <1>2

\* Of two sane entries only the active marks matter, not the priorities.
LEMMA SameMarksSameActive ==
  ASSUME NEW at, SaneAttrs(at, FALSE), NEW new, SaneAttrs(new, FALSE),
         \A t \in Slots : new[t].active = at[t].active
  PROVE  ActiveSlotOf(new) = ActiveSlotOf(at)
PROOF
  <1>1. /\ ActiveSlotOf(at) \in Slots \union {NoSlot}
        /\ \A s \in Slots : (ActiveSlotOf(at) = s) <=> at[s].active
    BY ActiveSlotIsMarked
  <1>2. /\ ActiveSlotOf(new) \in Slots \union {NoSlot}
        /\ \A s \in Slots : (ActiveSlotOf(new) = s) <=> new[s].active
    BY ActiveSlotIsMarked
  <1> QED BY <1>1, <1>2 DEF Slots, NoSlot

\* continue and boot change nothing but the unbootable bit of the active
\* slot, and that only for the better.
LEMMA PrepareBootKeeps ==
  ASSUME SlotInv, NEW cmd
  PROVE  LET at == GetActiveSlot(attr)
             new == PrepareBoot(cmd)
         IN /\ ActiveSlotOf(new) = ActiveSlotOf(at)
            /\ \A t \in Slots :
                 /\ new[t].active = at[t].active /\ new[t].prio = at[t].prio
                 /\ new[t].succ = at[t].succ /\ new[t].retry = at[t].retry
                 /\ IsBootable(at, t) => IsBootable(new, t)
                 /\ t # ActiveSlotOf(at) => new[t] = at[t]
PROOF
  <1> DEFINE at == GetActiveSlot(attr)
             new == PrepareBoot(cmd)
             s == ActiveSlotOf(at)
  <1>1. at \in [Slots -> Attrs] /\ new \in [Slots -> Attrs]
    <2>1. SaneAttrs(attr, Torn) /\ Torn \in BOOLEAN
      BY DEF SlotInv, Torn
    <2>2. SaneAttrs(at, Torn) /\ SaneAttrs(new, Torn)
      BY <2>1, GetActiveSlotSane, PrepareBootSane
    <2> QED BY <2>2 DEF SaneAttrs
  <1>2. \/ new = at
        \/ s \in Slots /\ new = [at EXCEPT ![s].unboot = FALSE]
    <2>1. s \in Slots \union {NoSlot}
      BY ActiveSlotClaims
    <2>2. new = at \/ new = ClearUnbootable(at)
      BY DEF PrepareBoot
    <2> HIDE DEF at, new
    <2>3. CASE s = NoSlot
      BY <2>2, <2>3 DEF ClearUnbootable
    <2>4. CASE s # NoSlot
      BY <2>1, <2>2, <2>4 DEF ClearUnbootable
    <2> QED BY <2>3, <2>4
  <1> HIDE DEF at, new, s
  <1>3. \A t \in Slots :
          /\ new[t].active = at[t].active /\ new[t].prio = at[t].prio
          /\ new[t].succ = at[t].succ /\ new[t].retry = at[t].retry
          /\ IsBootable(at, t) => IsBootable(new, t)
          /\ t # s => new[t] = at[t]
    BY <1>1, <1>2 DEF Attrs, IsBootable
  <1>4. ActiveSlotOf(new) = s
    BY <1>3, SamePriosSameActive DEF s
  <1> QED BY <1>3, <1>4 DEF at, new, s

\* What BootActiveSlot does to the state: when both slots are marked it
\* leaves only the one it chose.
LEMMA BootActiveSlotEffect ==
  ASSUME SlotInv, NEW cmd \in BootCmds, BootActiveSlot(cmd)
  PROVE  LET at == PrepareBoot(cmd)
             s == ActiveSlotOf(at)
         IN /\ s \in Slots /\ IsBootable(at, s)
            /\ ActiveSlotOf(attr') = s
            /\ \A t \in Slots :
                 /\ attr'[t].succ = at[t].succ /\ attr'[t].retry = at[t].retry
                 /\ attr'[t].unboot = at[t].unboot
            /\ ~Torn => attr' = at
            /\ gpt' = gpt /\ mode = "fastboot"
            /\ UNCHANGED <<lun, guid, HeadNode, CurrentSlotFB, slotVars,
                           wanted, session, tableKept, mishaps>>
            /\ \/ /\ mode' = "linux" /\ booted' = s
                  /\ \E read \in BootLunReads : ValidateSlotGuids(s, read)
               \/ UNCHANGED <<mode, booted>>
PROOF
  <1> DEFINE at == PrepareBoot(cmd)
             s == ActiveSlotOf(at)
             new == MarkPtnActive(at, s)
  <1>1. SaneAttrs(at, Torn) /\ at \in [Slots -> Attrs]
    BY PrepareBootSane DEF SaneAttrs
  <1>2. s \in Slots /\ Claims(at, s) /\ IsBootable(at, s) /\ mode = "fastboot"
    BY ActiveSlotClaims DEF BootActiveSlot
  <1>3. SpendRetry(at, s, cmd = "boot") = at
    BY SpendRetryNone
  <1>4. PICK read \in BootLunReads, loaded \in BOOLEAN :
          IF ValidateSlotGuids(s, read)
          THEN /\ attr' = new
               /\ IF loaded
                  THEN mode' = "linux" /\ booted' = s /\ reply' = "OKAY"
                  ELSE reply' = "FAIL" /\ UNCHANGED <<mode, booted>>
          ELSE /\ attr' = at
               /\ reply' = "FAIL" /\ UNCHANGED <<mode, booted>>
    BY <1>3 DEF BootActiveSlot
  <1>5. gpt' = gpt
    BY TableNotWritten DEF BootActiveSlot
  <1>6. UNCHANGED <<lun, guid, HeadNode, CurrentSlotFB, slotVars,
                    wanted, session, tableKept, mishaps>>
    BY DEF BootActiveSlot, BootKeeps, published, history
  <1>7. /\ ActiveSlotOf(new) = s
        /\ \A t \in Slots :
             /\ new[t].succ = at[t].succ /\ new[t].retry = at[t].retry
             /\ new[t].unboot = at[t].unboot
    <2> HIDE DEF at, s
    <2>1. LET m == MarkPtnActive(at, s)
          IN /\ SaneAttrs(m, FALSE) /\ ActiveSlotOf(m) = s
             /\ \A t \in Slots :
                  /\ m[t].active = (t = s) /\ m[t].prio = at[t].prio
                  /\ m[t].succ = at[t].succ /\ m[t].retry = at[t].retry
                  /\ m[t].unboot = at[t].unboot
      BY <1>1, <1>2, MarkPtnActiveSane
    <2> QED BY <2>1
  <1>8. ~Torn => new = at
    <2>1. ~Torn => SaneAttrs(at, FALSE)
      BY <1>1 DEF SaneAttrs
    <2> QED BY <1>2, <2>1, MarkPtnActiveSame
  <1>9. attr' \in {at, new} /\ ActiveSlotOf(at) = s
    BY <1>4
  <1> HIDE DEF at, s, new
  <1>10. \/ /\ mode' = "linux" /\ booted' = s
            /\ \E r \in BootLunReads : ValidateSlotGuids(s, r)
         \/ UNCHANGED <<mode, booted>>
    BY <1>4
  <1>11. /\ ActiveSlotOf(attr') = s
         /\ \A t \in Slots :
              /\ attr'[t].succ = at[t].succ /\ attr'[t].retry = at[t].retry
              /\ attr'[t].unboot = at[t].unboot
         /\ ~Torn => attr' = at
    BY <1>7, <1>8, <1>9
  <1> QED BY <1>2, <1>5, <1>6, <1>10, <1>11 DEF at, s

-----------------------------------------------------------------------------
(***************************************************************************)
(* Booted slots and published variables                                    *)
(***************************************************************************)
\* Every step keeps BootedSlotSound: Linux is entered by BootActiveSlot only,
\* and what that checked is true of the state it leaves.
LEMMA BootedSlotSoundStep ==
  SlotInv /\ BootedSlotSound /\ [Next]_vars => BootedSlotSound'
PROOF
  <1> SUFFICES ASSUME SlotInv, BootedSlotSound, [Next]_vars, mode' = "linux"
               PROVE  BootedSlotSound'
    BY DEF BootedSlotSound
  <1>1. ASSUME NEW cmd \in BootCmds, BootActiveSlot(cmd)
        PROVE  BootedSlotSound'
    <2> DEFINE at == PrepareBoot(cmd)
               s == ActiveSlotOf(at)
    <2>1. /\ s \in Slots /\ IsBootable(at, s) /\ s = ActiveSlotOf(attr')
          /\ attr'[s].succ = at[s].succ /\ attr'[s].retry = at[s].retry
          /\ attr'[s].unboot = at[s].unboot
          /\ mode = "fastboot" /\ UNCHANGED <<lun, guid>>
          /\ booted' = s /\ \E read \in BootLunReads : ValidateSlotGuids(s, read)
      BY <1>1, BootActiveSlotEffect
    <2>2. IsBootable(attr', s)
      BY <2>1 DEF IsBootable
    <2> HIDE DEF s
    <2>3. PICK read \in BootLunReads : ValidateSlotGuids(s, read)
      BY <2>1
    <2>4. RootDevice = "UFS" => lun = LunOf(s)
      BY <2>3 DEF ValidateSlotGuids, BootLunReads, LunOf
    <2>5. TypeGuid("boot", booted)' # TypeGuid("abl", booted)'
      BY <2>1, <2>3 DEF ValidateSlotGuids, TypeGuid
    <2> QED
      BY <2>1, <2>2, <2>4, <2>5 DEF BootedSlotSound, IsBootable
  <1>2. CASE UNCHANGED <<mode, lun, attr, guid, booted>>
    BY <1>2 DEF BootedSlotSound, TypeGuid
  <1>3. ASSUME ~\E cmd \in BootCmds : BootActiveSlot(cmd)
        PROVE  UNCHANGED <<mode, lun, attr, guid, booted>>
    BY <1>3 DEF Next, LinuxLoaderEntry, ResetDevice, Lose, CmdSetActiveFails,
         CmdSetActive, CmdSetActiveNoSlot, CmdSetActiveComma, WriteBoot,
         FlashTableRejected, FlashTableNotRefreshed, FlashTable,
         FlashOtherTable, CmdRefused, CmdGetVar, BootWithoutSlot,
         BootUnbootable, BootFallsBack, OsMarkSuccessful, vars, disk, memory,
         published, history
  <1> QED BY <1>1, <1>2, <1>3

\* With the variables right, the first-boot default is past: GetActiveSlot
\* will not change an entry behind the variables' back any more.
PublishedInv ==
  mode = "fastboot" /\ tableKept /\ "swapped" \notin mishaps =>
    /\ ~IsFirstBoot(attr)
    /\ CurrentSlotFB = ActiveSlotOf(attr)
    /\ \A s \in Slots : /\ slotVars[s].retry = attr[s].retry
                        /\ slotVars[s].succ = attr[s].succ

\* In fastboot, asking for the active slot is without effect as long as the
\* variables are right.
LEMMA NoDefaultLeft ==
  ASSUME SlotInv, ~IsFirstBoot(attr)
  PROVE  GetActiveSlot(attr) = attr
PROOF
  BY DEF GetActiveSlot

\* Every step keeps PublishedInv.
LEMMA PublishedInvStep ==
  SlotInv /\ PublishedInv /\ [Next]_vars => PublishedInv'
PROOF
  <1> SUFFICES ASSUME SlotInv, PublishedInv, [Next]_vars,
                      mode' = "fastboot", tableKept', "swapped" \notin mishaps'
               PROVE  /\ ~IsFirstBoot(attr')
                      /\ CurrentSlotFB' = ActiveSlotOf(attr')
                      /\ \A s \in Slots :
                           /\ slotVars'[s].retry = attr'[s].retry
                           /\ slotVars'[s].succ = attr'[s].succ
    BY DEF PublishedInv
  <1> DEFINE Right(at, cur, v) ==
               /\ ~IsFirstBoot(at) /\ cur = ActiveSlotOf(at)
               /\ \A s \in Slots : v[s].retry = at[s].retry
                                  /\ v[s].succ = at[s].succ
  <1>a. SaneAttrs(attr', FALSE) /\ SaneAttrs(gpt.attr, FALSE)
    BY SlotInvStep DEF SlotInv, SaneAttrs
  <1> DEFINE Was == mode = "fastboot" /\ tableKept /\ "swapped" \notin mishaps
  <1>b. Was => /\ Right(attr, CurrentSlotFB, slotVars)
               /\ GetActiveSlot(attr) = attr
               /\ ~Torn /\ SaneAttrs(attr, FALSE)
    BY NoDefaultLeft DEF PublishedInv, SlotInv, SaneAttrs
  <1>c. slotVars \in [Slots -> [succ : BOOLEAN, unboot : BOOLEAN,
                               retry : 0..MAX_RETRY_COUNT]]
    BY DEF SlotInv, TypeOK
  <1> SUFFICES Right(attr', CurrentSlotFB', slotVars')
    OBVIOUS
  <1>1. CASE LinuxLoaderEntry
    <2>1. attr' = GetActiveSlot(gpt.attr) /\ CurrentSlotFB' = ActiveSlotOf(attr')
          /\ slotVars' = VarsOf(attr')
      BY <1>1 DEF LinuxLoaderEntry
    <2>2. ~IsFirstBoot(attr')
      BY <1>a, <2>1, GetActiveSlotKeeps
    <2> QED BY <2>1, <2>2 DEF VarsOf
  <1>2. ASSUME NEW arg \in SlotArgs, NEW s \in Slots, CmdSetActive(arg, s)
        PROVE  Right(attr', CurrentSlotFB', slotVars')
    <2>0. "swapped" \notin mishaps
      BY <1>2 DEF CmdSetActive
    <2>1. /\ Was
          /\ attr' = SetActiveSlot(GetActiveSlot(attr), s, TRUE)
          /\ CurrentSlotFB' = ActiveSlotOf(attr')
          /\ slotVars' = [slotVars EXCEPT ![s] = NewSlotVars]
      BY <1>2, <2>0 DEF CmdSetActive
    <2> HIDE DEF Right, Was
    <2>2. GetActiveSlot(attr) = attr /\ Right(attr, CurrentSlotFB, slotVars)
      BY <1>b, <2>1
    <2>3. ActiveSlotOf(attr') = s
      BY <1>b, <2>1, <2>2, SetActiveSlotSane DEF SaneAttrs
    <2>4. ~IsFirstBoot(attr')
      BY <2>1, <2>3 DEF IsFirstBoot, Slots, NoSlot
    <2>5. ASSUME NEW t \in Slots
          PROVE  attr'[t].succ = (IF t = s THEN FALSE ELSE attr[t].succ)
                 /\ attr'[t].retry = IF t = s THEN MAX_RETRY_COUNT
                                     ELSE attr[t].retry
      <3>1. attr[t] \in Attrs
        BY <1>b, <2>1 DEF SaneAttrs
      <3> QED BY <2>1, <2>2, <3>1 DEF SetActiveSlot, MarkPtnActive, Attrs
    <2>6. ASSUME NEW t \in Slots
          PROVE  slotVars'[t].succ = attr'[t].succ
                 /\ slotVars'[t].retry = attr'[t].retry
      BY <1>c, <2>1, <2>2, <2>5 DEF NewSlotVars, Right
    <2> QED BY <2>1, <2>4, <2>6 DEF Right
  <1>3. ASSUME NEW name \in PartitionNames, NEW o \in WriteOutcomes,
               WriteBoot(name, o)
        PROVE  Right(attr', CurrentSlotFB', slotVars')
    <2> DEFINE s == TargetSlot(name)
    <2>1. /\ Was /\ CurrentSlotFB' = CurrentSlotFB
          /\ \/ /\ s # NoSlot
                /\ attr' = FastbootUpdateAttr(TargetAttrs(name), s)
                /\ slotVars' = [slotVars EXCEPT ![s] = NewSlotVars]
             \/ attr' = TargetAttrs(name) /\ slotVars' = slotVars
      BY <1>3 DEF WriteBoot, history
    <2>2. TargetAttrs(name) = attr /\ Right(attr, CurrentSlotFB, slotVars)
      BY <1>b, <2>1 DEF TargetAttrs
    <2>3. s \in Slots \union {NoSlot} /\ SaneAttrs(attr, FALSE)
      BY <1>b, <2>1, ActiveSlotClaims DEF TargetSlot, Slots
    <2> HIDE DEF s, Right, Was
    <2>4. CASE attr' = attr /\ slotVars' = slotVars
      BY <2>1, <2>2, <2>4
    <2>5. CASE /\ s # NoSlot /\ attr' = FastbootUpdateAttr(attr, s)
               /\ slotVars' = [slotVars EXCEPT ![s] = NewSlotVars]
      <3>1. s \in Slots /\ attr \in [Slots -> Attrs]
        BY <2>3, <2>5 DEF SaneAttrs
      <3>2. ASSUME NEW t \in Slots
            PROVE  /\ attr'[t].active = attr[t].active
                   /\ t # s => attr'[t] = attr[t]
                   /\ t = s => /\ attr'[t].succ = FALSE
                               /\ attr'[t].retry = MAX_RETRY_COUNT
                               /\ attr'[t].prio = MAX_PRIORITY
        BY <2>5, <3>1 DEF FastbootUpdateAttr, Attrs
      <3>3. ActiveSlotOf(attr') = ActiveSlotOf(attr)
        BY <1>a, <2>3, <3>2, SameMarksSameActive
      <3>4. ~IsFirstBoot(attr')
        <4>1. ~IsFirstBoot(attr)
          BY <2>2 DEF Right
        <4>2. MAX_PRIORITY # 0
          BY BoundsAssumption
        <4> QED BY <3>2, <3>3, <4>1, <4>2 DEF IsFirstBoot, Slots
      <3>5. ASSUME NEW t \in Slots
            PROVE  slotVars'[t].succ = attr'[t].succ
                   /\ slotVars'[t].retry = attr'[t].retry
        BY <1>c, <2>2, <2>5, <3>1, <3>2 DEF NewSlotVars, Right
      <3> QED BY <2>1, <2>2, <3>3, <3>4, <3>5 DEF Right
    <2> QED BY <2>1, <2>2, <2>4, <2>5
  <1>4. ASSUME NEW cmd \in BootCmds, attr' = PrepareBoot(cmd), Was,
               UNCHANGED <<CurrentSlotFB, slotVars>>
        PROVE  Right(attr', CurrentSlotFB', slotVars')
    <2>1. GetActiveSlot(attr) = attr /\ Right(attr, CurrentSlotFB, slotVars)
      BY <1>b, <1>4
    <2>2. /\ ActiveSlotOf(attr') = ActiveSlotOf(attr)
          /\ \A t \in Slots :
               /\ attr'[t].active = attr[t].active /\ attr'[t].prio = attr[t].prio
               /\ attr'[t].succ = attr[t].succ /\ attr'[t].retry = attr[t].retry
               /\ t # ActiveSlotOf(attr) => attr'[t] = attr[t]
      BY <1>4, <2>1, PrepareBootKeeps
    <2>3. ~IsFirstBoot(attr')
      BY <2>1, <2>2 DEF IsFirstBoot, Slots, NoSlot
    <2> QED BY <1>4, <2>1, <2>2, <2>3
  <1>5. ASSUME NEW cmd \in BootCmds, BootUnbootable(cmd)
        PROVE  Right(attr', CurrentSlotFB', slotVars')
    <2> DEFINE at == PrepareBoot(cmd)
               s == ActiveSlotOf(at)
    <2>1. /\ Was /\ s # NoSlot
          /\ UNCHANGED <<CurrentSlotFB, slotVars>>
          /\ attr' = MarkUnbootable(at, s)
      BY <1>5 DEF BootUnbootable, published, history
    <2>2. GetActiveSlot(attr) = attr /\ Right(attr, CurrentSlotFB, slotVars)
      BY <1>b, <2>1
    <2>3. /\ s = ActiveSlotOf(attr)
          /\ \A t \in Slots :
               /\ at[t].active = attr[t].active /\ at[t].prio = attr[t].prio
               /\ at[t].succ = attr[t].succ /\ at[t].retry = attr[t].retry
      BY <2>2, PrepareBootKeeps
    <2>4. at \in [Slots -> Attrs] /\ s \in Slots
      BY <2>1, PrepareBootSane, ActiveSlotClaims DEF SaneAttrs
    <2> HIDE DEF at, s, Right, Was
    <2>5. \A t \in Slots :
            /\ attr'[t].active = at[t].active /\ attr'[t].prio = at[t].prio
            /\ attr'[t].succ = at[t].succ /\ attr'[t].retry = at[t].retry
      BY <2>1, <2>4 DEF MarkUnbootable, Attrs
    <2>6. ActiveSlotOf(attr') = s
      BY <2>3, <2>5, SamePriosSameActive
    <2>7. ~IsFirstBoot(attr')
      BY <2>1, <2>6 DEF IsFirstBoot
    <2> QED BY <2>1, <2>2, <2>3, <2>5, <2>6, <2>7 DEF Right
  <1>6. CASE Was /\ UNCHANGED <<attr, CurrentSlotFB, slotVars>>
    BY <1>6, <1>b
  <1>7. CASE CmdGetVar \/ \E arg \in SlotArgs : CmdSetActiveComma(arg)
    <2>1. Was /\ attr' = GetActiveSlot(attr)
          /\ UNCHANGED <<CurrentSlotFB, slotVars>>
      BY <1>7 DEF CmdGetVar, CmdSetActiveComma, published, history
    <2> QED BY <1>b, <2>1
  <1>8. ASSUME NEW cmd \in BootCmds, BootWithoutSlot(cmd)
        PROVE  Right(attr', CurrentSlotFB', slotVars')
    <2>1. attr' = PrepareBoot(cmd) /\ Was
          /\ UNCHANGED <<CurrentSlotFB, slotVars>>
      BY <1>8 DEF BootWithoutSlot, BootKeeps, published, history
    <2> QED BY <1>4, <2>1
  <1>9. ASSUME NEW cmd \in BootCmds, BootActiveSlot(cmd)
        PROVE  Right(attr', CurrentSlotFB', slotVars')
    <2>1. attr' = PrepareBoot(cmd) /\ Was
          /\ UNCHANGED <<CurrentSlotFB, slotVars>>
      BY <1>9, <1>b, BootActiveSlotEffect
    <2> QED BY <1>4, <2>1
  <1> HIDE DEF Right, Was
  <1>10. CASE \/ ResetDevice \/ FlashTableRejected \/ FlashTableNotRefreshed
              \/ FlashTable \/ FlashOtherTable \/ OsMarkSuccessful
              \/ \E arg \in SlotArgs : CmdSetActiveNoSlot(arg)
              \/ \E cmd \in BootCmds : BootFallsBack(cmd)
    BY <1>10 DEF ResetDevice, Lose, FlashTableRejected, FlashTableNotRefreshed,
                 FlashTable, FlashOtherTable, OsMarkSuccessful, BootFallsBack,
                 CmdSetActiveNoSlot
  <1>11. CASE CmdSetActiveFails \/ CmdRefused \/ UNCHANGED vars
    BY <1>6, <1>11 DEF Was, CmdSetActiveFails, CmdRefused, vars, memory,
                       published, history
  <1> QED
    BY <1>1, <1>2, <1>3, <1>5, <1>7, <1>8, <1>9, <1>10, <1>11 DEF Next

\* For every device, table, command and failure, BootLinux is only given a slot that
\* is active, may be tried, has its GUIDs and, on UFS, the boot LUN.
THEOREM BootedSlotAlwaysSound == Spec => []BootedSlotSound
PROOF
  <1>1. Init => BootedSlotSound
    BY DEF Init, BootedSlotSound
  <1> QED BY <1>1, SlotInvHolds, BootedSlotSoundStep, PTL DEF Spec

\* Until a table is flashed or a set_active names no slot, current-slot and the published retry counts and
\* successes are the attributes in PtnEntries, after every command.
THEOREM PublishedAlwaysFaithful == Spec => []PublishedFaithful
PROOF
  <1>1. Init => PublishedInv
    BY DEF Init, PublishedInv
  <1>2. PublishedInv => PublishedFaithful
    BY DEF PublishedInv, PublishedFaithful
  <1> QED BY <1>1, <1>2, SlotInvHolds, PublishedInvStep, PTL DEF Spec

-----------------------------------------------------------------------------
(***************************************************************************)
(* The type GUIDs                                                          *)
(***************************************************************************)
AllAgree(gd) == \A p, q \in Parts : gd[p] = gd[q]

\* As long as every list of parts was whole, the GUIDs name one slot, which
\* a set_active without a slot makes the wrong one; the device's follow.
GuidInv ==
  /\ GuidsFollow(gpt.attr, gpt.guid)
  /\ "memory" \notin mishaps =>
       /\ HeadNode \in {{}, Parts} /\ AllAgree(guid)
       /\ "swapped" \notin mishaps => GuidsFollow(attr, guid)

\* Whom the GUIDs should follow is a matter of one mark.
LEMMA GuidsFollowMark ==
  ASSUME NEW at, NEW new, new["b"].active = at["b"].active,
         NEW gd, GuidsFollow(at, gd)
  PROVE  GuidsFollow(new, gd)
PROOF
  BY DEF GuidsFollow

\* GUIDs that follow a slot agree.
LEMMA FollowersAgree ==
  ASSUME NEW at, NEW gd, GuidsFollow(at, gd)
  PROVE  AllAgree(gd)
PROOF
  BY DEF GuidsFollow, AllAgree

\* Unless "memory" is noted, the list was whole, and the swap a whole swap.
LEMMA SwapAgrees ==
  ASSUME GuidInv, "memory" \notin mishaps, NEW list \in MultiSlotPartsLists,
         "memory" \notin ListMissed(list)
  PROVE  /\ list = Parts
         /\ \A p \in Parts : SwitchPtnGuids(guid, list)[p] = Other(guid[p])
         /\ AllAgree(SwitchPtnGuids(guid, list))
PROOF
  <1>1. HaveList(list)
    BY DEF ListMissed
  <1>2. list = Parts
    BY <1>1 DEF HaveList, MultiSlotPartsLists, GuidInv
  <1>3. \A p \in Parts : SwitchPtnGuids(guid, list)[p] = Other(guid[p])
    BY <1>1, <1>2 DEF SwitchPtnGuids
  <1> QED BY <1>2, <1>3 DEF GuidInv, AllAgree

\* It takes the GUIDs from the slot that was active to the other one.
LEMMA SwapFollows ==
  ASSUME SlotInv, GuidInv, mishaps \intersect {"memory", "swapped"} = {},
         NEW s \in Slots,
         ActiveSlotOf(GetActiveSlot(attr)) \in Slots \ {s},
         NEW list \in MultiSlotPartsLists, "memory" \notin ListMissed(list)
  PROVE  GuidsFollow(SetActiveSlot(GetActiveSlot(attr), s, TRUE),
                     SwitchPtnGuids(guid, list))
PROOF
  <1> DEFINE at == GetActiveSlot(attr)
             new == SetActiveSlot(at, s, TRUE)
  <1>0. "memory" \notin mishaps /\ "swapped" \notin mishaps
    OBVIOUS
  <1>1. SaneAttrs(attr, FALSE)
    BY <1>0 DEF SlotInv, SaneAttrs
  <1>2. /\ SaneAttrs(at, FALSE) /\ SaneAttrs(new, FALSE)
        /\ ActiveSlotOf(new) = s
    <2>1. SaneAttrs(at, FALSE)
      BY <1>1, GetActiveSlotSane
    <2> QED BY <2>1, SetActiveSlotSane DEF SaneAttrs
  <1>3. at["b"].active <=> s = "a"
    <2>1. ActiveSlotOf(at) = "b" <=> s = "a"
      BY DEF Slots
    <2> QED BY <1>2, <2>1, ActiveSlotIsMarked DEF Slots
  <1>4. new["b"].active <=> s = "b"
    BY <1>2, ActiveSlotIsMarked DEF Slots
  <1>5. attr["b"].active <=> s = "a"
    BY <1>1, <1>3, GetActiveSlotKeeps
  <1> HIDE DEF at, new
  <1>6. \A p \in Parts : guid[p] = IF s = "a" THEN "b" ELSE "a"
    BY <1>0, <1>5 DEF GuidInv, GuidsFollow
  <1>7. \A p \in Parts : SwitchPtnGuids(guid, list)[p] = Other(guid[p])
    BY <1>0, SwapAgrees
  <1>8. s = "a" \/ s = "b"
    BY DEF Slots
  <1> QED BY <1>4, <1>6, <1>7, <1>8 DEF GuidsFollow, Other, at, new

\* Every step keeps GuidInv.
LEMMA GuidInvStep == SlotInv /\ GuidInv /\ [Next]_vars => GuidInv'
PROOF
  <1> SUFFICES ASSUME SlotInv, GuidInv, [Next]_vars PROVE GuidInv'
    OBVIOUS
  <1>a. /\ SaneAttrs(gpt.attr, FALSE) /\ SaneAttrs(attr, Torn)
        /\ Torn \in BOOLEAN
        /\ "swapped" \notin mishaps => SaneAttrs(attr, FALSE) /\ ~Torn
    BY DEF SlotInv, SaneAttrs, Torn
  <1>b. /\ GuidsFollow(GetActiveSlot(gpt.attr), gpt.guid)
        /\ mishaps \intersect {"memory", "swapped"} = {} =>
             GuidsFollow(GetActiveSlot(attr), guid)
    <2>1. GuidsFollow(GetActiveSlot(gpt.attr), gpt.guid)
      BY <1>a, GetActiveSlotKeeps, GuidsFollowMark DEF GuidInv
    <2>2. ASSUME mishaps \intersect {"memory", "swapped"} = {}
          PROVE  GuidsFollow(GetActiveSlot(attr), guid)
      <3>1. SaneAttrs(attr, FALSE) /\ GuidsFollow(attr, guid)
        BY <1>a, <2>2 DEF GuidInv
      <3> QED BY <3>1, GetActiveSlotKeeps, GuidsFollowMark
    <2> QED BY <2>1, <2>2
  <1>c. \A t \in Tables : GuidsFollow(GetActiveSlot(t.attr), t.guid)
                          /\ GuidsFollow(t.attr, t.guid)
    <2>1. \A t \in Tables : SaneAttrs(t.attr, FALSE)
                            /\ GuidsFollow(t.attr, t.guid)
      BY TablesSane, TablesAssumption DEF WellFormed
    <2> QED BY <2>1, GetActiveSlotKeeps, GuidsFollowMark
  \* The commands that leave the GUIDs, the marks and the device alone.
  <1>d. ASSUME UNCHANGED <<gpt, guid, HeadNode, mishaps>>,
               mishaps \intersect {"memory", "swapped"} = {} =>
                 attr'["b"].active = GetActiveSlot(attr)["b"].active
        PROVE  GuidInv'
    <2>1. mishaps \intersect {"memory", "swapped"} = {} =>
            GuidsFollow(attr', guid)
      BY <1>b, <1>d, GuidsFollowMark
    <2> QED BY <1>d, <2>1 DEF GuidInv
  <1>1. CASE LinuxLoaderEntry
    <2>1. /\ gpt' = gpt /\ attr' = GetActiveSlot(gpt.attr) /\ guid' = gpt.guid
          /\ UNCHANGED <<HeadNode, mishaps>>
      BY <1>1, TableNotWritten DEF LinuxLoaderEntry, history
    <2> QED BY <1>b, <2>1, FollowersAgree DEF GuidInv
  <1>2. CASE ResetDevice \/ \E cmd \in BootCmds : BootFallsBack(cmd)
    <2>1. gpt' = gpt /\ Lose
      BY <1>2, TableNotWritten DEF ResetDevice, BootFallsBack, disk
    <2>2. /\ attr' = gpt.attr /\ guid' = gpt.guid /\ HeadNode' = {}
          /\ mishaps' = {}
      BY <2>1 DEF Lose
    <2> QED BY <2>1, <2>2, FollowersAgree DEF GuidInv
  <1>3. ASSUME NEW arg \in SlotArgs, NEW s \in Slots, CmdSetActive(arg, s)
        PROVE  GuidInv'
    <2> DEFINE at == GetActiveSlot(attr)
               cur == ActiveSlotOf(at)
    <2>1. attr' = SetActiveSlot(at, s, TRUE) /\ gpt' = gpt
      BY <1>3, TableNotWritten DEF CmdSetActive
    <2>2. \/ /\ cur = s /\ UNCHANGED <<guid, HeadNode>>
             /\ mishaps \ {"both", "lun"} \subseteq mishaps'
          \/ /\ cur # s
             /\ \E list \in MultiSlotPartsLists :
                  /\ HeadNode' = list /\ guid' = SwitchPtnGuids(guid, list)
                  /\ mishaps \ {"both", "lun"} \subseteq mishaps'
                  /\ ListMissed(list) \subseteq mishaps'
      BY <1>3 DEF CmdSetActive
    <2>3. cur \in Slots /\ SaneAttrs(at, Torn)
      BY <1>3, <1>a, GetActiveSlotSane, ActiveSlotClaims DEF CmdSetActive
    <2>4. SaneAttrs(attr', FALSE) /\ ActiveSlotOf(attr') = s
      BY <2>1, <2>3, SetActiveSlotSane DEF SaneAttrs
    <2> HIDE DEF at, cur
    <2>5. CASE /\ cur = s /\ UNCHANGED <<guid, HeadNode>>
               /\ mishaps \ {"both", "lun"} \subseteq mishaps'
      <3>1. /\ "memory" \notin mishaps' => "memory" \notin mishaps
            /\ "swapped" \notin mishaps' => "swapped" \notin mishaps
        BY <2>5
      <3>2. ASSUME mishaps \intersect {"memory", "swapped"} = {}
            PROVE  GuidsFollow(attr', guid)
        <4>1. SaneAttrs(at, FALSE)
          BY <1>a, <2>3, <3>2 DEF SaneAttrs
        <4>2. attr'["b"].active <=> at["b"].active
          BY <2>4, <2>5, <4>1, ActiveSlotIsMarked DEF Slots, cur
        <4>3. attr'["b"].active \in BOOLEAN /\ at["b"].active \in BOOLEAN
          BY <2>4, <4>1 DEF SaneAttrs, Attrs, Slots
        <4>4. attr'["b"].active = at["b"].active
          BY <4>2, <4>3
        <4>5. GuidsFollow(at, guid)
          BY <1>b, <3>2 DEF at
        <4> QED BY <4>4, <4>5, GuidsFollowMark
      <3> QED BY <2>1, <2>5, <3>1, <3>2 DEF GuidInv
    <2>6. ASSUME cur # s, NEW list \in MultiSlotPartsLists,
                 HeadNode' = list, guid' = SwitchPtnGuids(guid, list),
                 mishaps \ {"both", "lun"} \subseteq mishaps',
                 ListMissed(list) \subseteq mishaps'
          PROVE  GuidInv'
      <3>1. /\ "memory" \notin mishaps' =>
                 "memory" \notin mishaps /\ "memory" \notin ListMissed(list)
            /\ "swapped" \notin mishaps' => "swapped" \notin mishaps
        BY <2>6
      <3>2. "memory" \notin mishaps' => list = Parts /\ AllAgree(guid')
        BY <2>6, <3>1, SwapAgrees
      <3>3. mishaps' \intersect {"memory", "swapped"} = {} =>
              GuidsFollow(attr', guid')
        <4>1. cur \in Slots \ {s}
          BY <2>3, <2>6
        <4> QED BY <2>1, <2>6, <3>1, <4>1, SwapFollows DEF at, cur
      <3> QED BY <2>1, <2>6, <3>2, <3>3 DEF GuidInv
    <2> QED BY <2>2, <2>5, <2>6
  <1>4. ASSUME NEW arg \in SlotArgs, CmdSetActiveNoSlot(arg) PROVE GuidInv'
    <2>1. PICK list \in MultiSlotPartsLists :
            /\ HeadNode' = list /\ guid' = SwitchPtnGuids(guid, list)
            /\ mishaps \subseteq mishaps' /\ "swapped" \in mishaps'
            /\ ListMissed(list) \subseteq mishaps'
      BY <1>4 DEF CmdSetActiveNoSlot
    <2>2. gpt' = gpt
      BY <1>4, TableNotWritten DEF CmdSetActiveNoSlot
    <2>3. "memory" \notin mishaps' => list = Parts /\ AllAgree(guid')
      BY <2>1, SwapAgrees
    <2> QED BY <2>1, <2>2, <2>3 DEF GuidInv
  <1>5. ASSUME NEW name \in PartitionNames, NEW o \in WriteOutcomes,
               WriteBoot(name, o)
        PROVE  GuidInv'
    <2>1. /\ gpt' = gpt /\ UNCHANGED <<guid, HeadNode, mishaps>>
          /\ attr' \in {TargetAttrs(name),
                        FastbootUpdateAttr(TargetAttrs(name), TargetSlot(name))}
      BY <1>5, TableNotWritten DEF WriteBoot, history
    <2>2. SaneAttrs(TargetAttrs(name), Torn)
      BY <1>a, GetActiveSlotSane DEF TargetAttrs
    <2>3. attr'["b"].active = TargetAttrs(name)["b"].active
      <3> DEFINE at == TargetAttrs(name)
                 s == TargetSlot(name)
      <3>1. at \in [Slots -> Attrs] /\ "b" \in Slots
        BY <2>2 DEF SaneAttrs, Slots
      <3>2. attr' = at \/ attr' = FastbootUpdateAttr(at, s)
        BY <2>1
      <3> HIDE DEF at, s
      <3>3. FastbootUpdateAttr(at, s)["b"].active = at["b"].active
        <4>1. CASE s = "b"
          BY <3>1, <4>1 DEF FastbootUpdateAttr, Attrs
        <4>2. CASE s # "b"
          BY <3>1, <4>2 DEF FastbootUpdateAttr
        <4> QED BY <4>1, <4>2
      <3> QED BY <3>2, <3>3 DEF at
    <2>4. TargetAttrs(name)["b"].active = GetActiveSlot(attr)["b"].active
      BY <1>a, GetActiveSlotKeeps DEF TargetAttrs
    <2> QED BY <1>d, <2>1, <2>3, <2>4
  <1>6. CASE FlashTableRejected
    BY <1>6 DEF FlashTableRejected, memory, GuidInv
  <1>7. CASE FlashTableNotRefreshed
    <2>1. GuidsFollow(gpt'.attr, gpt'.guid)
      BY <1>7, <1>c DEF FlashTableNotRefreshed
    <2> QED BY <1>7, <2>1 DEF FlashTableNotRefreshed, memory, GuidInv
  <1>8. CASE FlashTable \/ FlashOtherTable
    <2>1. /\ GuidsFollow(gpt'.attr, gpt'.guid) /\ GuidsFollow(attr', guid')
          /\ HeadNode' = HeadNode /\ mishaps' = mishaps \ {"both", "swapped"}
      BY <1>8, <1>c, TableNotWritten DEF FlashTable, FlashOtherTable, GuidInv
    <2> QED BY <2>1, FollowersAgree DEF GuidInv
  <1>9. CASE CmdGetVar \/ \E arg \in SlotArgs : CmdSetActiveComma(arg)
    <2>1. /\ UNCHANGED <<gpt, guid, HeadNode, mishaps>>
          /\ attr' = GetActiveSlot(attr)
      BY <1>9, TableNotWritten DEF CmdGetVar, CmdSetActiveComma, history
    <2> QED BY <1>d, <2>1
  <1>10. ASSUME NEW cmd \in BootCmds, UNCHANGED <<gpt, guid, HeadNode, mishaps>>,
                ~Torn => attr'["b"].active = PrepareBoot(cmd)["b"].active
         PROVE  GuidInv'
    <2>1. PrepareBoot(cmd)["b"].active = GetActiveSlot(attr)["b"].active
      BY PrepareBootKeeps DEF Slots
    <2> QED BY <1>a, <1>d, <1>10, <2>1
  <1>11. ASSUME NEW cmd \in BootCmds, BootWithoutSlot(cmd) PROVE GuidInv'
    BY <1>10, <1>11 DEF BootWithoutSlot, BootKeeps, history
  <1>12. ASSUME NEW cmd \in BootCmds, BootActiveSlot(cmd) PROVE GuidInv'
    BY <1>10, <1>12, BootActiveSlotEffect
  <1>13. ASSUME NEW cmd \in BootCmds, BootUnbootable(cmd) PROVE GuidInv'
    <2> DEFINE at == PrepareBoot(cmd)
    <2>1. gpt' = gpt /\ UNCHANGED <<guid, HeadNode, mishaps>>
          /\ attr' = MarkUnbootable(at, ActiveSlotOf(at))
      BY <1>13, TableNotWritten DEF BootUnbootable, history
    <2>2. SaneAttrs(at, Torn)
      BY PrepareBootSane
    <2> HIDE DEF at
    <2>3. attr'["b"].active = at["b"].active
      BY <2>1, <2>2 DEF MarkUnbootable, SaneAttrs, Attrs, Slots
    <2> QED BY <1>10, <2>1, <2>3 DEF at
  <1>14. CASE OsMarkSuccessful
    <2>1. gpt'.guid = gpt.guid /\ UNCHANGED <<attr, guid, HeadNode, mishaps>>
          /\ gpt'.attr = [gpt.attr EXCEPT ![booted].succ = TRUE]
      BY <1>14 DEF OsMarkSuccessful, memory, history, SlotInv, TypeOK, Layouts
    <2>2. gpt'.attr["b"].active = gpt.attr["b"].active
      BY <1>a, <2>1 DEF SaneAttrs, Attrs, Slots
    <2> QED BY <2>1, <2>2, GuidsFollowMark DEF GuidInv
  <1>15. CASE CmdSetActiveFails \/ CmdRefused \/ UNCHANGED vars
    BY <1>15 DEF CmdSetActiveFails, CmdRefused, vars, disk, memory, history,
                 GuidInv
  <1> QED
    BY <1>1, <1>2, <1>3, <1>4, <1>5, <1>6, <1>7, <1>8, <1>9, <1>11, <1>12,
       <1>13, <1>14, <1>15 DEF Next

\* GuidInv is an invariant.
LEMMA GuidInvHolds == Spec => [](SlotInv /\ GuidInv)
PROOF
  <1>1. Init => GuidInv
    <2> SUFFICES ASSUME Init PROVE GuidInv
      OBVIOUS
    <2>1. gpt \in Tables /\ attr = gpt.attr /\ guid = gpt.guid /\ HeadNode = {}
      BY DEF Init
    <2>2. GuidsFollow(gpt.attr, gpt.guid)
      BY <2>1, TablesAssumption DEF WellFormed
    <2> QED BY <2>1, <2>2, FollowersAgree DEF GuidInv
  <1> QED BY <1>1, GuidInvStep, SlotInvInit, SlotInvStep, PTL DEF Spec

\* Until the list of two-slot parts cannot be built, the type GUIDs of all of
\* them name one slot, and the active one unless a set_active named none,
\* though SwitchPtnSlots only swaps.
THEOREM GuidsAlwaysFollow == Spec => []GuidsFollowActiveSlot
PROOF
  <1>1. GuidInv => GuidsFollowActiveSlot
    BY DEF GuidInv, GuidsFollowActiveSlot, AllAgree
  <1> QED BY <1>1, GuidInvHolds, PTL

-----------------------------------------------------------------------------
(***************************************************************************)
(* The refinement                                                          *)
(***************************************************************************)
\* GetActiveSlot finds the slot that is marked, or defaults to a.
LEMMA AskingAdopts ==
  ASSUME NEW at, NEW torn \in BOOLEAN, SaneAttrs(at, torn)
  PROVE  ActiveSlotOf(GetActiveSlot(at)) \in Register!OrDefault(ActiveSlotOf(at))
PROOF
  <1>1. CASE IsFirstBoot(at)
    BY <1>1, GetActiveSlotKeeps DEF Register!OrDefault, IsFirstBoot
  <1>2. CASE ~IsFirstBoot(at)
    BY <1>2, GetActiveSlotKeeps DEF Register!OrDefault
  <1> QED BY <1>1, <1>2

\* So does everything continue and boot do before they choose.
LEMMA BootingAdopts ==
  ASSUME SlotInv, NEW cmd
  PROVE  ActiveSlotOf(PrepareBoot(cmd)) \in
           Register!OrDefault(ActiveSlotOf(attr))
PROOF
  <1>1. SaneAttrs(attr, Torn) /\ Torn \in BOOLEAN
    BY DEF SlotInv, Torn
  <1> QED BY <1>1, AskingAdopts, PrepareBootKeeps

\* The step of a command that at most asks for the active slot.
LEMMA AdoptStep ==
  ASSUME mode = "fastboot", mode' = mode, gpt' = gpt, SaneAttrs(attr', Torn'),
         ~Torn => ActiveSlotOf(attr') \in Register!OrDefault(ActiveSlotOf(attr)),
         UNCHANGED <<wanted, session, mishaps>>
  PROVE  Register!Next
PROOF
  BY DEF Register!Next, Register!Adopt, Register!Found, SaneAttrs, Torn

\* The step of a reset, cold or not.
LEMMA StopStep ==
  ASSUME mode # "off", Lose, gpt' = gpt, wanted' = wanted
  PROVE  Register!Next
PROOF
  BY DEF Lose, Register!Next, Register!Stop

\* Every step of the loader is a step of the register, or none.
LEMMA RegisterStep ==
  ASSUME SlotInv, [Next]_vars
  PROVE  [Register!Next]_(Register!vars)
PROOF
  <1>a. /\ SaneAttrs(attr, Torn) /\ SaneAttrs(attr', Torn')
        /\ SaneAttrs(gpt.attr, FALSE) /\ SaneAttrs(gpt'.attr, FALSE)
        /\ Torn \in BOOLEAN
    <2>1. SlotInv'
      BY SlotInvStep
    <2>2. Torn \in BOOLEAN
      BY DEF Torn
    <2> QED BY <2>1, <2>2 DEF SlotInv
  <1>1. CASE LinuxLoaderEntry
    <2>1. /\ mode = "off" /\ mode' = "fastboot" /\ gpt' = gpt
          /\ attr' = GetActiveSlot(gpt.attr)
          /\ UNCHANGED <<wanted, session, mishaps>>
      BY <1>1, TableNotWritten DEF LinuxLoaderEntry, history
    <2>2. ActiveSlotOf(attr') \in Register!OrDefault(ActiveSlotOf(gpt.attr))
      BY <1>a, <2>1, AskingAdopts
    <2> QED BY <2>1, <2>2 DEF Register!Next, Register!Start
  <1>2. CASE ResetDevice
    <2>1. mode # "off" /\ Lose /\ gpt' = gpt /\ wanted' = wanted
      BY <1>2 DEF ResetDevice, disk
    <2> QED BY <2>1, StopStep
  <1>3. ASSUME NEW arg \in SlotArgs, NEW s \in Slots, CmdSetActive(arg, s)
        PROVE  Register!Next
    <2>1. /\ mode = "fastboot" /\ gpt' = gpt
          /\ attr' = SetActiveSlot(GetActiveSlot(attr), s, TRUE)
          /\ \/ /\ mode' = mode /\ wanted' = s /\ session' = TRUE
             \/ /\ mode' = "lost" /\ UNCHANGED <<wanted, session>>
      BY <1>3, TableNotWritten DEF CmdSetActive
    <2>2. ActiveSlotOf(attr') = s
      BY <1>a, <2>1, GetActiveSlotSane, SetActiveSlotSane DEF SaneAttrs
    <2>3. ("both" \in mishaps)' = FALSE
      BY <1>3 DEF CmdSetActive, LunMissed, ListMissed
    <2>4. CASE mode' = mode /\ wanted' = s /\ session' = TRUE
      BY <2>1, <2>2, <2>3, <2>4 DEF Register!Next, Register!Choose
    <2>5. CASE mode' = "lost" /\ UNCHANGED <<wanted, session>>
      BY <2>1, <2>2, <2>3, <2>5 DEF Register!Next, Register!ChooseLost
    <2> QED BY <2>1, <2>4, <2>5
  <1>4. ASSUME NEW arg \in SlotArgs, CmdSetActiveNoSlot(arg)
        PROVE  Register!Next
    <2>1. /\ mode = "fastboot" /\ gpt' = gpt /\ session' = FALSE
          /\ mode' \in {"fastboot", "lost"} /\ wanted' = wanted
          /\ "both" \in mishaps'
      BY <1>4, TableNotWritten DEF CmdSetActiveNoSlot
    <2>2. ActiveSlotOf(attr') \in Slots
      BY <1>a, <2>1 DEF SaneAttrs, Torn
    <2> QED BY <2>1, <2>2 DEF Register!Next, Register!Tear
  <1>5. ASSUME NEW name \in PartitionNames, NEW o \in WriteOutcomes,
                WriteBoot(name, o)
         PROVE  Register!Next
    <2> DEFINE at == TargetAttrs(name)
               s == TargetSlot(name)
    <2>1. /\ mode = "fastboot" /\ gpt' = gpt /\ mode' = mode
          /\ UNCHANGED <<wanted, session, mishaps>>
          /\ \/ s # NoSlot /\ attr' = FastbootUpdateAttr(at, s)
             \/ attr' = at
      BY <1>5, TableNotWritten DEF WriteBoot, history
    <2>2. SaneAttrs(at, Torn) /\ ActiveSlotOf(at) \in
                               Register!OrDefault(ActiveSlotOf(attr))
      <3>1. ActiveSlotOf(attr) \in Register!OrDefault(ActiveSlotOf(attr))
        BY DEF Register!OrDefault
      <3> QED BY <1>a, <3>1, GetActiveSlotSane, AskingAdopts DEF TargetAttrs
    <2>3. s \in Slots \union {NoSlot}
      BY ActiveSlotClaims DEF TargetSlot, Slots
    <2> HIDE DEF at, s
    <2>4. \A t \in Slots : attr'[t].active = at[t].active
      <3>1. CASE s \in Slots /\ attr' = FastbootUpdateAttr(at, s)
        BY <2>2, <3>1 DEF FastbootUpdateAttr, SaneAttrs, Attrs
      <3> QED BY <2>1, <2>3, <3>1
    <2>5. ~Torn => ActiveSlotOf(attr') = ActiveSlotOf(at)
      <3> SUFFICES ASSUME ~Torn PROVE ActiveSlotOf(attr') = ActiveSlotOf(at)
        OBVIOUS
      <3>1. SaneAttrs(attr', FALSE) /\ SaneAttrs(at, FALSE)
        BY <1>a, <2>1, <2>2 DEF SaneAttrs, Torn
      <3> QED BY <2>4, <3>1, SameMarksSameActive
    <2> QED BY <1>a, <2>1, <2>2, <2>5, AdoptStep
  <1>6. CASE FlashTableRejected
    <2>1. mode = "fastboot" /\ session' = FALSE
          /\ UNCHANGED <<gpt, mode, attr, wanted, mishaps>>
      BY <1>6 DEF FlashTableRejected, memory
    <2> QED BY <2>1 DEF Register!Next, Register!Revert
  <1>7. CASE FlashTableNotRefreshed
    <2>1. /\ mode = "fastboot" /\ wanted' = NoSlot /\ session' = FALSE
          /\ UNCHANGED <<mode, attr, mishaps>>
      BY <1>7 DEF FlashTableNotRefreshed, memory
    <2>2. ActiveSlotOf(gpt'.attr) \in Register!Choice
      BY ActiveSlotClaims DEF Register!Choice
    <2>3. Register!Load(ActiveSlotOf(gpt'.attr))
      BY <2>1 DEF Register!Load
    <2> QED BY <2>2, <2>3 DEF Register!Next
  <1>8. CASE FlashTable
    <2>1. /\ mode = "fastboot" /\ wanted' = NoSlot /\ session' = FALSE
          /\ mode' = mode /\ attr' = GetActiveSlot(gpt'.attr)
          /\ "both" \notin mishaps'
      BY <1>8, TableNotWritten DEF FlashTable
    <2>2. ActiveSlotOf(gpt'.attr) \in Register!Choice
          /\ ActiveSlotOf(attr') \in Register!OrDefault(ActiveSlotOf(gpt'.attr))
      BY <1>a, <2>1, ActiveSlotClaims, AskingAdopts DEF Register!Choice
    <2>3. Register!Load(ActiveSlotOf(gpt'.attr))
      BY <2>1, <2>2 DEF Register!Load
    <2> QED BY <2>2, <2>3 DEF Register!Next
  <1>9. CASE FlashOtherTable
    <2>1. mode = "fastboot" /\ session' = FALSE /\ attr' = gpt.attr
          /\ UNCHANGED <<gpt, mode, wanted>> /\ "both" \notin mishaps'
      BY <1>9 DEF FlashOtherTable
    <2> QED BY <2>1 DEF Register!Next, Register!Revert
  <1>10. CASE CmdGetVar \/ \E arg \in SlotArgs : CmdSetActiveComma(arg)
    <2>1. mode = "fastboot" /\ gpt' = gpt /\ attr' = GetActiveSlot(attr)
          /\ UNCHANGED <<mode, wanted, session, mishaps>>
      BY <1>10, TableNotWritten DEF CmdGetVar, CmdSetActiveComma, history
    <2> QED BY <1>a, <2>1, AskingAdopts, AdoptStep
  <1>11. ASSUME NEW cmd \in BootCmds, BootWithoutSlot(cmd) PROVE Register!Next
    <2>1. mode = "fastboot" /\ attr' = PrepareBoot(cmd)
          /\ UNCHANGED <<gpt, mode, wanted, session, mishaps>>
      BY <1>11 DEF BootWithoutSlot, BootKeeps, history
    <2> QED BY <1>a, <2>1, BootingAdopts, AdoptStep
  <1>12. ASSUME NEW cmd \in BootCmds, BootActiveSlot(cmd) PROVE Register!Next
    <2>1. /\ gpt' = gpt /\ mode = "fastboot"
          /\ UNCHANGED <<wanted, session, mishaps>> /\ mode' \in {"linux", mode}
          /\ ActiveSlotOf(attr') = ActiveSlotOf(PrepareBoot(cmd))
          /\ ActiveSlotOf(attr') \in Slots
      BY <1>12, BootActiveSlotEffect
    <2>2. ActiveSlotOf(attr') \in Register!OrDefault(ActiveSlotOf(attr))
      BY <2>1, BootingAdopts
    <2>3. CASE mode' = mode
      BY <1>a, <2>1, <2>2, <2>3, AdoptStep
    <2>4. CASE mode' = "linux"
      <3>1. ActiveSlotOf(attr') # NoSlot
        BY <2>1 DEF Slots, NoSlot
      <3> QED
        BY <2>1, <2>2, <2>4, <3>1
        DEF Register!Next, Register!HandOver, Register!Found
    <2> QED BY <2>1, <2>3, <2>4
  <1>13. ASSUME NEW cmd \in BootCmds, BootUnbootable(cmd) PROVE Register!Next
    <2> DEFINE at == PrepareBoot(cmd)
               s == ActiveSlotOf(at)
    <2>1. mode = "fastboot" /\ gpt' = gpt /\ attr' = MarkUnbootable(at, s)
          /\ UNCHANGED <<mode, wanted, session, mishaps>> /\ s # NoSlot
      BY <1>13, TableNotWritten DEF BootUnbootable, history
    <2>2. at \in [Slots -> Attrs] /\ s \in Slots
      BY <2>1, PrepareBootSane, ActiveSlotClaims DEF SaneAttrs
    <2>3. s \in Register!OrDefault(ActiveSlotOf(attr))
      BY BootingAdopts
    <2> HIDE DEF at
    <2>4. \A t \in Slots : /\ attr'[t].active = at[t].active
                           /\ attr'[t].prio = at[t].prio
      BY <2>1, <2>2 DEF MarkUnbootable, Attrs
    <2>5. ActiveSlotOf(attr') = s
      BY <2>4, SamePriosSameActive
    <2> QED BY <1>a, <2>1, <2>3, <2>5, AdoptStep
  <1>14. ASSUME NEW cmd \in BootCmds, BootFallsBack(cmd) PROVE Register!Next
    <2>1. mode # "off" /\ Lose /\ gpt' = gpt /\ wanted' = wanted
      BY <1>14, TableNotWritten DEF BootFallsBack
    <2> QED BY <2>1, StopStep
  <1>15. CASE OsMarkSuccessful
    <2>1. /\ UNCHANGED <<mode, attr, wanted, session, mishaps>>
          /\ gpt'.attr = [gpt.attr EXCEPT ![booted].succ = TRUE]
      BY <1>15 DEF OsMarkSuccessful, memory, history, SlotInv, TypeOK, Layouts
    <2>2. \A t \in Slots : gpt'.attr[t].active = gpt.attr[t].active
      BY <1>a, <2>1 DEF SaneAttrs, Attrs, Slots
    <2>3. ActiveSlotOf(gpt'.attr) = ActiveSlotOf(gpt.attr)
      BY <1>a, <2>2, SameMarksSameActive
    <2> QED BY <2>1, <2>3 DEF Register!vars
  <1>16. CASE CmdSetActiveFails \/ CmdRefused \/ UNCHANGED vars
    BY <1>16 DEF CmdSetActiveFails, CmdRefused, vars, disk, memory, history,
                 Register!vars
  <1> QED
    BY <1>1, <1>2, <1>3, <1>4, <1>6, <1>7, <1>8, <1>9, <1>10, <1>11, <1>12,
       <1>13, <1>14, <1>15, <1>16, <1>5 DEF Next

\* Whatever fails, PtnEntries is a register that set_active and a flash of
\* the partition table write, that no other command moves unless a set_active
\* without a slot has torn it, that never reaches the table on the device,
\* and from which Linux is started.
THEOREM LoaderImplementsRegister == Spec => ImplementsRegister
PROOF
  <1>1. Init => Register!Init
    <2> SUFFICES ASSUME Init PROVE Register!Init
      OBVIOUS
    <2>1. mode = "off" /\ wanted = NoSlot /\ session = FALSE /\ mishaps = {}
      BY DEF Init
    <2>2. ActiveSlotOf(gpt.attr) \in Slots \union {NoSlot}
      BY ActiveSlotClaims
    <2> QED BY <2>1, <2>2 DEF Register!Init, Register!Choice
  <1>2. SlotInv /\ [Next]_vars => [Register!Next]_(Register!vars)
    BY RegisterStep
  <1> QED
    BY <1>1, <1>2, SlotInvHolds, PTL DEF Spec, ImplementsRegister, Register!Spec

-----------------------------------------------------------------------------
(***************************************************************************)
(* set_active and the fallback                                             *)
(***************************************************************************)
\* What holds of the running loader once a set_active was OKAYed.
SessionInv ==
  /\ mode = "off" => ~session
  /\ mode \in {"fastboot", "linux"} /\ session =>
       /\ wanted \in Slots /\ ActiveSlotOf(attr) = wanted
       /\ IsBootable(attr, wanted)
       /\ mishaps \intersect {"memory", "lun"} = {} /\ RootDevice = "UFS" =>
            lun = LunOf(wanted)
       /\ mode = "linux" => booted = wanted

\* Unless a mishap is noted, the LUN is set to that of the chosen slot.
LEMMA LunWritten ==
  ASSUME NEW s \in Slots, NEW read, NEW works \in BOOLEAN, NEW list,
         LunMissed(read, works) = {}, RootDevice = "UFS"
  PROVE  /\ SetBootLun(MatchBootLun(s, read), works) = LunOf(s)
         /\ ListMissed(list) = {} =>
              SetBootLun(SwitchBootLun(s, read, list), works) = LunOf(s)
PROOF
  <1>1. read # 0 /\ works
    BY DEF LunMissed
  <1>2. ListMissed(list) = {} => HaveList(list)
    BY DEF ListMissed
  <1> QED BY <1>1, <1>2 DEF SetBootLun, MatchBootLun, SwitchBootLun

\* Every step keeps SessionInv: no flash, erase, getvar or failed boot takes
\* an OKAYed set_active back.
LEMMA SessionInvStep == SlotInv /\ SessionInv /\ [Next]_vars => SessionInv'
PROOF
  <1> SUFFICES ASSUME SlotInv, SessionInv, [Next]_vars PROVE SessionInv'
    OBVIOUS
  <1>a. /\ SaneAttrs(attr, Torn) /\ SaneAttrs(GetActiveSlot(attr), Torn)
        /\ Torn \in BOOLEAN
    <2>1. SaneAttrs(attr, Torn) /\ Torn \in BOOLEAN
      BY DEF SlotInv, Torn
    <2> QED BY <2>1, GetActiveSlotSane
  <1>d. ~session' => SessionInv'
    BY DEF SessionInv
  <1>e. mode = "fastboot" /\ session =>
          /\ wanted \in Slots /\ ActiveSlotOf(attr) = wanted
          /\ GetActiveSlot(attr) = attr /\ IsBootable(attr, wanted)
          /\ mishaps \intersect {"memory", "lun"} = {} /\ RootDevice = "UFS" =>
               lun = LunOf(wanted)
          /\ SaneAttrs(attr, FALSE) /\ ~Torn
    BY DEF SessionInv, GetActiveSlot, IsFirstBoot, Slots, NoSlot, SlotInv,
           SaneAttrs
  \* The commands that leave the LUN and the session alone.
  <1>f. ASSUME mode = "fastboot", mode' = mode,
               UNCHANGED <<lun, wanted, session, mishaps>>,
               session => /\ ActiveSlotOf(attr') = wanted
                          /\ IsBootable(attr', wanted)
        PROVE  SessionInv'
    BY <1>e, <1>f DEF SessionInv
  <1>1. CASE LinuxLoaderEntry
    <2>1. ~session'
      BY <1>1 DEF LinuxLoaderEntry, SessionInv, history
    <2> QED BY <1>d, <2>1
  <1>2. CASE ResetDevice
    <2>1. ~session'
      BY <1>2 DEF ResetDevice, Lose
    <2> QED BY <1>d, <2>1
  <1>3. ASSUME NEW arg \in SlotArgs, NEW s \in Slots, CmdSetActive(arg, s)
        PROVE  SessionInv'
    <2>1. /\ attr' = SetActiveSlot(GetActiveSlot(attr), s, TRUE)
          /\ \/ mode' = mode /\ mode = "fastboot" /\ wanted' = s
             \/ mode' = "lost"
      BY <1>3 DEF CmdSetActive
    <2>2. ActiveSlotOf(attr') = s /\ IsBootable(attr', s)
      BY <1>a, <2>1, SetActiveSlotSane DEF SaneAttrs
    <2>3. PICK read \in BootLunReads, works \in BootLunWrites :
            \/ /\ lun' = SetBootLun(MatchBootLun(s, read), works)
               /\ LunMissed(read, works) \subseteq mishaps'
            \/ \E list \in MultiSlotPartsLists :
                 /\ lun' = SetBootLun(SwitchBootLun(s, read, list), works)
                 /\ LunMissed(read, works) \subseteq mishaps'
                 /\ ListMissed(list) \subseteq mishaps'
      BY <1>3 DEF CmdSetActive
    <2>4. works \in BOOLEAN /\ LunMissed(read, works) \in SUBSET {"lun"}
      BY DEF BootLunWrites, LunMissed
    <2>5. ASSUME mishaps' \intersect {"memory", "lun"} = {}, RootDevice = "UFS"
          PROVE  lun' = LunOf(s)
      <3>1. "lun" \notin mishaps' /\ "memory" \notin mishaps'
        BY <2>5
      <3>2. LunMissed(read, works) = {}
        BY <2>3, <2>4, <3>1
      <3>3. CASE lun' = SetBootLun(MatchBootLun(s, read), works)
        BY <2>4, <2>5, <3>2, <3>3, LunWritten
      <3>4. ASSUME NEW list \in MultiSlotPartsLists,
                   lun' = SetBootLun(SwitchBootLun(s, read, list), works),
                   ListMissed(list) \subseteq mishaps'
            PROVE  lun' = LunOf(s)
        <4>1. ListMissed(list) = {}
          BY <3>1, <3>4 DEF ListMissed
        <4> QED BY <2>4, <2>5, <3>2, <3>4, <4>1, LunWritten
      <3> QED BY <2>3, <3>3, <3>4
    <2> QED BY <2>1, <2>2, <2>5 DEF SessionInv
  <1>4. ASSUME NEW name \in PartitionNames, NEW o \in WriteOutcomes,
               WriteBoot(name, o)
        PROVE  SessionInv'
    <2> DEFINE s == TargetSlot(name)
    <2>1. /\ mode = "fastboot" /\ mode' = mode
          /\ UNCHANGED <<lun, wanted, session, mishaps>>
          /\ \/ s # NoSlot /\ attr' = FastbootUpdateAttr(TargetAttrs(name), s)
             \/ attr' = TargetAttrs(name)
      BY <1>4 DEF WriteBoot, history
    <2>2. s \in Slots \union {NoSlot}
      BY ActiveSlotClaims DEF TargetSlot, Slots
    <2> HIDE DEF s
    <2>3. ASSUME session
          PROVE  ActiveSlotOf(attr') = wanted /\ IsBootable(attr', wanted)
      <3>1. /\ TargetAttrs(name) = attr /\ wanted \in Slots
            /\ ActiveSlotOf(attr) = wanted /\ IsBootable(attr, wanted)
            /\ SaneAttrs(attr, FALSE)
        BY <1>e, <2>1, <2>3 DEF TargetAttrs
      <3>2. CASE attr' = attr
        BY <3>1, <3>2
      <3>3. CASE s \in Slots /\ attr' = FastbootUpdateAttr(attr, s)
        <4>1. \A t \in Slots :
                /\ attr'[t].active = attr[t].active
                /\ t # s => attr'[t] = attr[t]
                /\ t = s => /\ ~attr'[t].unboot
                            /\ attr'[t].retry = MAX_RETRY_COUNT
          BY <3>1, <3>3 DEF FastbootUpdateAttr, SaneAttrs, Attrs
        <4>2. ActiveSlotOf(attr') = wanted
          <5>1. SaneAttrs(attr', FALSE)
            BY <3>1, <3>3, FastbootUpdateAttrSane
          <5> QED BY <3>1, <4>1, <5>1, SameMarksSameActive
        <4>3. MAX_RETRY_COUNT > 0
          BY BoundsAssumption
        <4> QED BY <3>1, <4>1, <4>2, <4>3 DEF IsBootable
      <3> QED BY <2>1, <2>2, <3>1, <3>2, <3>3
    <2> QED BY <1>f, <2>1, <2>3
  <1>5. CASE FlashTableRejected \/ FlashTableNotRefreshed \/ FlashTable
             \/ FlashOtherTable
             \/ \E arg \in SlotArgs : CmdSetActiveNoSlot(arg)
    <2>1. ~session'
      BY <1>5 DEF FlashTableRejected, FlashTableNotRefreshed, FlashTable,
                  FlashOtherTable, CmdSetActiveNoSlot
    <2> QED BY <1>d, <2>1
  <1>6. CASE CmdGetVar \/ \E arg \in SlotArgs : CmdSetActiveComma(arg)
    BY <1>6, <1>e, <1>f DEF CmdGetVar, CmdSetActiveComma, history
  <1>7. ASSUME NEW cmd \in BootCmds, session, mode = "fastboot"
        PROVE  /\ ActiveSlotOf(PrepareBoot(cmd)) = wanted
               /\ IsBootable(PrepareBoot(cmd), wanted)
    BY <1>7, <1>e, PrepareBootKeeps
  <1>8. ASSUME NEW cmd \in BootCmds, BootWithoutSlot(cmd) PROVE SessionInv'
    <2>1. mode = "fastboot" /\ attr' = PrepareBoot(cmd)
          /\ UNCHANGED <<lun, mode, wanted, session, mishaps>>
      BY <1>8 DEF BootWithoutSlot, BootKeeps, history
    <2> QED BY <1>7, <1>f, <2>1
  <1>9. ASSUME NEW cmd \in BootCmds, BootActiveSlot(cmd) PROVE SessionInv'
    <2>1. /\ mode = "fastboot" /\ ~Torn => attr' = PrepareBoot(cmd)
          /\ UNCHANGED <<lun, wanted, session, mishaps>>
          /\ \/ mode' = mode
             \/ mode' = "linux" /\ booted' = ActiveSlotOf(PrepareBoot(cmd))
      BY <1>9, BootActiveSlotEffect
    <2>2. mode = "fastboot"
      BY <1>9 DEF BootActiveSlot
    <2>3. session => attr' = PrepareBoot(cmd)
      BY <1>e, <2>1, <2>2
    <2>4. CASE mode' = mode
      BY <1>7, <1>f, <2>1, <2>2, <2>3, <2>4
    <2>5. CASE mode' = "linux" /\ booted' = ActiveSlotOf(PrepareBoot(cmd))
      BY <1>e, <1>7, <2>1, <2>2, <2>3, <2>5 DEF SessionInv
    <2> QED BY <2>1, <2>4, <2>5
  <1>10. ASSUME NEW cmd \in BootCmds, BootUnbootable(cmd) PROVE SessionInv'
    <2>1. /\ mode = "fastboot" /\ UNCHANGED session
          /\ ~IsBootable(PrepareBoot(cmd), ActiveSlotOf(PrepareBoot(cmd)))
      BY <1>10 DEF BootUnbootable, history
    <2>2. ~session
      BY <1>7, <2>1
    <2> QED BY <1>d, <2>1, <2>2
  <1>11. ASSUME NEW cmd \in BootCmds, BootFallsBack(cmd) PROVE SessionInv'
    <2>1. ~session'
      BY <1>11 DEF BootFallsBack, Lose
    <2> QED BY <1>d, <2>1
  <1>12. CASE OsMarkSuccessful
    BY <1>12 DEF OsMarkSuccessful, memory, history, SessionInv
  <1>13. CASE CmdSetActiveFails \/ CmdRefused \/ UNCHANGED vars
    BY <1>13 DEF CmdSetActiveFails, CmdRefused, vars, disk, memory, history,
                 SessionInv
  <1> QED
    BY <1>1, <1>2, <1>3, <1>4, <1>5, <1>6, <1>8, <1>9, <1>10, <1>11, <1>12,
       <1>13 DEF Next

\* Once a set_active has been OKAYed, and until the next, a flash of a table
\* or a restart, its slot stays active and bootable and Linux is started from
\* no other; it has its GUIDs and its LUN but for the mishaps the property
\* names.
THEOREM SetActiveAlwaysHolds == Spec => []SetActiveHolds
PROOF
  <1>1. Init => SessionInv
    BY DEF Init, SessionInv
  <1>2. SlotInv /\ GuidInv /\ SessionInv => SetActiveHolds
    <2> SUFFICES ASSUME SlotInv, GuidInv, SessionInv, session,
                        mode \in {"fastboot", "linux"}
                 PROVE  /\ ActiveSlotOf(attr) = wanted
                        /\ IsBootable(attr, wanted)
                        /\ mode = "linux" => booted = wanted
                        /\ mishaps \intersect {"memory", "swapped"} = {} =>
                             TypeGuid("boot", wanted) # TypeGuid("abl", wanted)
                        /\ mishaps \intersect {"memory", "lun"} = {}
                           /\ RootDevice = "UFS" => lun = LunOf(wanted)
      BY DEF SetActiveHolds
    <2>1. /\ wanted \in Slots /\ ActiveSlotOf(attr) = wanted
          /\ IsBootable(attr, wanted)
          /\ mishaps \intersect {"memory", "lun"} = {} /\ RootDevice = "UFS" =>
               lun = LunOf(wanted)
          /\ mode = "linux" => booted = wanted
      BY DEF SessionInv
    <2>2. ASSUME mishaps \intersect {"memory", "swapped"} = {}
          PROVE  TypeGuid("boot", wanted) # TypeGuid("abl", wanted)
      <3>1. SaneAttrs(attr, FALSE)
        BY DEF SlotInv, SaneAttrs
      <3>2. attr["b"].active <=> wanted = "b"
        BY <2>1, <3>1, ActiveSlotIsMarked DEF Slots
      <3>3. \A p \in Parts : guid[p] = wanted
        BY <2>1, <2>2, <3>2 DEF GuidInv, GuidsFollow, Slots
      <3> QED BY <3>3, PartsAssumption DEF TypeGuid
    <2> QED BY <2>1, <2>2
  <1> QED BY <1>1, <1>2, SessionInvStep, GuidInvHolds, PTL DEF Spec

\* A reset out of continue or boot that moves the boot LUN moves it to a slot
\* that is proven and was not given up, or disables it when it could not be
\* read.
THEOREM FallbackAlwaysProven == Spec => FallbackToProven
PROOF
  <1>1. SlotInv /\ [Next]_vars =>
          [mode = "fastboot" /\ mode' = "off" /\ lun' # lun =>
             \/ \E s \in Slots : lun' = LunOf(s) /\ attr[s].succ
                                  /\ ~attr[s].unboot
             \/ LunMayFail /\ lun' = 0]_vars
    <2> SUFFICES ASSUME SlotInv, Next, mode = "fastboot",
                        mode' = "off", lun' # lun
                 PROVE  \/ \E s \in Slots : lun' = LunOf(s) /\ attr[s].succ
                                             /\ ~attr[s].unboot
                        \/ LunMayFail /\ lun' = 0
      OBVIOUS
    <2>1. PICK cmd \in BootCmds : BootFallsBack(cmd)
      BY DEF Next, LinuxLoaderEntry, ResetDevice, CmdSetActiveFails,
             CmdSetActive, CmdSetActiveNoSlot, CmdSetActiveComma, WriteBoot,
             FlashTableRejected, FlashTableNotRefreshed, FlashTable,
             FlashOtherTable, CmdRefused, CmdGetVar, BootWithoutSlot,
             BootActiveSlot, BootUnbootable, OsMarkSuccessful, disk
    <2> DEFINE at == GetActiveSlot(attr)
               s == ActiveSlotOf(PrepareBoot(cmd))
    <2>2. /\ s # NoSlot /\ IsProven(PrepareBoot(cmd), Other(s))
          /\ \E read \in BootLunReads, works \in BootLunWrites,
                list \in MultiSlotPartsLists :
               lun' = SetBootLun(SwitchBootLun(Other(s), read, list), works)
      BY <2>1 DEF BootFallsBack
    <2>3. /\ SaneAttrs(attr, Torn) /\ Torn \in BOOLEAN
          /\ s \in Slots /\ s = ActiveSlotOf(at)
      <3>1. SaneAttrs(attr, Torn) /\ Torn \in BOOLEAN
        BY DEF SlotInv, Torn
      <3>2. s = ActiveSlotOf(at)
        BY PrepareBootKeeps
      <3>3. s \in Slots
        BY <2>2, ActiveSlotClaims
      <3> QED BY <3>1, <3>2, <3>3
    <2>4. Other(s) \in Slots /\ Other(s) # s
      BY <2>3 DEF Other, Slots
    <2>5. PrepareBoot(cmd)[Other(s)] = at[Other(s)]
      BY <2>3, <2>4, PrepareBootKeeps
    <2>6. at[Other(s)] = attr[Other(s)]
      <3>1. CASE ~IsFirstBoot(attr)
        BY <2>3, <3>1, GetActiveSlotKeeps
      <3>2. CASE IsFirstBoot(attr)
        <4>1. s = "a" /\ at["b"] = attr["b"]
          BY <2>3, <3>2, GetActiveSlotKeeps
        <4> QED BY <4>1 DEF Other
      <3> QED BY <3>1, <3>2
    <2>7. attr[Other(s)].succ /\ ~attr[Other(s)].unboot
      BY <2>2, <2>5, <2>6 DEF IsProven
    <2>8. lun' = LunOf(Other(s)) \/ (LunMayFail /\ lun' = 0)
      <3> HIDE DEF s
      <3>1. PICK read \in BootLunReads, works \in BootLunWrites,
                 list \in MultiSlotPartsLists :
              lun' = SetBootLun(SwitchBootLun(Other(s), read, list), works)
        BY <2>2
      <3>2. lun' = IF read = 0 THEN 0 ELSE LunOf(Other(s))
        BY <3>1 DEF SetBootLun, SwitchBootLun
      <3>3. CASE read # 0
        BY <3>2, <3>3
      <3>4. CASE read = 0
        <4>1. lun' = 0
          BY <3>2, <3>4
        <4>2. LunMayFail
          BY <3>4, <4>1 DEF BootLunReads
        <4> QED BY <4>1, <4>2
      <3> QED BY <3>3, <3>4
    <2> QED BY <2>4, <2>7, <2>8
  <1> QED
    BY <1>1, SlotInvHolds, PTL DEF Spec, FallbackToProven
=============================================================================
