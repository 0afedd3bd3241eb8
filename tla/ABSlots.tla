------------------------------ MODULE ABSlots ------------------------------
(***************************************************************************)
(* A/B slot management of the LinuxLoader application (QcomModulePkg):     *)
(* the partition entries PtnEntries kept in memory by                      *)
(* BootLib/PartitionTableUpdate.c, the partition table and the UFS boot    *)
(* LUN kept on the storage device, the fastboot variables published by     *)
(* FastbootLib/FastbootCmds.c, and every fastboot command that touches     *)
(* them: set_active, flash and erase of a boot partition, flash of the     *)
(* partition table, continue, boot, reboot.                                *)
(*                                                                         *)
(* The fastboot loop runs one command at a time, so a command is one step; *)
(* the power may fail, or the host reset the device, between any two.      *)
(***************************************************************************)
EXTENDS Integers

CONSTANTS
  MAX_PRIORITY,      \* 3 in the code: the two priority bits of an entry
  MAX_RETRY_COUNT,   \* 7 in the code: the three retry bits of an entry
  Parts,             \* base names of the partitions that have two slots
  Tables,            \* the partition tables a device or a host image holds
  SlotArgs,          \* the spellings of the argument of set_active
  RootDevice,        \* "UFS" or "EMMC" (GetRootDeviceType)
  ShortLists,        \* what a failing AllocateZeroPool may cut the list to in
                     \* GetMultiSlotPartsList: the parts before some part
  LunMayFail         \* may GetBootLU and SetBootLU fail?

Slots == {"a", "b"}
NoSlot == "none"

\* The attribute bits of a boot_a or boot_b entry.
Attrs == [prio : 0..MAX_PRIORITY, active : BOOLEAN,
          retry : 0..MAX_RETRY_COUNT, succ : BOOLEAN, unboot : BOOLEAN]

\* guid[p] is the slot of part p that holds the type GUID of the active
\* copy; the other copy holds the GUID shared by all inactive partitions.
Layouts == [attr : [Slots -> Attrs], guid : [Parts -> Slots]]

Claims(at, s) == at[s].active /\ at[s].prio > 0

OneActive(at) ==
  /\ \A s \in Slots : at[s].active => at[s].prio > 0
  /\ ~(at["a"].active /\ at["b"].active)

\* The GUIDs name the active slot, and a when there is none.
GuidsFollow(at, gd) ==
  \A p \in Parts : gd[p] = IF at["b"].active THEN "b" ELSE "a"

\* A table somebody could have produced on purpose: at most one boot slot
\* is active, an active one has a priority, the GUIDs follow the active slot.
WellFormed(t) == OneActive(t.attr) /\ GuidsFollow(t.attr, t.guid)

ASSUME BoundsAssumption ==
  MAX_PRIORITY \in Nat \ {0, 1} /\ MAX_RETRY_COUNT \in Nat \ {0}
ASSUME PartsAssumption == {"boot", "abl"} \subseteq Parts
ASSUME TablesAssumption ==
  Tables \subseteq Layouts /\ \A t \in Tables : WellFormed(t)

\* What CmdSetActive lets through, "" and the one or two characters that
\* occur in SlotSuffixArray, by the suffix it passes on: _a, _b, "_" alone
\* ("a," is too long to be put behind the underscore) or one with a comma.
ArgsOf(s) == IF s = "a" THEN {"a", "_a"} ELSE {"b", "_b"}
SuffixlessArgs == {"", "_", "a,", "b,"}
CommaArgs == {",", ",_"}
ASSUME ArgsAssumption == SlotArgs \subseteq
         ArgsOf("a") \union ArgsOf("b") \union SuffixlessArgs \union CommaArgs
ASSUME DeviceAssumption ==
  /\ RootDevice \in {"UFS", "EMMC"}
  /\ ShortLists \subseteq SUBSET Parts /\ LunMayFail \in BOOLEAN

VARIABLES
  gpt,           \* the partition table on the device
  lun,           \* the UFS boot LUN: 1 is slot a, 2 is slot b, 0 is disabled
  mode,          \* "off", "fastboot", "linux" (BootLinux called) or "lost"
  attr, guid,    \* PtnEntries
  FirstBoot,
  HeadNode,      \* the cached list of two-slot parts; {} is the NULL pointer
  CurrentSlotFB, \* the published variable current-slot
  slotVars,      \* slot-successful, slot-unbootable and slot-retry-count
  reply,         \* the answer to the last command
  booted,        \* the slot BootLinux was given
  wanted,        \* history: the slot last named by a set_active OKAYed
  session,       \* history: no set_active, table or restart came since then
  tableKept,     \* history: no table was flashed since the loader started
  mishaps        \* history: what has gone wrong, of Mishaps below

disk == <<gpt, lun>>
memory == <<attr, guid, FirstBoot, HeadNode>>
published == <<CurrentSlotFB, slotVars>>
history == <<wanted, session, tableKept, mishaps>>
vars == <<disk, mode, memory, published, reply, booted, history>>

\* "both": a set_active without a slot has marked both slots, and no other
\* has come since; "swapped": it has swapped the GUIDs, and PtnEntries were
\* not read again; "memory": the list of two-slot parts could not be built;
\* "lun": at the last set_active the LUN could not be read or not be set.
Mishaps == {"both", "swapped", "memory", "lun"}

-----------------------------------------------------------------------------
(***************************************************************************)
(* The functions of PartitionTableUpdate.c.                                *)
(***************************************************************************)
Other(s) == IF s = "a" THEN "b" ELSE "a"
LunOf(s) == IF s = "a" THEN 1 ELSE 2

\* Patched to FALSE: the comparison with PtnEntriesBak is commented out.
IsUpdatePartitionAttributes == FALSE

\* UpdatePartitionAttributes: what is on the device after the call.
UpdatePartitionAttributes(table, at, gd) ==
  IF IsUpdatePartitionAttributes THEN [attr |-> at, guid |-> gd] ELSE table

\* The slot GetActiveSlot finds: the active one of highest priority, a first.
ActiveSlotOf(at) ==
  IF Claims(at, "a") /\ (Claims(at, "b") => at["b"].prio <= at["a"].prio)
  THEN "a"
  ELSE IF Claims(at, "b") THEN "b" ELSE NoSlot

FreshDefault == [prio |-> MAX_PRIORITY, active |-> TRUE,
                 retry |-> MAX_RETRY_COUNT, succ |-> FALSE, unboot |-> FALSE]

\* GetActiveSlot's first-boot case: nothing is active and boot_a is blank.
IsFirstBoot(at) ==
  /\ ActiveSlotOf(at) = NoSlot
  /\ ~at["a"].active /\ ~at["a"].succ /\ ~at["a"].unboot
  /\ at["a"].prio = 0

\* The attributes every caller of GetActiveSlot goes on with.
GetActiveSlot(at) ==
  IF IsFirstBoot(at) THEN [at EXCEPT !["a"] = FreshDefault] ELSE at

MarkPtnActive(at, s) == [t \in Slots |-> [at[t] EXCEPT !.active = (t = s)]]

\* Mutant of SetActiveSlot: the other slot is not touched.
SetActiveSlot_KeepsOther(at, s, ResetSuccessBit) ==
  [at EXCEPT ![s] = [@ EXCEPT !.prio = MAX_PRIORITY, !.active = TRUE,
                              !.retry = MAX_RETRY_COUNT, !.unboot = FALSE]]

\* The attribute part of SetActiveSlot.
SetActiveSlot(at, s, ResetSuccessBit) ==
  MarkPtnActive(
    [t \in Slots |->
       IF t = s
       THEN [at[t] EXCEPT !.prio = MAX_PRIORITY, !.active = TRUE,
                          !.retry = MAX_RETRY_COUNT, !.unboot = FALSE,
                          !.succ = @ /\ ~ResetSuccessBit]
       ELSE [at[t] EXCEPT !.prio = MAX_PRIORITY - 1, !.active = FALSE]], s)

\* SetActiveSlot with the suffix "_": GetBootPartitionEntry, which compares as
\* far as the suffix goes, takes it for slot a, whose priority is then lowered
\* because a is the alternate slot too, and MarkPtnActive finds it in every
\* name. Slot b keeps its priority, 0 included.
SetActiveBoth(at) ==
  [at EXCEPT !["a"] = [prio |-> MAX_PRIORITY - 1, active |-> TRUE,
                       retry |-> MAX_RETRY_COUNT, succ |-> FALSE,
                       unboot |-> FALSE],
             !["b"].active = TRUE]

\* GetMultiSlotPartsList: the lists it may leave in HeadNode. Running out of
\* memory leaves what was built so far.
MultiSlotPartsLists ==
  IF HeadNode # {} THEN {HeadNode}
  ELSE {Parts} \union ShortLists

\* SwitchPtnSlots returns at once when the list could not be built.
HaveList(list) == HeadNode # {} \/ list = Parts
ListMissed(list) == IF HaveList(list) THEN {} ELSE {"memory"}

\* Mutant of SwitchPtnGuids: only the boot partitions are swapped.
SwitchPtnGuids_BootOnly(gd, list) == [gd EXCEPT !["boot"] = Other(@)]

\* The GUID part of SwitchPtnSlots: it swaps, it does not assign.
SwitchPtnGuids(gd, list) ==
  [p \in Parts |-> IF HaveList(list) /\ p \in list THEN Other(gd[p]) ELSE gd[p]]

\* What UfsGetSetBootLun(Get) leaves in the caller's variable, and whether
\* UfsGetSetBootLun(Set) takes effect; nobody looks at its status.
BootLunReads == IF LunMayFail THEN {lun, 0} ELSE {lun}
BootLunWrites == IF LunMayFail THEN BOOLEAN ELSE {TRUE}

\* Mutant of MatchBootLun: no repair.
MatchBootLun_None(s, read) == lun

\* SetActiveSlot on the slot that is already active sets the LUN to this: it
\* repairs a mismatch.
MatchBootLun(s, read) ==
  IF RootDevice = "UFS" /\ read # 0 THEN LunOf(s) ELSE lun

\* SwitchPtnSlots sets it to this: what was read is always written back.
SwitchBootLun(s, read, list) ==
  IF RootDevice = "UFS" /\ HaveList(list)
  THEN IF read = 0 THEN 0 ELSE LunOf(s)
  ELSE lun

\* With the suffix "_" it switches nothing and writes back what it read.
SameBootLun(read, list) ==
  IF RootDevice = "UFS" /\ HaveList(list) THEN read ELSE lun

SetBootLun(new, works) == IF works THEN new ELSE lun
LunMissed(read, works) == IF read = 0 \/ ~works THEN {"lun"} ELSE {}

TypeGuid(p, s) == IF guid[p] = s THEN p ELSE "inactive"

\* Mutant of ValidateSlotGuids: a failed query is taken for a match.
ValidateSlotGuids_Lenient(s, read) ==
  /\ TypeGuid("boot", s) # TypeGuid("abl", s)
  /\ RootDevice = "UFS" => read \in {0, LunOf(s)}

ValidateSlotGuids(s, read) ==
  /\ TypeGuid("boot", s) # TypeGuid("abl", s)
  /\ RootDevice = "UFS" => read = LunOf(s)

\* Mutant of IsProven: any slot not given up will do.
IsProven_AnyKept(at, s) == ~at[s].unboot

\* The slots FindBootableSlot and HandleActiveSlotUnbootable accept.
IsBootable(at, s) == ~at[s].unboot /\ (at[s].succ \/ at[s].retry > 0)
IsProven(at, s) == ~at[s].unboot /\ at[s].succ

\* LinuxLoaderEntry always starts fastboot, which exempts the retry count.
BootIntoFastboot == TRUE
IsABRetryCountUpdateRequired == ~BootIntoFastboot

SpendRetry(at, s, BootDevImage) ==
  IF at[s].succ \/ BootDevImage \/ ~IsABRetryCountUpdateRequired
  THEN at
  ELSE [at EXCEPT ![s].retry = @ - 1]

ClearUnbootable(at) ==
  IF ActiveSlotOf(at) = NoSlot THEN at
  ELSE [at EXCEPT ![ActiveSlotOf(at)].unboot = FALSE]

\* The marking part of HandleActiveSlotUnbootable; the expression
\* "|= UNBOOTABLE & ~SUCCESSFUL" leaves the successful bit alone.
MarkUnbootable(at, s) ==
  IF FirstBoot THEN at ELSE [at EXCEPT ![s].unboot = TRUE]

-----------------------------------------------------------------------------
(***************************************************************************)
(* Starting the loader, and losing what is only in memory.                 *)
(***************************************************************************)
VarsOf(at) == [s \in Slots |-> [succ |-> at[s].succ, unboot |-> at[s].unboot,
                                retry |-> at[s].retry]]
\* Mutant of NewSlotVars: one try too few is announced.
NewSlotVars_OffByOne ==
  [succ |-> FALSE, unboot |-> FALSE, retry |-> MAX_RETRY_COUNT - 1]

NewSlotVars == [succ |-> FALSE, unboot |-> FALSE, retry |-> MAX_RETRY_COUNT]

\* A power cut or a reset: the globals are gone, the device keeps disk.
Lose ==
  /\ mode' = "off"
  /\ attr' = gpt'.attr /\ guid' = gpt'.guid
  /\ FirstBoot' = FALSE /\ HeadNode' = {}
  /\ CurrentSlotFB' = NoSlot /\ slotVars' = VarsOf(gpt'.attr)
  /\ reply' = "none" /\ booted' = NoSlot
  /\ session' = FALSE /\ tableKept' = TRUE /\ mishaps' = {}

Init ==
  /\ gpt \in Tables
  /\ lun = LunOf(IF gpt.attr["b"].active THEN "b" ELSE "a")
  /\ mode = "off"
  /\ attr = gpt.attr /\ guid = gpt.guid
  /\ FirstBoot = FALSE /\ HeadNode = {}
  /\ CurrentSlotFB = NoSlot /\ slotVars = VarsOf(gpt.attr)
  /\ reply = "none" /\ booted = NoSlot
  /\ wanted = NoSlot /\ session = FALSE /\ tableKept = TRUE /\ mishaps = {}

\* LinuxLoaderEntry up to the fastboot loop: UpdatePartitionEntries,
\* FindPtnActiveSlot, FastbootCommandSetup with PopulateMultislotMetadata.
LinuxLoaderEntry ==
  LET at == GetActiveSlot(gpt.attr)
  IN /\ mode = "off"
     /\ mode' = "fastboot"
     /\ gpt' = UpdatePartitionAttributes(gpt, at, gpt.guid)
     /\ attr' = at /\ guid' = gpt.guid
     /\ FirstBoot' = IsFirstBoot(gpt.attr)
     /\ CurrentSlotFB' = ActiveSlotOf(at)
     /\ slotVars' = VarsOf(at)
     /\ UNCHANGED <<lun, HeadNode, reply, booted, history>>

\* reboot, reboot-bootloader, the power key, a watchdog, a flat battery.
ResetDevice ==
  /\ mode # "off"
  /\ UNCHANGED <<disk, wanted>>
  /\ Lose

-----------------------------------------------------------------------------
(***************************************************************************)
(* set_active                                                              *)
(***************************************************************************)
\* The loop over BootSlotInfo looks for an entry whose "a" or "b" contains
\* the argument and has no other end: an underscore or a comma runs it past
\* the array, and what becomes of the loader then is not followed further.
ScanFinds(arg) == arg \in {"a", "b", ""}

\* GetActiveSlot fails inside SetActiveSlot.
CmdSetActiveFails ==
  /\ mode = "fastboot"
  /\ ActiveSlotOf(GetActiveSlot(attr)) = NoSlot
  /\ reply' = "FAIL"
  /\ UNCHANGED <<disk, mode, memory, published, booted, history>>

CmdSetActive(arg, s) ==
  LET at == GetActiveSlot(attr)
      cur == ActiveSlotOf(at)
  IN /\ mode = "fastboot" /\ arg \in ArgsOf(s)
     /\ cur # NoSlot
     /\ attr' = SetActiveSlot(at, s, TRUE)
     /\ \E read \in BootLunReads, works \in BootLunWrites :
          LET kept == (mishaps \ {"both", "lun"}) \union LunMissed(read, works)
          IN \/ /\ cur = s
                /\ lun' = SetBootLun(MatchBootLun(s, read), works)
                /\ mishaps' = kept
                /\ UNCHANGED <<guid, HeadNode>>
             \/ /\ cur # s
                /\ \E list \in MultiSlotPartsLists :
                     /\ HeadNode' = list
                     /\ guid' = SwitchPtnGuids(guid, list)
                     /\ lun' = SetBootLun(SwitchBootLun(s, read, list), works)
                     /\ mishaps' = kept \union ListMissed(list)
     /\ gpt' = UpdatePartitionAttributes(gpt, attr', guid')
     /\ FirstBoot' = (FirstBoot \/ IsFirstBoot(attr))
     /\ CurrentSlotFB' = ActiveSlotOf(attr')
     /\ IF ScanFinds(arg)
        THEN /\ slotVars' = [slotVars EXCEPT ![s] = NewSlotVars]
             /\ reply' = "OKAY" /\ wanted' = s /\ session' = TRUE
             /\ UNCHANGED <<mode, tableKept>>
        ELSE /\ mode' = "lost" /\ reply' = "none"
             /\ UNCHANGED <<slotVars, wanted, session, tableKept>>
     /\ UNCHANGED booted

\* set_active without a slot. The loop finds the first entry of BootSlotInfo,
\* whichever slot's boot partition comes first in the table.
CmdSetActiveNoSlot(arg) ==
  LET at == GetActiveSlot(attr)
  IN /\ mode = "fastboot" /\ arg \in SuffixlessArgs
     /\ ActiveSlotOf(at) # NoSlot
     /\ attr' = SetActiveBoth(at)
     /\ \E read \in BootLunReads, works \in BootLunWrites,
           list \in MultiSlotPartsLists :
          /\ HeadNode' = list
          /\ guid' = SwitchPtnGuids(guid, list)
          /\ lun' = SetBootLun(SameBootLun(read, list), works)
          /\ mishaps' = mishaps \union {"both", "swapped"}
                         \union ListMissed(list)
     /\ gpt' = UpdatePartitionAttributes(gpt, attr', guid')
     /\ FirstBoot' = (FirstBoot \/ IsFirstBoot(attr))
     /\ CurrentSlotFB' = ActiveSlotOf(attr')
     /\ IF ScanFinds(arg)
        THEN /\ \E s \in Slots : slotVars' = [slotVars EXCEPT ![s] = NewSlotVars]
             /\ reply' = "OKAY" /\ UNCHANGED mode
        ELSE mode' = "lost" /\ reply' = "none" /\ UNCHANGED slotVars
     /\ session' = FALSE
     /\ UNCHANGED <<booted, wanted, tableKept>>

\* A suffix with a comma belongs to no boot partition, which SetActiveSlot
\* finds out after it has asked for the active slot.
CmdSetActiveComma(arg) ==
  /\ mode = "fastboot" /\ arg \in CommaArgs
  /\ attr' = GetActiveSlot(attr)
  /\ FirstBoot' = (FirstBoot \/ IsFirstBoot(attr))
  /\ gpt' = UpdatePartitionAttributes(gpt, attr', guid)
  /\ reply' = "FAIL"
  /\ UNCHANGED <<lun, mode, guid, HeadNode, published, booted, history>>

-----------------------------------------------------------------------------
(***************************************************************************)
(* flash and erase of a boot partition                                     *)
(***************************************************************************)
\* Mutants of FastbootUpdateAttr: the priority leaves its two bits, or the
\* flashed slot is made active as well.
FastbootUpdateAttr_TooHigh(at, s) ==
  [at EXCEPT ![s] = [@ EXCEPT !.prio = @ + 1, !.retry = MAX_RETRY_COUNT,
                              !.succ = FALSE, !.unboot = FALSE]]
FastbootUpdateAttr_Activates(at, s) ==
  [at EXCEPT ![s] = [@ EXCEPT !.prio = MAX_PRIORITY, !.active = TRUE,
                              !.retry = MAX_RETRY_COUNT,
                              !.succ = FALSE, !.unboot = FALSE]]

\* FastbootUpdateAttr: the slot's image is new, so nothing is known of it.
FastbootUpdateAttr(at, s) ==
  [at EXCEPT ![s] = [@ EXCEPT !.prio = MAX_PRIORITY, !.retry = MAX_RETRY_COUNT,
                              !.succ = FALSE, !.unboot = FALSE]]

\* GetPartitionHasSlot: "boot" stands for the active slot's copy, and asking
\* for the active slot may install the first-boot default; "boot_a" does not.
PartitionNames == {"boot", "boot_a", "boot_b"}
TargetAttrs(name) == IF name = "boot" THEN GetActiveSlot(attr) ELSE attr
TargetSlot(name) ==
  CASE name = "boot_a" -> "a" [] name = "boot_b" -> "b"
    [] OTHER -> ActiveSlotOf(GetActiveSlot(attr))

\* HandleRawImgFlash with a failing write, and CmdErase or a raw flash that
\* works, all update the attributes; a sparse image, an image that does not
\* fit and a failing erase do not.
WriteOutcomes == {"written", "write error", "sparse", "refused"}

WriteBoot(name, outcome) ==
  LET at == TargetAttrs(name)
      s == TargetSlot(name)
      updates == outcome \in {"written", "write error"} /\ s # NoSlot
  IN /\ mode = "fastboot"
     /\ attr' = IF updates THEN FastbootUpdateAttr(at, s) ELSE at
     /\ FirstBoot' = (FirstBoot \/ (name = "boot" /\ IsFirstBoot(attr)))
     /\ slotVars' = IF updates THEN [slotVars EXCEPT ![s] = NewSlotVars]
                    ELSE slotVars
     /\ gpt' = UpdatePartitionAttributes(gpt, attr', guid)
     /\ reply' = IF outcome \in {"written", "sparse"} /\ s # NoSlot
                 THEN "OKAY" ELSE "FAIL"
     /\ UNCHANGED <<lun, mode, guid, HeadNode, CurrentSlotFB, booted, history>>

-----------------------------------------------------------------------------
(***************************************************************************)
(* flash partition: a new partition table                                  *)
(***************************************************************************)
\* Before anything else the boot LUN of a UFS device is put back to 1.
FirstBootLun(works) ==
  SetBootLun(IF RootDevice = "UFS" THEN 1 ELSE lun, works)

\* The image is not a GPT, or is for a LUN that cannot take it.
FlashTableRejected ==
  /\ mode = "fastboot"
  /\ \E works \in BootLunWrites : lun' = FirstBootLun(works)
  /\ reply' = "FAIL" /\ session' = FALSE /\ tableKept' = FALSE
  /\ UNCHANGED <<gpt, mode, memory, published, booted, wanted, mishaps>>

\* Written, but ReenumeratePartTable could not refresh the handles.
FlashTableNotRefreshed ==
  /\ mode = "fastboot"
  /\ \E works \in BootLunWrites : lun' = FirstBootLun(works)
  /\ gpt' \in Tables
  /\ reply' = "FAIL" /\ wanted' = NoSlot /\ session' = FALSE
  /\ tableKept' = FALSE
  /\ UNCHANGED <<mode, memory, published, booted, mishaps>>

\* The table of the LUN that holds the boot partitions: ReenumeratePartTable
\* reloads PtnEntries, and PopulateMultislotMetadata resets the variables of
\* the slots to fixed values; current-slot is not published again.
FlashTable ==
  /\ mode = "fastboot"
  /\ \E works \in BootLunWrites : lun' = FirstBootLun(works)
  /\ \E t \in Tables :
       /\ attr' = GetActiveSlot(t.attr) /\ guid' = t.guid
       /\ FirstBoot' = (FirstBoot \/ IsFirstBoot(t.attr))
       /\ gpt' = UpdatePartitionAttributes(t, attr', guid')
  /\ slotVars' = [s \in Slots |-> NewSlotVars]
  /\ reply' = "OKAY" /\ wanted' = NoSlot /\ session' = FALSE
  /\ tableKept' = FALSE /\ mishaps' = mishaps \ {"both", "swapped"}
  /\ UNCHANGED <<mode, HeadNode, CurrentSlotFB, booted>>

\* The table of another LUN: PtnEntries is reloaded all the same, which drops
\* every attribute change made since the loader was started.
FlashOtherTable ==
  /\ mode = "fastboot"
  /\ \E works \in BootLunWrites : lun' = FirstBootLun(works)
  /\ attr' = gpt.attr /\ guid' = gpt.guid
  /\ reply' = "OKAY" /\ session' = FALSE /\ tableKept' = FALSE
  /\ mishaps' = mishaps \ {"both", "swapped"}
  /\ UNCHANGED <<gpt, mode, FirstBoot, HeadNode, published, booted, wanted>>

\* getvar of a partition that has slots asks for the active slot.
CmdGetVar ==
  /\ mode = "fastboot"
  /\ attr' = GetActiveSlot(attr)
  /\ FirstBoot' = (FirstBoot \/ IsFirstBoot(attr))
  /\ gpt' = UpdatePartitionAttributes(gpt, attr', guid)
  /\ reply' = "OKAY"
  /\ UNCHANGED <<lun, mode, guid, HeadNode, published, booted, history>>

-----------------------------------------------------------------------------
(***************************************************************************)
(* continue and boot: LoadImageAndAuth, with FindBootableSlot in it        *)
(***************************************************************************)
BootCmds == {"continue", "boot"}

\* boot clears the unbootable bit of the active slot first.
PrepareBoot(cmd) ==
  LET at == GetActiveSlot(attr)
  IN IF cmd = "boot" THEN ClearUnbootable(at) ELSE at

\* The rest of memory, which every outcome short of a reset leaves alone.
BootKeeps ==
  /\ FirstBoot' = (FirstBoot \/ IsFirstBoot(attr))
  /\ UNCHANGED <<lun, guid, HeadNode, published, history>>

\* A command turned down before it looks at the slots: boot on a locked
\* device, an image without a header, a flash without data.
CmdRefused ==
  /\ mode = "fastboot"
  /\ reply' = "FAIL"
  /\ UNCHANGED <<disk, mode, memory, published, booted, history>>

BootWithoutSlot(cmd) ==
  /\ mode = "fastboot"
  /\ ActiveSlotOf(PrepareBoot(cmd)) = NoSlot
  /\ attr' = PrepareBoot(cmd)
  /\ reply' = "FAIL"
  /\ BootKeeps /\ UNCHANGED <<gpt, mode, booted>>

\* The active slot may be tried: it is handed over when its GUIDs and the
\* boot LUN agree with it and its image can be loaded.
BootActiveSlot(cmd) ==
  LET at == PrepareBoot(cmd)
      s == ActiveSlotOf(at)
      tried == SpendRetry(at, s, cmd = "boot")
  IN /\ mode = "fastboot"
     /\ s # NoSlot /\ IsBootable(at, s)
     /\ \E read \in BootLunReads, loaded \in BOOLEAN :
          IF ValidateSlotGuids(s, read)
          THEN /\ attr' = MarkPtnActive(tried, s)
               /\ IF loaded
                  THEN mode' = "linux" /\ booted' = s /\ reply' = "OKAY"
                  ELSE reply' = "FAIL" /\ UNCHANGED <<mode, booted>>
          ELSE /\ attr' = tried
               /\ reply' = "FAIL" /\ UNCHANGED <<mode, booted>>
     /\ gpt' = UpdatePartitionAttributes(gpt, attr', guid)
     /\ BootKeeps

\* HandleActiveSlotUnbootable finds the other slot unproven.
BootUnbootable(cmd) ==
  LET at == PrepareBoot(cmd)
      s == ActiveSlotOf(at)
  IN /\ mode = "fastboot"
     /\ s # NoSlot /\ ~IsBootable(at, s) /\ ~IsProven(at, Other(s))
     /\ attr' = MarkUnbootable(at, s)
     /\ FirstBoot' = FALSE
     /\ gpt' = UpdatePartitionAttributes(gpt, attr', guid)
     /\ reply' = "FAIL"
     /\ UNCHANGED <<lun, mode, guid, HeadNode, published, booted, history>>

\* It finds the other slot proven: SetActiveSlot, then a cold reset.
BootFallsBack(cmd) ==
  LET at == PrepareBoot(cmd)
      s == ActiveSlotOf(at)
      alt == Other(s)
  IN /\ mode = "fastboot"
     /\ s # NoSlot /\ ~IsBootable(at, s) /\ IsProven(at, alt)
     /\ \E read \in BootLunReads, works \in BootLunWrites,
           list \in MultiSlotPartsLists :
          /\ lun' = SetBootLun(SwitchBootLun(alt, read, list), works)
          /\ gpt' = UpdatePartitionAttributes(gpt,
                      SetActiveSlot(MarkUnbootable(at, s), alt, FALSE),
                      SwitchPtnGuids(guid, list))
     /\ Lose /\ UNCHANGED wanted

-----------------------------------------------------------------------------
\* External: the started system records that its slot works.
OsMarkSuccessful ==
  /\ mode = "linux"
  /\ gpt' = [gpt EXCEPT !.attr[booted].succ = TRUE]
  /\ UNCHANGED <<lun, mode, memory, published, reply, booted, history>>

Next ==
  \/ LinuxLoaderEntry
  \/ ResetDevice
  \/ CmdSetActiveFails
  \/ \E arg \in SlotArgs : \/ \E s \in Slots : CmdSetActive(arg, s)
                           \/ CmdSetActiveNoSlot(arg)
                           \/ CmdSetActiveComma(arg)
  \/ \E name \in PartitionNames, o \in WriteOutcomes : WriteBoot(name, o)
  \/ FlashTableRejected
  \/ FlashTableNotRefreshed
  \/ FlashTable
  \/ FlashOtherTable
  \/ CmdRefused
  \/ CmdGetVar
  \/ \E cmd \in BootCmds : \/ BootWithoutSlot(cmd)
                           \/ BootActiveSlot(cmd)
                           \/ BootUnbootable(cmd)
                           \/ BootFallsBack(cmd)
  \/ OsMarkSuccessful

Spec == Init /\ [][Next]_vars

-----------------------------------------------------------------------------
(***************************************************************************)
(* Properties                                                              *)
(***************************************************************************)
\* The type invariant of the loader's and the device's state.
TypeOK ==
  /\ gpt \in Layouts /\ lun \in 0..2
  /\ mode \in {"off", "fastboot", "linux", "lost"}
  /\ attr \in [Slots -> Attrs] /\ guid \in [Parts -> Slots]
  /\ FirstBoot \in BOOLEAN /\ HeadNode \in SUBSET Parts
  /\ CurrentSlotFB \in Slots \union {NoSlot}
  /\ slotVars \in [Slots -> [succ : BOOLEAN, unboot : BOOLEAN,
                             retry : 0..MAX_RETRY_COUNT]]
  /\ reply \in {"none", "OKAY", "FAIL"}
  /\ booted \in Slots \union {NoSlot}
  /\ wanted \in Slots \union {NoSlot} /\ session \in BOOLEAN
  /\ tableKept \in BOOLEAN /\ mishaps \in SUBSET Mishaps

\* Whatever the commands and their order, at most one boot slot is active,
\* and an active slot has a priority, except after a set_active that named no
\* slot, until the next that names one: the answer of GetActiveSlot does not
\* depend on the tie-break, though FastbootUpdateAttr raises any flashed slot
\* to MAX_PRIORITY. The device's table is never touched by either.
OneActiveSlot ==
  /\ "both" \notin mishaps => OneActive(attr)
  /\ OneActive(gpt.attr)

\* BootLinux is only given the slot that is active, not unbootable, has
\* either proved itself or tries left, whose boot and abl partitions are
\* not both inactive and (on UFS) which XBL will be started from: the
\* checks of FindBootableSlot and ValidateSlotGuids still hold once
\* everything LoadImageAndAuth does after them is done.
BootedSlotSound ==
  mode = "linux" =>
    /\ booted = ActiveSlotOf(attr)
    /\ ~attr[booted].unboot
    /\ attr[booted].succ \/ attr[booted].retry > 0
    /\ TypeGuid("boot", booted) # TypeGuid("abl", booted)
    /\ RootDevice = "UFS" => lun = LunOf(booted)

\* Once set_active of a slot has been OKAYed, and until the next set_active,
\* a flash of the partition table or a restart, that slot is the one continue
\* would try, and no flash, erase, failed boot or getvar takes it back. It has
\* its GUIDs too, unless the list of parts could not be built or an earlier
\* set_active named no slot, and its boot LUN, unless that could not be read
\* or set: none of the three is told to the host.
SetActiveHolds ==
  session /\ mode \in {"fastboot", "linux"} =>
    /\ ActiveSlotOf(attr) = wanted
    /\ IsBootable(attr, wanted)
    /\ mode = "linux" => booted = wanted
    /\ mishaps \intersect {"memory", "swapped"} = {} =>
         TypeGuid("boot", wanted) # TypeGuid("abl", wanted)
    /\ mishaps \intersect {"memory", "lun"} = {} /\ RootDevice = "UFS" =>
         lun = LunOf(wanted)

\* The type GUIDs of all two-slot partitions name one slot as long as the
\* list of parts can be built, and the active one unless a set_active named
\* none: SwitchPtnSlots, which swaps rather than assigns, never gets out of
\* step with the attributes by itself.
GuidsFollowActiveSlot ==
  "memory" \notin mishaps =>
    /\ \A p, q \in Parts : guid[p] = guid[q]
    /\ "swapped" \notin mishaps => GuidsFollow(attr, guid)

\* Until a table is flashed or a set_active names no slot, current-slot is
\* the active slot, and the published retry count and success of a slot are
\* its attributes, although they are copies that every command has to update
\* for itself.
PublishedFaithful ==
  mode = "fastboot" /\ tableKept /\ "swapped" \notin mishaps =>
    /\ CurrentSlotFB = ActiveSlotOf(attr)
    /\ \A s \in Slots : /\ slotVars[s].retry = attr[s].retry
                        /\ slotVars[s].succ = attr[s].succ

\* The loader leaves the slot it was told to use only for one that has
\* booted before: a reset out of continue or boot that moves the boot LUN
\* moves it to a proven slot, or, when the LUN could not be read, disables it.
FallbackToProven ==
  [][mode = "fastboot" /\ mode' = "off" /\ lun' # lun =>
       \/ \E s \in Slots : lun' = LunOf(s) /\ attr[s].succ /\ ~attr[s].unboot
       \/ LunMayFail /\ lun' = 0]_vars

Register == INSTANCE SlotRegister WITH
  Default <- "a",
  phase <- mode,
  disk <- ActiveSlotOf(gpt.attr),
  act <- IF mode = "off" THEN NoSlot ELSE ActiveSlotOf(attr),
  asked <- wanted,
  settled <- session,
  torn <- "both" \in mishaps

\* The loader implements the slot register: flash, erase, getvar and failed
\* boots never move the active slot (they may at most default it to a) unless
\* a set_active without a slot has left two, set_active never writes the
\* device's table, and Linux is started only from the active slot.
ImplementsRegister == Register!Spec

-----------------------------------------------------------------------------
(***************************************************************************)
(* What comments of the code promise, and the code does not keep.          *)
(***************************************************************************)
\* "It needs to update attributes or GUID when PtnEntries is changed": the
\* slot of an OKAYed set_active is the active one after a restart.
SetActivePersists ==
  [][mode = "off" /\ mode' = "fastboot" /\ wanted # NoSlot =>
       ActiveSlotOf(attr') = wanted]_vars

\* "increase the priority of slot to max priority at the same time decrease
\* the priority of other slots": after an OKAYed set_active one slot is active
\* at the highest priority and the other is not.
SetActiveRaisesOne ==
  [][(\E arg \in SlotArgs : \/ \E s \in Slots : CmdSetActive(arg, s)
                            \/ CmdSetActiveNoSlot(arg)) /\ reply' = "OKAY" =>
       \E s \in Slots : /\ attr'[s].active /\ attr'[s].prio = MAX_PRIORITY
                        /\ ~attr'[Other(s)].active
                        /\ attr'[Other(s)].prio < MAX_PRIORITY]_vars
=============================================================================
