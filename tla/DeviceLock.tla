----------------------------- MODULE DeviceLock -----------------------------
(***************************************************************************)
(* The lock state of the device and what depends on it: DevInfo of         *)
(* BootLib/DeviceInfo.c, which this port keeps in memory only, the         *)
(* recovery and Virtual A/B messages on the misc partition                 *)
(* (BootLib/Recovery.c), and the fastboot commands of                      *)
(* FastbootLib/FastbootCmds.c that read or change them. The module         *)
(* UnlockMenu adds the menus and the Next relation.                        *)
(***************************************************************************)
EXTENDS Naturals, FiniteSets

CONSTANTS
  Builds,       \* the build configurations
  Parts,        \* partitions other than misc, and avb_custom_key
  Critical,     \* names that IsCriticalPartition finds
  MergeImages,  \* what an image of misc may hold in its Virtual A/B message
  MetaParts,    \* the partitions a meta image may have an entry for
  VerityModes,  \* the modes a reset leaves verity in
  IoMayFail,    \* may misc, the screen or the keys fail?
  ResetMayFail  \* may VBDeviceResetState fail?

\* A build: GetAVBVersion, TargetBuildVariantUser, IsVirtualAbOtaSupported,
\* IsEnableDisplayMenuFlagSupported, and whether the device has a display.
Build == [avb : {"NO_AVB", "AVB_1", "AVB_2", "AVB_LE"}, user : BOOLEAN,
          vab : BOOLEAN, menus : BOOLEAN, display : BOOLEAN]

Merges == {"invalid", "none", "snapshotted", "merging", "cancelled"}
Busy == {"snapshotted", "merging"}
NoMsg == "NULL"

ASSUME DeviceAssumption ==
  /\ Builds \subseteq Build
  /\ Critical \subseteq Parts \union {"bootloader"}
  /\ MetaParts \subseteq Parts \union {"misc"} /\ MergeImages \subseteq Merges
  /\ VerityModes \subseteq BOOLEAN
  /\ IoMayFail \in BOOLEAN /\ ResetMayFail \in BOOLEAN

VARIABLES
  build,
  on,                  \* "loader", "linux" or "off" (being reset)
  DevInfo,
  misc,                \* the recovery message and the Virtual A/B message
  frp,                 \* the unlock bit at the end of partition frp
  IsAllowUnlock,
  VirtualAbMsg,        \* the message read from misc, or NoMsg
  SnapshotMergeState,  \* the published fastboot variable
  touched,             \* history: what the last command wrote to or erased
  reply                \* its answer

device == <<build, on, DevInfo, misc, frp, IsAllowUnlock, VirtualAbMsg,
            SnapshotMergeState, touched, reply>>

-----------------------------------------------------------------------------
(***************************************************************************)
(* The misc partition                                                      *)
(***************************************************************************)
\* What GetSnapshotMergeStatus leaves in msg; a message that cannot be read,
\* or is not one, is not kept.
MessageRead(msg) ==
  IF msg # NoMsg THEN {msg}
  ELSE {IF misc.merge = "invalid" THEN NoMsg ELSE misc.merge}
       \union (IF IoMayFail THEN {NoMsg} ELSE {})

MergeStatus(msg) == IF msg = NoMsg THEN "none" ELSE msg

\* The variable's values: Virtual A/B states that are not busy are "none".
Published(msg) == IF msg \in Busy THEN msg ELSE "none"

\* Mutant of MergeSet: the result of the write is ignored.
MergeSet_Blind(msg, status) ==
  {[ok |-> TRUE, msg |-> status, misc |-> misc],
   [ok |-> TRUE, msg |-> status, misc |-> [misc EXCEPT !.merge = status]]}

\* SetSnapshotMergeStatus: the outcomes for a message in memory.
MergeSet(msg, status) ==
  IF msg = NoMsg THEN {[ok |-> FALSE, msg |-> msg, misc |-> misc]}
  ELSE {[ok |-> TRUE, msg |-> status, misc |-> [misc EXCEPT !.merge = status]]}
       \union (IF IoMayFail THEN {[ok |-> FALSE, msg |-> msg, misc |-> misc]}
               ELSE {})

\* Mutant of WithCommand: the other fields of the message are cleared.
WithCommand_Fresh(c) == [misc EXCEPT !.command = c, !.recovery = ""]

\* WriteRecoveryMessage, which keeps what it has read.
WithCommand(c) == [misc EXCEPT !.command = c]

\* The message SetDeviceUnlockValue writes is a new one.
WipeMessage == [misc EXCEPT !.command = "", !.recovery = "wipe_data"]

-----------------------------------------------------------------------------
(***************************************************************************)
(* Lock and unlock                                                         *)
(***************************************************************************)
\* The value put back when ResetDeviceState fails.
Reverted(field, State) == [DevInfo EXCEPT ![field] = ~State]

\* The outcomes of SetDeviceUnlockValue. A message that cannot be written is
\* an error, and the new lock state stays.
UnlockOutcomes(field, State) ==
  LET new == [DevInfo EXCEPT ![field] = State]
      resets == build.avb \in {"AVB_1", "AVB_2"}
  IN {[ok |-> TRUE, info |-> new, misc |-> WipeMessage]}
     \union (IF IoMayFail THEN {[ok |-> FALSE, info |-> new, misc |-> misc]}
             ELSE {})
     \union (IF resets /\ ResetMayFail
             THEN {[ok |-> FALSE, info |-> Reverted(field, State), misc |-> misc]}
             ELSE {})

\* ResetDeviceState as FastbootErasePartition calls it.
ResetOutcomes ==
  {TRUE} \union (IF ResetMayFail /\ build.avb \in {"AVB_1", "AVB_2"}
                 THEN {FALSE} ELSE {})

\* SetDeviceUnlock as far as its refusals.
UnlockRefused(field, State) ==
  DevInfo[field] = State \/ (State /\ ~IsAllowUnlock)

UnlockByMenu == build.avb # "AVB_LE" /\ build.display /\ build.menus

RefuseUnlock(field, State) ==
  /\ on = "loader" /\ UnlockRefused(field, State)
  /\ touched' = {} /\ reply' = "FAIL"
  /\ UNCHANGED <<build, on, DevInfo, misc, frp, IsAllowUnlock, VirtualAbMsg,
                 SnapshotMergeState>>

\* SetDeviceUnlock where there is no menu to ask the user with.
SetDeviceUnlock(field, State) ==
  /\ on = "loader" /\ ~UnlockByMenu /\ ~UnlockRefused(field, State)
  /\ \E r \in UnlockOutcomes(field, State) :
       /\ DevInfo' = r.info /\ misc' = r.misc
       /\ reply' = IF r.ok THEN "OKAY" ELSE "FAIL"
       /\ on' = IF r.ok /\ build.avb # "AVB_LE" /\ ~build.menus
                THEN "off" ELSE "loader"
  /\ touched' = {}
  /\ UNCHANGED <<build, frp, IsAllowUnlock, VirtualAbMsg, SnapshotMergeState>>

-----------------------------------------------------------------------------
(***************************************************************************)
(* flash and erase                                                         *)
(***************************************************************************)
\* The lock state is looked at by LE and by user builds.
Gated == build.avb = "AVB_LE" \/ build.user

\* Mutant of LockAllows: critical partitions are asked for first and alone.
LockAllows_Critical(p) ==
  Gated => IF p \in Critical THEN DevInfo.is_unlock_critical
           ELSE DevInfo.is_unlocked

LockAllows(p) ==
  Gated => /\ DevInfo.is_unlocked
           /\ p \in Critical => DevInfo.is_unlock_critical

\* The test in HandleMetaImgFlash.
MetaAllows(p) == p \in Critical => DevInfo.is_unlock_critical

VabCritical == {"misc", "userdata"}

\* The outcomes of the Virtual A/B part of CmdFlash and CmdErase: two reads
\* of the merge status, a refusal, and the cancelling of a merge before super
\* changes. Each is whether the command goes on, the message in memory, misc
\* and the published state.
MergeGate(p) ==
  LET goes(ok, msg, m, published) ==
        [ok |-> ok, msg |-> msg, misc |-> m, published |-> published]
      stays(ok, msg) == goes(ok, msg, misc, SnapshotMergeState)
      refused(first) == first \in Busy /\ p \in VabCritical
      Cancels(msg) == msg \in Busy /\ p = "super"
      firsts == MessageRead(VirtualAbMsg)
      seconds == UNION {MessageRead(first) : first \in {f \in firsts : ~refused(f)}}
  IN IF ~build.vab THEN {stays(TRUE, VirtualAbMsg)}
     ELSE {stays(FALSE, first) : first \in {f \in firsts : refused(f)}}
          \union {stays(TRUE, msg) : msg \in {m \in seconds : ~Cancels(m)}}
          \union {IF r.ok THEN goes(TRUE, r.msg, r.misc, "none")
                  ELSE stays(FALSE, r.msg) :
                    r \in UNION {MergeSet(msg, "cancelled") :
                                   msg \in {m \in seconds : Cancels(m)}}}

\* Enough of misc after p has been written or erased. Its Virtual A/B message
\* is looked at with Virtual A/B alone.
MiscAfter(p, old, erased) ==
  IF p # "misc" THEN {old}
  ELSE {[command |-> "", recovery |-> "", merge |-> m] :
          m \in IF ~build.vab THEN {"none"}
                ELSE IF erased THEN {"invalid"} ELSE MergeImages}

\* The end of CmdFlash: verity is switched on again with system. A failed
\* write has reset FlashResult by then.
VerityAfter(p) ==
  IF p = "system" THEN [DevInfo EXCEPT !.verity_mode = TRUE] ELSE DevInfo

\* flash p with a raw image, or with a meta image that has an entry for e.
WriteImage(by, p, e, g) ==
  /\ VirtualAbMsg' = g.msg /\ SnapshotMergeState' = g.published
  /\ DevInfo' = VerityAfter(p)
  /\ \/ /\ \E after \in MiscAfter(e, g.misc, FALSE) : misc' = after
        /\ touched' = {<<by, e>>}
        /\ reply' \in IF IoMayFail THEN {"OKAY", "FAIL"} ELSE {"OKAY"}
     \/ /\ IoMayFail /\ misc' = g.misc /\ touched' = {} /\ reply' = "FAIL"

Refuse ==
  /\ touched' = {} /\ reply' = "FAIL"
  /\ UNCHANGED <<DevInfo, misc, VirtualAbMsg, SnapshotMergeState>>

RefuseMerging(g) ==
  /\ VirtualAbMsg' = g.msg /\ touched' = {} /\ reply' = "FAIL"
  /\ UNCHANGED <<DevInfo, misc, SnapshotMergeState>>

CmdFlash(p) ==
  /\ on = "loader"
  /\ \/ ~LockAllows(p) /\ Refuse
     \/ /\ LockAllows(p)
        /\ \E g \in MergeGate(p) :
             IF g.ok THEN WriteImage("flash", p, p, g) ELSE RefuseMerging(g)
  /\ UNCHANGED <<build, on, frp, IsAllowUnlock>>

\* A meta image is flashed under a name of its own, and an entry it may not
\* have is found after its name has passed every other test.
CmdFlashMeta(p, e) ==
  /\ on = "loader"
  /\ \/ ~LockAllows(p) /\ Refuse
     \/ /\ LockAllows(p)
        /\ \E g \in MergeGate(p) :
             \/ g.ok /\ MetaAllows(e) /\ WriteImage("meta", p, e, g)
             \/ /\ g.ok /\ ~MetaAllows(e)
                /\ VirtualAbMsg' = g.msg /\ misc' = g.misc
                /\ SnapshotMergeState' = g.published /\ DevInfo' = VerityAfter(p)
                /\ touched' = {} /\ reply' = "FAIL"
             \/ ~g.ok /\ RefuseMerging(g)
  /\ UNCHANGED <<build, on, frp, IsAllowUnlock>>

\* avb_custom_key is no partition: its contents go to DevInfo.
CmdFlashKey(erase) ==
  /\ on = "loader"
  /\ \/ ~LockAllows("avb_custom_key") /\ Refuse
     \/ /\ LockAllows("avb_custom_key")
        /\ \E g \in MergeGate("avb_custom_key") :
             /\ VirtualAbMsg' = g.msg /\ misc' = g.misc
             /\ SnapshotMergeState' = g.published
        /\ DevInfo' = [DevInfo EXCEPT !.user_key = ~erase]
        /\ touched' = {} /\ reply' = "OKAY"
  /\ UNCHANGED <<build, on, frp, IsAllowUnlock>>

\* erase p, once the merge status has let it pass.
EraseIt(p, g) ==
  /\ VirtualAbMsg' = g.msg /\ SnapshotMergeState' = g.published
  /\ UNCHANGED DevInfo
  /\ \/ /\ \E after \in MiscAfter(p, g.misc, TRUE) : misc' = after
        /\ touched' = {<<"erase", p>>}
        /\ reply' \in IF p = "userdata"
                      THEN {IF ok THEN "OKAY" ELSE "FAIL" : ok \in ResetOutcomes}
                      ELSE {"OKAY"}
     \/ /\ IoMayFail /\ misc' = g.misc /\ touched' = {} /\ reply' = "FAIL"

CmdErase(p) ==
  /\ on = "loader"
  /\ \/ ~LockAllows(p) /\ Refuse
     \/ /\ LockAllows(p)
        /\ \E g \in MergeGate(p) : IF g.ok THEN EraseIt(p, g) ELSE RefuseMerging(g)
  /\ UNCHANGED <<build, on, frp, IsAllowUnlock>>

-----------------------------------------------------------------------------
(***************************************************************************)
(* snapshot-update, reboots and continue                                   *)
(***************************************************************************)
\* snapshot-update:cancel.
CancelSnapshot ==
  /\ on = "loader" /\ build.vab /\ touched' = {}
  /\ IF ~DevInfo.is_unlocked
     THEN reply' = "FAIL" /\ UNCHANGED <<misc, VirtualAbMsg, SnapshotMergeState>>
     ELSE \E r \in MergeSet(VirtualAbMsg, "cancelled") :
            /\ misc' = r.misc /\ VirtualAbMsg' = r.msg
            /\ SnapshotMergeState' = IF r.ok THEN "none" ELSE SnapshotMergeState
            /\ reply' = IF r.ok THEN "OKAY" ELSE "FAIL"
  /\ UNCHANGED <<build, on, DevInfo, frp, IsAllowUnlock>>

\* reboot-recovery, reboot-fastboot, and snapshot-update:merge while merging.
RebootTo(command) ==
  /\ on = "loader" /\ touched' = {}
  /\ \/ /\ misc' = WithCommand(command) /\ on' = "off" /\ reply' = "OKAY"
     \/ /\ IoMayFail /\ reply' = "FAIL" /\ UNCHANGED <<misc, on>>
  /\ UNCHANGED <<build, DevInfo, frp, IsAllowUnlock, VirtualAbMsg,
                 SnapshotMergeState>>

\* snapshot-update:merge; when the reboot fails, OKAY follows its FAIL.
MergeSnapshot ==
  /\ on = "loader" /\ build.vab /\ touched' = {}
  /\ \E msg \in MessageRead(VirtualAbMsg) :
       /\ VirtualAbMsg' = msg
       /\ \/ /\ msg = "merging"
             /\ misc' = WithCommand("boot-fastboot") /\ on' = "off"
          \/ /\ msg # "merging" \/ IoMayFail
             /\ UNCHANGED <<misc, on>>
  /\ reply' = "OKAY"
  /\ UNCHANGED <<build, DevInfo, frp, IsAllowUnlock, SnapshotMergeState>>

\* reboot and reboot-bootloader.
CmdReboot ==
  /\ on = "loader" /\ on' = "off" /\ reply' = "OKAY"
  /\ touched' = {}
  /\ UNCHANGED <<build, DevInfo, misc, frp, IsAllowUnlock, VirtualAbMsg,
                 SnapshotMergeState>>

\* continue, when the image could be loaded.
CmdContinue ==
  /\ on = "loader" /\ on' = "linux" /\ reply' = "OKAY"
  /\ touched' = {}
  /\ UNCHANGED <<build, DevInfo, misc, frp, IsAllowUnlock, VirtualAbMsg,
                 SnapshotMergeState>>

\* Linux may change misc and frp in any way before it restarts the device.
LinuxRestarts ==
  /\ on = "linux" /\ on' = "off"
  /\ \E c \in {"", "boot-recovery"},
        m \in IF build.vab THEN Merges ELSE {misc.merge} :
       misc' \in {misc, [command |-> c, recovery |-> "", merge |-> m]}
  /\ frp' \in BOOLEAN
  /\ touched' = {} /\ reply' = "none"
  /\ UNCHANGED <<build, DevInfo, IsAllowUnlock, VirtualAbMsg, SnapshotMergeState>>

\* DeviceInfoInit.
FreshDevInfo(verity) ==
  [is_unlocked |-> TRUE, is_unlock_critical |-> TRUE, verity_mode |-> verity,
   user_key |-> FALSE]

\* LinuxLoaderEntry up to FastbootCommandSetup: always into fastboot; a
\* message that asks for recovery only sets BootIntoRecovery.
Restart(verity) ==
  /\ on = "off" /\ on' = "loader"
  /\ DevInfo' = FreshDevInfo(verity)
  /\ IF build.vab
     THEN \E msg \in MessageRead(NoMsg) :
            VirtualAbMsg' = msg /\ SnapshotMergeState' = Published(msg)
     ELSE VirtualAbMsg' = NoMsg /\ SnapshotMergeState' = "none"
  /\ IsAllowUnlock' \in {frp} \union (IF IoMayFail THEN {FALSE} ELSE {})
  /\ touched' = {} /\ reply' = "none"
  /\ UNCHANGED <<build, misc, frp>>

DeviceInit ==
  /\ build \in Builds /\ on = "off"
  /\ DevInfo = [is_unlocked |-> TRUE, is_unlock_critical |-> TRUE,
                verity_mode |-> FALSE, user_key |-> FALSE]
  /\ misc \in [command : {""}, recovery : {""},
              merge : IF build.vab THEN Merges ELSE {"none"}]
  /\ frp \in BOOLEAN /\ IsAllowUnlock = FALSE
  /\ VirtualAbMsg = NoMsg /\ SnapshotMergeState = "none"
  /\ touched = {} /\ reply = "none"

\* Bound: with menus the host flashes and erases misc alone.
HostParts == IF build.menus THEN {"misc"} ELSE Parts \union {"misc"}
HostMeta == IF build.menus THEN {} ELSE MetaParts

\* What the host may send at any time.
HostCommand ==
  \/ \E f \in {"is_unlocked", "is_unlock_critical"}, s \in BOOLEAN :
       RefuseUnlock(f, s) \/ SetDeviceUnlock(f, s)
  \/ \E p \in HostParts \ {"avb_custom_key"} :
       CmdFlash(p) \/ CmdErase(p)
  \/ \E p \in {"bootloader", "modem"}, e \in HostMeta : CmdFlashMeta(p, e)
  \/ \E erase \in BOOLEAN : "avb_custom_key" \in HostParts /\ CmdFlashKey(erase)
  \/ CancelSnapshot \/ MergeSnapshot
  \/ \E c \in {"boot-recovery", "boot-fastboot"} : RebootTo(c)

-----------------------------------------------------------------------------
(***************************************************************************)
(* Properties                                                              *)
(***************************************************************************)
DeviceTypeOK ==
  /\ build \in Builds /\ on \in {"loader", "linux", "off"}
  /\ DevInfo \in [is_unlocked : BOOLEAN, is_unlock_critical : BOOLEAN,
                  verity_mode : BOOLEAN, user_key : BOOLEAN]
  /\ misc \in [command : {"", "boot-recovery", "boot-fastboot", "ffbm"},
               recovery : {"", "wipe_data"}, merge : Merges]
  /\ frp \in BOOLEAN /\ IsAllowUnlock \in BOOLEAN
  /\ VirtualAbMsg \in (Merges \ {"invalid"}) \union {NoMsg}
  /\ SnapshotMergeState \in {"none", "snapshotted", "merging"}
  /\ touched \subseteq {"flash", "meta", "erase"} \X (Parts \union {"misc"})
  /\ reply \in {"none", "OKAY", "FAIL"}
=============================================================================
