-------------------------- MODULE UnlockMenuProofs --------------------------
(***************************************************************************)
(* Proofs about UnlockMenu and DeviceLock. Every property the run checks   *)
(* is proved for all builds, partitions and images, with misc, the screen, *)
(* the keys and the reset free to fail.                                    *)
(*                                                                         *)
(* LockedKeepsPartitions, SuperCancelsMerge and WipeKept follow from the   *)
(* types and from what each command does. ConfirmedByUser is the one that  *)
(* needs an invariant over the steps of drawing: UnlockMenuShowScreen sets *)
(* the type, the number of options and the selection in three assignments, *)
(* and the callback may run once between any two of them with a key it saw *)
(* on the menu before. Turns says which half drawn menus it may find.      *)
(***************************************************************************)
EXTENDS UnlockMenu, TLAPS

-----------------------------------------------------------------------------
(***************************************************************************)
(* The inductive invariant                                                 *)
(***************************************************************************)
\* The menu of FastbootMenu.c is zeroed or drawn.
FastbootShape ==
  \/ /\ fastbootInfo.MenuType = "YELLOW"
     /\ fastbootInfo.OptionNum = 0 /\ fastbootInfo.OptionIndex = 0
  \/ /\ fastbootInfo.MenuType = "FASTBOOT"
     /\ fastbootInfo.OptionNum = 6 /\ fastbootInfo.OptionIndex \in 0..5

\* The menu of UnlockMenu.c, by where DisplayUnlockMenu is.
UnlockShape ==
  \/ /\ unlockInfo.MenuType = "YELLOW" /\ pc \in {"idle", "draw"}
     /\ unlockInfo.OptionNum = 0 /\ unlockInfo.OptionIndex = 0
  \/ /\ unlockInfo.MenuType \in UnlockTypes /\ pc = "typed"
     /\ unlockInfo.OptionNum = 0 /\ unlockInfo.OptionIndex \in -1..1
  \/ /\ unlockInfo.MenuType \in UnlockTypes
     /\ pc \in {"numbered", "init", "idle"}
     /\ unlockInfo.OptionNum = 2 /\ unlockInfo.OptionIndex \in -1..2

\* A menu that is being drawn is the requested one, in builds that have it.
Drawing ==
  /\ pc # "idle" => request \in UnlockTypes
  /\ pc \in {"typed", "numbered", "init"} => unlockInfo.MenuType = request
  /\ unlockInfo.MenuType \in UnlockTypes => UnlockByMenu
  /\ request \in UnlockTypes => UnlockByMenu

\* What is asked for is a change.
Asked ==
  on = "loader" =>
    \A type \in UnlockTypes :
      \/ request = type
      \/ unlockInfo.MenuType = type
      => DevInfo[FieldOf(type)] # StateOf(type)

\* The callback runs once between two assignments, so a power key it acts on
\* has not met a selection made on the menu before it was complete.
Turns ==
  /\ pc = "typed" => \/ unlockInfo.OptionIndex = 0
                     \/ ~armed /\ LastKey # "POWER"
  /\ pc = "numbered" /\ unlockInfo.OptionIndex = 1 => ~armed \/ LastKey # "POWER"
  /\ pc = "init" /\ unlockInfo.OptionIndex = 1 =>
       CallbackKeyDetection = "unlock" /\ ~armed

\* On a complete menu the item that confirms is the one on the screen, and a
\* power key that is down went down on it.
Confirms ==
  /\ pc \in {"init", "idle"} /\ CallbackKeyDetection = "unlock"
  /\ unlockInfo.MenuType \in UnlockTypes /\ unlockInfo.OptionIndex = 1

Shows ==
  Confirms =>
    /\ shown = Asks(StateOf(unlockInfo.MenuType))
    /\ LastKey = "POWER" => pressed = Asks(StateOf(unlockInfo.MenuType))

MenuInv ==
  /\ TypeOK /\ FastbootShape /\ UnlockShape /\ Drawing /\ Asked /\ Turns /\ Shows

-----------------------------------------------------------------------------
(***************************************************************************)
(* The operators of DeviceLock                                             *)
(***************************************************************************)
Msgs == (Merges \ {"invalid"}) \union {NoMsg}
MiscSet == [command : {"", "boot-recovery", "boot-fastboot", "ffbm"},
            recovery : {"", "wipe_data"}, merge : Merges]
InfoSet == [is_unlocked : BOOLEAN, is_unlock_critical : BOOLEAN,
            verity_mode : BOOLEAN, user_key : BOOLEAN]
States == {"none", "snapshotted", "merging"}
MenuSet == [MenuType : {"YELLOW", "FASTBOOT"} \union UnlockTypes,
            OptionNum : {0, 2, 6}, OptionIndex : -1..5, TimeoutTime : {0, 60}]

\* Every message in memory is one that misc may hold, or none at all.
LEMMA MessageReadType ==
  ASSUME DeviceTypeOK, NEW msg \in Msgs
  PROVE  MessageRead(msg) \subseteq Msgs
BY DEF DeviceTypeOK, MessageRead, Msgs, Merges, NoMsg

\* SetSnapshotMergeStatus leaves the rest of misc alone.
LEMMA MergeSetType ==
  ASSUME DeviceTypeOK, NEW msg \in Msgs, NEW r \in MergeSet(msg, "cancelled")
  PROVE  /\ r.ok \in BOOLEAN /\ r.msg \in Msgs /\ r.misc \in MiscSet
         /\ r.misc.recovery = misc.recovery
         /\ r.ok => r.msg = "cancelled" /\ r.misc.merge = "cancelled"
<1>1. misc \in MiscSet
  BY DEF DeviceTypeOK, MiscSet
<1>2. "cancelled" \in Msgs /\ "cancelled" \in Merges
  BY DEF Msgs, Merges
<1>3. \/ r = [ok |-> FALSE, msg |-> msg, misc |-> misc]
      \/ r = [ok |-> TRUE, msg |-> "cancelled",
              misc |-> [misc EXCEPT !.merge = "cancelled"]]
  BY DEF MergeSet
<1>4. [misc EXCEPT !.merge = "cancelled"] \in MiscSet
  BY <1>1, <1>2 DEF MiscSet
<1>5. /\ [misc EXCEPT !.merge = "cancelled"].recovery = misc.recovery
      /\ [misc EXCEPT !.merge = "cancelled"].merge = "cancelled"
  BY <1>1 DEF MiscSet
<1>6. CASE r = [ok |-> FALSE, msg |-> msg, misc |-> misc]
  BY <1>1, <1>6
<1>7. CASE r = [ok |-> TRUE, msg |-> "cancelled",
                misc |-> [misc EXCEPT !.merge = "cancelled"]]
  BY <1>2, <1>4, <1>5, <1>7
<1>8. QED
  BY <1>3, <1>6, <1>7

\* So does the Virtual A/B part of CmdFlash and CmdErase.
LEMMA MergeGateType ==
  ASSUME DeviceTypeOK, NEW p, NEW g \in MergeGate(p)
  PROVE  /\ g.ok \in BOOLEAN /\ g.msg \in Msgs /\ g.misc \in MiscSet
         /\ g.misc.recovery = misc.recovery /\ g.published \in States
<1>1. VirtualAbMsg \in Msgs /\ misc \in MiscSet /\ SnapshotMergeState \in States
  BY DEF DeviceTypeOK, Msgs, MiscSet, States
<1>2. MessageRead(VirtualAbMsg) \subseteq Msgs
  BY <1>1, MessageReadType
<1>3. \A first \in MessageRead(VirtualAbMsg) : MessageRead(first) \subseteq Msgs
  BY <1>2, MessageReadType
<1>4. ASSUME NEW ok \in BOOLEAN, NEW msg \in Msgs,
             g = [ok |-> ok, msg |-> msg, misc |-> misc,
                  published |-> SnapshotMergeState]
      PROVE  /\ g.ok \in BOOLEAN /\ g.msg \in Msgs /\ g.misc \in MiscSet
             /\ g.misc.recovery = misc.recovery /\ g.published \in States
  BY <1>1, <1>4
<1>5. ASSUME NEW msg \in Msgs, NEW r \in MergeSet(msg, "cancelled"),
             g = [ok |-> TRUE, msg |-> r.msg, misc |-> r.misc,
                  published |-> "none"]
      PROVE  /\ g.ok \in BOOLEAN /\ g.msg \in Msgs /\ g.misc \in MiscSet
             /\ g.misc.recovery = misc.recovery /\ g.published \in States
  BY <1>5, MergeSetType DEF States
<1>6. \/ \E ok \in BOOLEAN, msg \in Msgs :
           g = [ok |-> ok, msg |-> msg, misc |-> misc,
                published |-> SnapshotMergeState]
      \/ \E msg \in Msgs : \E r \in MergeSet(msg, "cancelled") :
           g = [ok |-> TRUE, msg |-> r.msg, misc |-> r.misc,
                published |-> "none"]
  <2>1. CASE ~build.vab
    BY <1>1, <2>1 DEF MergeGate
  <2>2. CASE build.vab
    <3>1. ASSUME NEW msg \in Msgs, NEW r \in MergeSet(msg, "cancelled"),
                 g = IF r.ok
                     THEN [ok |-> TRUE, msg |-> r.msg, misc |-> r.misc,
                           published |-> "none"]
                     ELSE [ok |-> FALSE, msg |-> r.msg, misc |-> misc,
                           published |-> SnapshotMergeState]
          PROVE  <1>6!1 \/ <1>6!2
      BY <3>1, MergeSetType
    <3>2. QED
      BY <1>2, <1>3, <2>2, <3>1 DEF MergeGate
  <2>3. QED
    BY <2>1, <2>2
<1>7. QED
  BY <1>4, <1>5, <1>6

\* SetDeviceUnlockValue changes one of the two locks, or neither.
LEMMA UnlockOutcomesType ==
  ASSUME DeviceTypeOK, NEW type \in UnlockTypes,
         NEW r \in UnlockOutcomes(FieldOf(type), StateOf(type))
  PROVE  /\ r.ok \in BOOLEAN /\ r.info \in InfoSet /\ r.misc \in MiscSet
         /\ r.misc.recovery \in {misc.recovery, "wipe_data"}
         /\ r.ok => r.misc.recovery = "wipe_data"
<1> DEFINE field == FieldOf(type)  State == StateOf(type)
<1>1. misc \in MiscSet /\ DevInfo \in InfoSet
  BY DEF DeviceTypeOK, MiscSet, InfoSet
<1>2. field \in {"is_unlocked", "is_unlock_critical"} /\ State \in BOOLEAN
  BY DEF FieldOf, StateOf
<1>3. r \in {[ok |-> TRUE, info |-> [DevInfo EXCEPT ![field] = State],
              misc |-> WipeMessage],
             [ok |-> FALSE, info |-> [DevInfo EXCEPT ![field] = State],
              misc |-> misc],
             [ok |-> FALSE, info |-> [DevInfo EXCEPT ![field] = ~State],
              misc |-> misc]}
  BY DEF UnlockOutcomes, Reverted
<1> HIDE DEF field, State
<1>4. WipeMessage \in MiscSet /\ WipeMessage.recovery = "wipe_data"
  BY <1>1 DEF WipeMessage, MiscSet
<1>5. ASSUME NEW value \in BOOLEAN
      PROVE  [DevInfo EXCEPT ![field] = value] \in InfoSet
  <2>1. CASE field = "is_unlocked"
    BY <1>1, <2>1 DEF InfoSet
  <2>2. CASE field = "is_unlock_critical"
    BY <1>1, <2>2 DEF InfoSet
  <2>3. QED
    BY <1>2, <2>1, <2>2
<1>6. /\ [DevInfo EXCEPT ![field] = State] \in InfoSet
      /\ [DevInfo EXCEPT ![field] = ~State] \in InfoSet
  BY <1>2, <1>5
<1>7. CASE r = [ok |-> TRUE, info |-> [DevInfo EXCEPT ![field] = State],
                misc |-> WipeMessage]
  BY <1>4, <1>6, <1>7
<1>8. ASSUME NEW info \in InfoSet, r = [ok |-> FALSE, info |-> info, misc |-> misc]
      PROVE  /\ r.ok = FALSE /\ r.info \in InfoSet /\ r.misc \in MiscSet
             /\ r.misc.recovery = misc.recovery
  BY <1>1, <1>8
<1>9. QED
  BY <1>3, <1>6, <1>7, <1>8

-----------------------------------------------------------------------------
(***************************************************************************)
(* The commands                                                            *)
(***************************************************************************)
LocksSame ==
  /\ DevInfo'.is_unlocked = DevInfo.is_unlocked
  /\ DevInfo'.is_unlock_critical = DevInfo.is_unlock_critical

\* A request to wipe is on misc after the step if it was before, unless misc
\* was what the step wrote.
RequestKept ==
  misc.recovery = "wipe_data" =>
    \/ misc'.recovery = "wipe_data"
    \/ \E by \in {"flash", "meta", "erase"} : <<by, "misc">> \in touched'

HostStep == DeviceTypeOK' /\ build' = build /\ LocksSame /\ RequestKept

\* The parts of DeviceTypeOK that a command may change, put together.
LEMMA DeviceTypeNext ==
  ASSUME DeviceTypeOK, build' = build, on' \in {"loader", "linux", "off"},
         DevInfo' \in InfoSet, misc' \in MiscSet, frp' \in BOOLEAN,
         IsAllowUnlock' \in BOOLEAN, VirtualAbMsg' \in Msgs,
         SnapshotMergeState' \in States,
         touched' \subseteq {"flash", "meta", "erase"} \X (Parts \union {"misc"}),
         reply' \in {"none", "OKAY", "FAIL"}
  PROVE  DeviceTypeOK'
BY DEF DeviceTypeOK, InfoSet, MiscSet, Msgs, States

LEMMA DeviceTypes ==
  ASSUME DeviceTypeOK
  PROVE  /\ on \in {"loader", "linux", "off"} /\ DevInfo \in InfoSet
         /\ misc \in MiscSet /\ frp \in BOOLEAN /\ IsAllowUnlock \in BOOLEAN
         /\ VirtualAbMsg \in Msgs /\ SnapshotMergeState \in States
         /\ touched \subseteq {"flash", "meta", "erase"} \X (Parts \union {"misc"})
         /\ reply \in {"none", "OKAY", "FAIL"}
BY DEF DeviceTypeOK, InfoSet, MiscSet, Msgs, States

\* Verity does not touch the locks.
LEMMA VerityAfterType ==
  ASSUME DeviceTypeOK, NEW p
  PROVE  /\ VerityAfter(p) \in InfoSet
         /\ VerityAfter(p).is_unlocked = DevInfo.is_unlocked
         /\ VerityAfter(p).is_unlock_critical = DevInfo.is_unlock_critical
<1>1. DevInfo \in InfoSet
  BY DeviceTypes
<1>2. QED
  BY <1>1 DEF VerityAfter, InfoSet

LEMMA MiscAfterType ==
  ASSUME NEW p, NEW old \in MiscSet, NEW erased \in BOOLEAN,
         NEW after \in MiscAfter(p, old, erased)
  PROVE  /\ after \in MiscSet
         /\ p # "misc" => after = old
<1>1. MergeImages \subseteq Merges
  BY DeviceAssumption
<1>2. CASE p # "misc"
  BY <1>2 DEF MiscAfter
<1>3. CASE p = "misc"
  <2>1. PICK m \in Merges : after = [command |-> "", recovery |-> "", merge |-> m]
    BY <1>1, <1>3 DEF MiscAfter, Merges
  <2>2. QED
    BY <2>1, <1>3 DEF MiscSet
<1>4. QED
  BY <1>2, <1>3

LEMMA RefuseStep ==
  ASSUME DeviceTypeOK, Refuse, UNCHANGED <<build, on, frp, IsAllowUnlock>>
  PROVE  HostStep
<1>1. DeviceTypeOK'
  BY DeviceTypes, DeviceTypeNext DEF Refuse
<1>2. QED
  BY <1>1 DEF HostStep, LocksSame, RequestKept, Refuse

LEMMA RefuseMergingStep ==
  ASSUME DeviceTypeOK, NEW p, NEW g \in MergeGate(p), RefuseMerging(g),
         UNCHANGED <<build, on, frp, IsAllowUnlock>>
  PROVE  HostStep
<1>1. DeviceTypeOK'
  BY DeviceTypes, DeviceTypeNext, MergeGateType DEF RefuseMerging
<1>2. QED
  BY <1>1 DEF HostStep, LocksSame, RequestKept, RefuseMerging

LEMMA WriteImageStep ==
  ASSUME DeviceTypeOK, NEW by \in {"flash", "meta"}, NEW p,
         NEW e \in Parts \union {"misc"}, NEW g \in MergeGate(p),
         WriteImage(by, p, e, g), UNCHANGED <<build, on, frp, IsAllowUnlock>>
  PROVE  HostStep
<1>1. DevInfo' \in InfoSet /\ LocksSame
  BY VerityAfterType DEF WriteImage, LocksSame
<1>2. /\ VirtualAbMsg' \in Msgs /\ SnapshotMergeState' \in States
      /\ g.misc \in MiscSet /\ g.misc.recovery = misc.recovery
  BY MergeGateType DEF WriteImage
<1>a. \/ touched' = {<<by, e>>} /\ misc' \in MiscAfter(e, g.misc, FALSE)
      \/ touched' = {} /\ misc' = g.misc
  BY DEF WriteImage
<1>3. /\ misc' \in MiscSet
      /\ misc'.recovery = misc.recovery \/ (e = "misc" /\ touched' = {<<by, e>>})
  BY <1>2, <1>a, MiscAfterType
<1>4. /\ touched' \subseteq {"flash", "meta", "erase"} \X (Parts \union {"misc"})
      /\ reply' \in {"none", "OKAY", "FAIL"}
  <2>1. reply' \in {"none", "OKAY", "FAIL"}
    BY DEF WriteImage
  <2>2. <<by, e>> \in {"flash", "meta", "erase"} \X (Parts \union {"misc"})
    OBVIOUS
  <2>3. QED
    BY <1>a, <2>1, <2>2
<1>5. DeviceTypeOK'
  BY <1>1, <1>2, <1>3, <1>4, DeviceTypes, DeviceTypeNext
<1>6. RequestKept
  BY <1>3 DEF RequestKept
<1>7. QED
  BY <1>1, <1>5, <1>6 DEF HostStep

LEMMA CmdFlashStep ==
  ASSUME DeviceTypeOK, NEW p \in Parts \union {"misc"}, CmdFlash(p)
  PROVE  HostStep
BY RefuseStep, RefuseMergingStep, WriteImageStep DEF CmdFlash

LEMMA CmdFlashMetaStep ==
  ASSUME DeviceTypeOK, NEW p, NEW e \in MetaParts, CmdFlashMeta(p, e)
  PROVE  HostStep
<1>1. e \in Parts \union {"misc"}
  BY DeviceAssumption
<1>2. UNCHANGED <<build, on, frp, IsAllowUnlock>>
  BY DEF CmdFlashMeta
<1>3. ASSUME NEW g \in MergeGate(p), VirtualAbMsg' = g.msg, misc' = g.misc,
             SnapshotMergeState' = g.published, DevInfo' = VerityAfter(p),
             touched' = {}, reply' = "FAIL"
      PROVE  HostStep
  <2>1. DevInfo' \in InfoSet /\ LocksSame
    BY <1>3, VerityAfterType DEF LocksSame
  <2>2. DeviceTypeOK'
    BY <1>2, <1>3, <2>1, DeviceTypes, DeviceTypeNext, MergeGateType
  <2>3. RequestKept
    BY <1>3, MergeGateType DEF RequestKept
  <2>4. QED
    BY <1>2, <2>1, <2>2, <2>3 DEF HostStep
<1>4. QED
  BY <1>1, <1>2, <1>3, RefuseStep, RefuseMergingStep, WriteImageStep
     DEF CmdFlashMeta

LEMMA CmdFlashKeyStep ==
  ASSUME DeviceTypeOK, NEW erase \in BOOLEAN, CmdFlashKey(erase)
  PROVE  HostStep
<1>1. UNCHANGED <<build, on, frp, IsAllowUnlock>>
  BY DEF CmdFlashKey
<1>2. CASE Refuse
  BY <1>1, <1>2, RefuseStep
<1>3. CASE ~Refuse
  <2>1. PICK g \in MergeGate("avb_custom_key") :
          /\ VirtualAbMsg' = g.msg /\ misc' = g.misc
          /\ SnapshotMergeState' = g.published
    BY <1>3 DEF CmdFlashKey
  <2>2. /\ DevInfo' = [DevInfo EXCEPT !.user_key = ~erase]
        /\ touched' = {} /\ reply' = "OKAY"
    BY <1>3 DEF CmdFlashKey
  <2>3. DevInfo' \in InfoSet /\ LocksSame
    BY <2>2, DeviceTypes DEF InfoSet, LocksSame
  <2>4. DeviceTypeOK'
    BY <1>1, <2>1, <2>2, <2>3, DeviceTypes, DeviceTypeNext, MergeGateType
  <2>5. RequestKept
    BY <2>1, MergeGateType DEF RequestKept
  <2>6. QED
    BY <1>1, <2>3, <2>4, <2>5 DEF HostStep
<1>4. QED
  BY <1>2, <1>3

LEMMA CmdEraseStep ==
  ASSUME DeviceTypeOK, NEW p \in Parts \union {"misc"}, CmdErase(p)
  PROVE  HostStep
<1>1. UNCHANGED <<build, on, frp, IsAllowUnlock>>
  BY DEF CmdErase
<1>2. ASSUME NEW g \in MergeGate(p), EraseIt(p, g)
      PROVE  HostStep
  <2>1. /\ VirtualAbMsg' \in Msgs /\ SnapshotMergeState' \in States
        /\ g.misc \in MiscSet /\ g.misc.recovery = misc.recovery
    BY <1>2, MergeGateType DEF EraseIt
  <2>a. \/ touched' = {<<"erase", p>>} /\ misc' \in MiscAfter(p, g.misc, TRUE)
        \/ touched' = {} /\ misc' = g.misc
    BY <1>2 DEF EraseIt
  <2>2. /\ misc' \in MiscSet
        /\ \/ misc'.recovery = misc.recovery
           \/ p = "misc" /\ touched' = {<<"erase", p>>}
    BY <2>1, <2>a, MiscAfterType
  <2>3. /\ touched' \subseteq {"flash", "meta", "erase"} \X (Parts \union {"misc"})
        /\ reply' \in {"none", "OKAY", "FAIL"} /\ DevInfo' = DevInfo
    <3>1. reply' \in {"none", "OKAY", "FAIL"} /\ DevInfo' = DevInfo
      BY <1>2 DEF EraseIt
    <3>2. <<"erase", p>> \in {"flash", "meta", "erase"} \X (Parts \union {"misc"})
      OBVIOUS
    <3>3. QED
      BY <2>a, <3>1, <3>2
  <2>4. DeviceTypeOK'
    BY <1>1, <2>1, <2>2, <2>3, DeviceTypes, DeviceTypeNext
  <2>5. QED
    BY <1>1, <2>2, <2>3, <2>4 DEF HostStep, LocksSame, RequestKept
<1>3. QED
  BY <1>1, <1>2, RefuseStep, RefuseMergingStep DEF CmdErase

LEMMA RefuseUnlockStep ==
  ASSUME DeviceTypeOK, NEW f, NEW s, RefuseUnlock(f, s)
  PROVE  HostStep
<1>1. DeviceTypeOK'
  BY DeviceTypes, DeviceTypeNext DEF RefuseUnlock
<1>2. QED
  BY <1>1 DEF HostStep, LocksSame, RequestKept, RefuseUnlock

LEMMA CancelSnapshotStep ==
  ASSUME DeviceTypeOK, CancelSnapshot
  PROVE  HostStep
<1>1. UNCHANGED <<build, on, DevInfo, frp, IsAllowUnlock>> /\ touched' = {}
  BY DEF CancelSnapshot
<1>2. \/ /\ reply' = "FAIL"
         /\ UNCHANGED <<misc, VirtualAbMsg, SnapshotMergeState>>
      \/ \E r \in MergeSet(VirtualAbMsg, "cancelled") :
           /\ misc' = r.misc /\ VirtualAbMsg' = r.msg
           /\ SnapshotMergeState' \in {"none", SnapshotMergeState}
           /\ reply' \in {"OKAY", "FAIL"}
  BY DEF CancelSnapshot
<1>3. /\ VirtualAbMsg' \in Msgs /\ misc' \in MiscSet
      /\ misc'.recovery = misc.recovery /\ SnapshotMergeState' \in States
      /\ reply' \in {"none", "OKAY", "FAIL"}
  BY <1>2, DeviceTypes, MergeSetType DEF States
<1>4. DeviceTypeOK'
  BY <1>1, <1>3, DeviceTypes, DeviceTypeNext
<1>5. QED
  BY <1>1, <1>3, <1>4 DEF HostStep, LocksSame, RequestKept

\* WriteRecoveryMessage keeps what else is on misc.
LEMMA WithCommandType ==
  ASSUME DeviceTypeOK,
         NEW c \in {"", "boot-recovery", "boot-fastboot", "ffbm"}
  PROVE  /\ [misc EXCEPT !.command = c] \in MiscSet
         /\ [misc EXCEPT !.command = c].recovery = misc.recovery
<1>1. misc \in MiscSet
  BY DeviceTypes
<1>2. QED
  BY <1>1 DEF MiscSet

LEMMA RebootToStep ==
  ASSUME DeviceTypeOK, NEW c \in {"boot-recovery", "boot-fastboot"}, RebootTo(c)
  PROVE  HostStep
<1>1. misc' \in MiscSet /\ misc'.recovery = misc.recovery
  BY WithCommandType, DeviceTypes DEF RebootTo, WithCommand
<1>2. /\ on' \in {"loader", "linux", "off"} /\ reply' \in {"none", "OKAY", "FAIL"}
  BY DeviceTypes DEF RebootTo
<1>3. DeviceTypeOK'
  BY <1>1, <1>2, DeviceTypes, DeviceTypeNext DEF RebootTo
<1>4. QED
  BY <1>1, <1>3 DEF HostStep, LocksSame, RequestKept, RebootTo

LEMMA MergeSnapshotStep ==
  ASSUME DeviceTypeOK, MergeSnapshot
  PROVE  HostStep
<1>1. misc' \in MiscSet /\ misc'.recovery = misc.recovery
  BY WithCommandType, DeviceTypes DEF MergeSnapshot, WithCommand
<1>2. /\ on' \in {"loader", "linux", "off"} /\ VirtualAbMsg' \in Msgs
  BY DeviceTypes, MessageReadType DEF MergeSnapshot
<1>3. DeviceTypeOK'
  BY <1>1, <1>2, DeviceTypes, DeviceTypeNext DEF MergeSnapshot
<1>4. QED
  BY <1>1, <1>3 DEF HostStep, LocksSame, RequestKept, MergeSnapshot

LEMMA CmdRebootStep ==
  ASSUME DeviceTypeOK, CmdReboot
  PROVE  HostStep
<1>1. DeviceTypeOK'
  BY DeviceTypes, DeviceTypeNext DEF CmdReboot
<1>2. QED
  BY <1>1 DEF HostStep, LocksSame, RequestKept, CmdReboot

LEMMA CmdContinueStep ==
  ASSUME DeviceTypeOK, CmdContinue
  PROVE  HostStep
<1>1. DeviceTypeOK'
  BY DeviceTypes, DeviceTypeNext DEF CmdContinue
<1>2. QED
  BY <1>1 DEF HostStep, LocksSame, RequestKept, CmdContinue

\* The lock commands of a build without a menu.
LEMMA SetDeviceUnlockStep ==
  ASSUME DeviceTypeOK, NEW f \in {"is_unlocked", "is_unlock_critical"},
         NEW s \in BOOLEAN, SetDeviceUnlock(f, s)
  PROVE  /\ DeviceTypeOK' /\ build' = build /\ ~UnlockByMenu /\ RequestKept
         /\ reply' = "OKAY" => misc'.recovery = "wipe_data"
<1>1. PICK type \in UnlockTypes : FieldOf(type) = f /\ StateOf(type) = s
  BY DEF UnlockTypes, FieldOf, StateOf
<1>2. PICK r \in UnlockOutcomes(f, s) :
        /\ DevInfo' = r.info /\ misc' = r.misc
        /\ reply' = IF r.ok THEN "OKAY" ELSE "FAIL"
        /\ on' = IF r.ok /\ build.avb # "AVB_LE" /\ ~build.menus
                 THEN "off" ELSE "loader"
  BY DEF SetDeviceUnlock
<1>3. /\ r.ok \in BOOLEAN /\ r.info \in InfoSet /\ r.misc \in MiscSet
      /\ r.misc.recovery \in {misc.recovery, "wipe_data"}
      /\ r.ok => r.misc.recovery = "wipe_data"
  BY <1>1, UnlockOutcomesType
<1>4. /\ ~UnlockByMenu /\ touched' = {}
      /\ UNCHANGED <<build, frp, IsAllowUnlock, VirtualAbMsg, SnapshotMergeState>>
  BY DEF SetDeviceUnlock
<1>5. DeviceTypeOK'
  BY <1>2, <1>3, <1>4, DeviceTypes, DeviceTypeNext
<1>6. QED
  BY <1>2, <1>3, <1>4, <1>5 DEF RequestKept

\* All that the host may send.
LEMMA HostCommandStep ==
  ASSUME DeviceTypeOK, HostCommand
  PROVE  /\ DeviceTypeOK' /\ build' = build /\ RequestKept
         /\ \/ LocksSame
            \/ /\ ~UnlockByMenu
               /\ reply' = "OKAY" => misc'.recovery = "wipe_data"
<1>1. HostParts \subseteq Parts \union {"misc"} /\ HostMeta \subseteq MetaParts
  BY DEF HostParts, HostMeta
<1>2. ASSUME NEW f \in {"is_unlocked", "is_unlock_critical"}, NEW s \in BOOLEAN,
             SetDeviceUnlock(f, s)
      PROVE  /\ DeviceTypeOK' /\ build' = build /\ ~UnlockByMenu /\ RequestKept
             /\ reply' = "OKAY" => misc'.recovery = "wipe_data"
  BY <1>2, SetDeviceUnlockStep
<1>3. \/ \E f \in {"is_unlocked", "is_unlock_critical"}, s \in BOOLEAN :
           SetDeviceUnlock(f, s)
      \/ HostStep
  BY <1>1, RefuseUnlockStep, CmdFlashStep, CmdEraseStep, CmdFlashMetaStep,
     CmdFlashKeyStep, CancelSnapshotStep, MergeSnapshotStep, RebootToStep
     DEF HostCommand
<1>4. QED
  BY <1>2, <1>3 DEF HostStep

\* Linux and a restart of the loader.
LEMMA LinuxStep ==
  ASSUME DeviceTypeOK, LinuxRestarts
  PROVE  DeviceTypeOK' /\ build' = build /\ LocksSame
<1>1. misc' \in MiscSet
  <2>1. PICK c \in {"", "boot-recovery"},
             m \in IF build.vab THEN Merges ELSE {misc.merge} :
          misc' \in {misc, [command |-> c, recovery |-> "", merge |-> m]}
    BY DEF LinuxRestarts
  <2>2. m \in Merges /\ misc \in MiscSet
    BY <2>1, DeviceTypes DEF MiscSet
  <2>3. [command |-> c, recovery |-> "", merge |-> m] \in MiscSet
    BY <2>2 DEF MiscSet
  <2>4. QED
    BY <2>1, <2>2, <2>3
<1>2. DeviceTypeOK'
  BY <1>1, DeviceTypes, DeviceTypeNext DEF LinuxRestarts
<1>3. QED
  BY <1>2 DEF LinuxRestarts, LocksSame

LEMMA RestartStep ==
  ASSUME DeviceTypeOK, NEW verity \in BOOLEAN, Restart(verity)
  PROVE  DeviceTypeOK' /\ build' = build /\ misc' = misc /\ on = "off"
<1>1. DevInfo' \in InfoSet
  BY DEF Restart, FreshDevInfo, InfoSet
<1>2. VirtualAbMsg' \in Msgs /\ SnapshotMergeState' \in States
  <2>1. CASE build.vab
    <3>1. NoMsg \in Msgs
      BY DEF Msgs
    <3>2. PICK msg \in MessageRead(NoMsg) :
            VirtualAbMsg' = msg /\ SnapshotMergeState' = Published(msg)
      BY <2>1 DEF Restart
    <3>3. QED
      BY <3>1, <3>2, MessageReadType DEF Published, Busy, States
  <2>2. CASE ~build.vab
    BY <2>2 DEF Restart, Msgs, States
  <2>3. QED
    BY <2>1, <2>2
<1>3. IsAllowUnlock' \in BOOLEAN
  BY DeviceTypes DEF Restart
<1>4. DeviceTypeOK'
  BY <1>1, <1>2, <1>3, DeviceTypes, DeviceTypeNext DEF Restart
<1>5. QED
  BY <1>4 DEF Restart

-----------------------------------------------------------------------------
(***************************************************************************)
(* The loop's steps keep the invariant                                     *)
(***************************************************************************)
MenuTypes ==
  /\ pc \in {"idle", "draw", "typed", "numbered", "init"}
  /\ request \in UnlockTypes \union {"NULL"}
  /\ fastbootInfo \in MenuSet /\ unlockInfo \in MenuSet
  /\ CallbackKeyDetection \in {"none", "fastboot", "unlock"}
  /\ LastKey \in {"NULL", "UP", "DOWN", "POWER"} /\ IsRefresh \in BOOLEAN
  /\ armed \in BOOLEAN
  /\ shown \in {"none", "unlock", "lock"} /\ pressed \in {"none", "unlock", "lock"}

LEMMA TypeSplit == TypeOK <=> DeviceTypeOK /\ MenuTypes
BY DEF TypeOK, MenuTypes, MenuSet

LEMMA TypeSplitNext == TypeOK' <=> DeviceTypeOK' /\ MenuTypes'
BY DEF TypeOK, MenuTypes, MenuSet

LEMMA DeviceSame == DeviceTypeOK /\ UNCHANGED device => DeviceTypeOK'
BY DEF DeviceTypeOK, device

LEMMA ZeroedType ==
  /\ Zeroed \in MenuSet /\ Zeroed.MenuType = "YELLOW"
  /\ Zeroed.OptionNum = 0 /\ Zeroed.OptionIndex = 0
BY DEF Zeroed, MenuSet

LEMMA MenuInit == Init => MenuInv
<1> SUFFICES ASSUME Init PROVE MenuInv
  OBVIOUS
<1>1. DeviceTypeOK
  <2>1. misc \in MiscSet
    BY DEF Init, DeviceInit, MiscSet, Merges
  <2>2. DevInfo \in InfoSet
    BY DEF Init, DeviceInit, InfoSet
  <2>3. QED
    BY <2>1, <2>2 DEF Init, DeviceInit, DeviceTypeOK, MiscSet, InfoSet, NoMsg
<1>2. MenuTypes
  BY ZeroedType DEF Init, MenuTypes
<1>3. FastbootShape /\ UnlockShape
  BY ZeroedType DEF Init, FastbootShape, UnlockShape
<1>4. Drawing /\ Asked /\ Turns /\ Shows
  BY ZeroedType DEF Init, DeviceInit, Drawing, Asked, Turns, Shows, Confirms,
                    UnlockTypes
<1>5. QED
  BY <1>1, <1>2, <1>3, <1>4, TypeSplit DEF MenuInv

LEMMA AskUserKeeps ==
  ASSUME MenuInv, NEW f, NEW s, AskUser(f, s)
  PROVE  MenuInv'
<1>1. DeviceTypeOK' /\ MenuTypes
  BY TypeSplit, DeviceSame DEF MenuInv, AskUser
<1>2. /\ request' \in UnlockTypes /\ FieldOf(request') = f /\ StateOf(request') = s
      /\ pc' = "draw" /\ unlockInfo' = Zeroed
      /\ UNCHANGED <<device, fastbootInfo, CallbackKeyDetection, LastKey,
                     IsRefresh, armed, pressed>>
      /\ shown' = "none" /\ DevInfo[f] # s /\ UnlockByMenu
  BY DEF AskUser, Clear, UnlockRefused
<1>3. MenuTypes'
  BY <1>1, <1>2, ZeroedType DEF MenuTypes
<1>4. FastbootShape' /\ UnlockShape'
  BY <1>2, ZeroedType DEF MenuInv, FastbootShape, UnlockShape
<1>5. Drawing'
  BY <1>2, ZeroedType DEF Drawing, UnlockTypes, UnlockByMenu, device
<1>6. Asked'
  <2>1. unlockInfo'.MenuType \notin UnlockTypes
    BY <1>2, ZeroedType DEF UnlockTypes
  <2>2. DevInfo' = DevInfo
    BY <1>2 DEF device
  <2>3. QED
    BY <1>2, <2>1, <2>2 DEF Asked
<1>7. Turns' /\ Shows'
  BY <1>2 DEF Turns, Shows, Confirms
<1>8. QED
  BY <1>1, <1>3, <1>4, <1>5, <1>6, <1>7, TypeSplitNext DEF MenuInv

\* The three assignments.
LEMMA SetMenuTypeKeeps == MenuInv /\ SetMenuType => MenuInv'
<1> SUFFICES ASSUME MenuInv, SetMenuType PROVE MenuInv'
  OBVIOUS
<1>1. DeviceTypeOK' /\ MenuTypes
  BY TypeSplit, DeviceSame DEF MenuInv, SetMenuType
<1>2. /\ pc = "draw" /\ pc' = "typed" /\ armed' = TRUE /\ request \in UnlockTypes
      /\ unlockInfo' = [unlockInfo EXCEPT !.MenuType = request]
      /\ UNCHANGED <<device, request, fastbootInfo, CallbackKeyDetection, LastKey,
                     IsRefresh, shown, pressed>>
  BY DEF SetMenuType, MenuInv, Drawing
<1>3. /\ unlockInfo.OptionNum = 0 /\ unlockInfo.OptionIndex = 0
      /\ unlockInfo \in MenuSet
  BY <1>1, <1>2 DEF MenuInv, UnlockShape, MenuTypes
<1>4. /\ unlockInfo'.MenuType = request /\ unlockInfo' \in MenuSet
      /\ unlockInfo'.OptionNum = 0 /\ unlockInfo'.OptionIndex = 0
  BY <1>2, <1>3 DEF MenuSet
<1>5. MenuTypes'
  BY <1>1, <1>2, <1>4 DEF MenuTypes
<1>6. FastbootShape' /\ UnlockShape'
  BY <1>2, <1>4 DEF MenuInv, FastbootShape, UnlockShape
<1>7. Drawing' /\ Asked'
  BY <1>2, <1>4 DEF MenuInv, Drawing, Asked, UnlockByMenu, device
<1>8. Turns' /\ Shows'
  BY <1>2, <1>4 DEF Turns, Shows, Confirms
<1>9. QED
  BY <1>1, <1>5, <1>6, <1>7, <1>8, TypeSplitNext DEF MenuInv

LEMMA SetOptionNumKeeps == MenuInv /\ SetOptionNum => MenuInv'
<1> SUFFICES ASSUME MenuInv, SetOptionNum PROVE MenuInv'
  OBVIOUS
<1>1. DeviceTypeOK' /\ MenuTypes
  BY TypeSplit, DeviceSame DEF MenuInv, SetOptionNum
<1>2. /\ pc = "typed" /\ pc' = "numbered" /\ armed' = TRUE
      /\ unlockInfo' = [unlockInfo EXCEPT !.OptionNum = 2]
      /\ UNCHANGED <<device, request, fastbootInfo, CallbackKeyDetection, LastKey,
                     IsRefresh, shown, pressed>>
  BY DEF SetOptionNum, ConfirmOptions
<1>3. /\ unlockInfo.MenuType = request /\ request \in UnlockTypes
      /\ unlockInfo.OptionIndex \in -1..1 /\ unlockInfo \in MenuSet
      /\ unlockInfo.OptionIndex = 1 => LastKey # "POWER"
  BY <1>1, <1>2 DEF MenuInv, UnlockShape, MenuTypes, Drawing, Turns
<1>4. /\ unlockInfo'.MenuType = request /\ unlockInfo' \in MenuSet
      /\ unlockInfo'.OptionNum = 2
      /\ unlockInfo'.OptionIndex = unlockInfo.OptionIndex
  BY <1>2, <1>3 DEF MenuSet
<1>5. MenuTypes'
  BY <1>1, <1>2, <1>4 DEF MenuTypes
<1>6. FastbootShape' /\ UnlockShape'
  BY <1>2, <1>3, <1>4 DEF MenuInv, FastbootShape, UnlockShape
<1>7. Drawing' /\ Asked'
  BY <1>2, <1>3, <1>4 DEF MenuInv, Drawing, Asked, UnlockByMenu, device
<1>8. Turns' /\ Shows'
  BY <1>2, <1>3, <1>4 DEF Turns, Shows, Confirms
<1>9. QED
  BY <1>1, <1>5, <1>6, <1>7, <1>8, TypeSplitNext DEF MenuInv

LEMMA SetOptionIndexKeeps == MenuInv /\ SetOptionIndex => MenuInv'
<1> SUFFICES ASSUME MenuInv, SetOptionIndex PROVE MenuInv'
  OBVIOUS
<1>1. DeviceTypeOK' /\ MenuTypes
  BY TypeSplit, DeviceSame DEF MenuInv, SetOptionIndex
<1>2. /\ pc = "numbered" /\ pc' = "init" /\ armed' = TRUE
      /\ unlockInfo' = [unlockInfo EXCEPT !.OptionIndex = 2]
      /\ UNCHANGED <<device, request, fastbootInfo, CallbackKeyDetection, LastKey,
                     IsRefresh, shown, pressed>>
  BY DEF SetOptionIndex, NoOption, ConfirmOptions
<1>3. /\ unlockInfo.MenuType = request /\ request \in UnlockTypes
      /\ unlockInfo.OptionNum = 2 /\ unlockInfo \in MenuSet
  BY <1>1, <1>2 DEF MenuInv, UnlockShape, MenuTypes, Drawing
<1>4. /\ unlockInfo'.MenuType = request /\ unlockInfo' \in MenuSet
      /\ unlockInfo'.OptionNum = 2 /\ unlockInfo'.OptionIndex = 2
  BY <1>2, <1>3 DEF MenuSet
<1>5. MenuTypes'
  BY <1>1, <1>2, <1>4 DEF MenuTypes
<1>6. FastbootShape' /\ UnlockShape'
  BY <1>2, <1>3, <1>4 DEF MenuInv, FastbootShape, UnlockShape
<1>7. Drawing' /\ Asked'
  BY <1>2, <1>3, <1>4 DEF MenuInv, Drawing, Asked, UnlockByMenu, device
<1>8. Turns' /\ Shows'
  BY <1>2, <1>3, <1>4 DEF Turns, Shows, Confirms
<1>9. QED
  BY <1>1, <1>5, <1>6, <1>7, <1>8, TypeSplitNext DEF MenuInv

LEMMA DrawFailsKeeps == MenuInv /\ DrawFails => MenuInv'
<1> SUFFICES ASSUME MenuInv, DrawFails PROVE MenuInv'
  OBVIOUS
<1>1. DeviceTypeOK /\ MenuTypes
  BY TypeSplit DEF MenuInv
<1>2. DeviceTypeOK'
  BY <1>1, DeviceTypes, DeviceTypeNext DEF DrawFails
<1>3. /\ pc = "draw" /\ pc' = "idle" /\ request' = "NULL" /\ armed' = TRUE
      /\ UNCHANGED <<build, on, DevInfo, fastbootInfo, unlockInfo,
                     CallbackKeyDetection, LastKey, IsRefresh, shown, pressed>>
  BY DEF DrawFails
<1>4. MenuTypes'
  BY <1>1, <1>3 DEF MenuTypes
<1>5. FastbootShape' /\ UnlockShape'
  BY <1>3 DEF MenuInv, FastbootShape, UnlockShape
<1>6. unlockInfo.MenuType = "YELLOW"
  BY <1>3 DEF MenuInv, UnlockShape
<1>7. Drawing' /\ Asked' /\ Turns' /\ Shows'
  BY <1>3, <1>6 DEF Drawing, Asked, Turns, Shows, Confirms, UnlockTypes
<1>8. QED
  BY <1>2, <1>4, <1>5, <1>7, TypeSplitNext DEF MenuInv

LEMMA StartDetectionKeeps == MenuInv /\ StartDetection => MenuInv'
<1> SUFFICES ASSUME MenuInv, StartDetection PROVE MenuInv'
  OBVIOUS
<1>1. DeviceTypeOK /\ MenuTypes
  BY TypeSplit DEF MenuInv
<1>2. DeviceTypeOK'
  BY <1>1, DeviceTypes, DeviceTypeNext DEF StartDetection
<1>3. /\ pc = "init" /\ pc' = "idle" /\ request' = "NULL" /\ armed' = TRUE
      /\ CallbackKeyDetection' \in {"none", "unlock"}
      /\ UNCHANGED <<build, on, DevInfo, fastbootInfo, unlockInfo, LastKey,
                     IsRefresh, shown, pressed>>
  BY DEF StartDetection
<1>4. MenuTypes'
  BY <1>1, <1>3 DEF MenuTypes
<1>5. FastbootShape' /\ UnlockShape'
  BY <1>3 DEF MenuInv, FastbootShape, UnlockShape
<1>6. Drawing' /\ Asked'
  BY <1>3 DEF MenuInv, Drawing, Asked, UnlockTypes, UnlockByMenu
<1>7. Turns' /\ Shows'
  BY <1>3 DEF MenuInv, Turns, Shows, Confirms
<1>8. QED
  BY <1>2, <1>4, <1>5, <1>6, <1>7, TypeSplitNext DEF MenuInv

\* A step of the loop that leaves the menus alone, keeps the build, and keeps
\* the locks or belongs to a build without the menu.
LEMMA MenuUntouched ==
  ASSUME MenuInv, DeviceTypeOK', build' = build, on = "loader",
         LocksSame \/ ~UnlockByMenu,
         \/ UNCHANGED <<CallbackKeyDetection, shown>>
         \/ CallbackKeyDetection' = "none" /\ shown' = "none",
         pc = "idle",
         UNCHANGED <<pc, request, fastbootInfo, unlockInfo, LastKey, IsRefresh,
                     armed, pressed>>
  PROVE  MenuInv'
<1>1. MenuTypes
  BY TypeSplit DEF MenuInv
<1>2. MenuTypes'
  BY <1>1 DEF MenuTypes
<1>3. FastbootShape' /\ UnlockShape'
  BY DEF MenuInv, FastbootShape, UnlockShape
<1>4. Drawing'
  BY DEF MenuInv, Drawing, UnlockByMenu
<1>5. Asked'
  BY DEF MenuInv, Drawing, Asked, FieldOf, LocksSame
<1>6. Turns' /\ Shows'
  BY DEF MenuInv, Turns, Shows, Confirms
<1>7. QED
  BY <1>2, <1>3, <1>4, <1>5, <1>6, TypeSplitNext DEF MenuInv

LEMMA CommandKeeps == MenuInv /\ Command => MenuInv'
<1> SUFFICES ASSUME MenuInv, Command PROVE MenuInv'
  OBVIOUS
<1>1. DeviceTypeOK
  BY TypeSplit DEF MenuInv
<1>2. /\ pc = "idle"
      /\ UNCHANGED <<pc, request, fastbootInfo, unlockInfo, LastKey, IsRefresh,
                     armed, pressed>>
  BY DEF Command
<1>3. on = "loader"
  BY DEF Command, HostCommand, RefuseUnlock, SetDeviceUnlock, CmdFlash, CmdErase,
         CmdFlashMeta, CmdFlashKey, CancelSnapshot, MergeSnapshot, RebootTo,
         CmdReboot, CmdContinue
<1>4. \/ HostCommand /\ UNCHANGED <<CallbackKeyDetection, shown>>
      \/ CmdReboot /\ UNCHANGED <<CallbackKeyDetection, shown>>
      \/ CmdContinue /\ CallbackKeyDetection' = "none" /\ shown' = "none"
  BY DEF Command
<1>5. CASE HostCommand /\ UNCHANGED <<CallbackKeyDetection, shown>>
  BY <1>1, <1>2, <1>3, <1>5, HostCommandStep, MenuUntouched
<1>6. CASE CmdReboot /\ UNCHANGED <<CallbackKeyDetection, shown>>
  BY <1>1, <1>2, <1>3, <1>6, CmdRebootStep, MenuUntouched DEF HostStep
<1>7. CASE CmdContinue /\ CallbackKeyDetection' = "none" /\ shown' = "none"
  BY <1>1, <1>2, <1>3, <1>7, CmdContinueStep, MenuUntouched DEF HostStep
<1>8. QED
  BY <1>4, <1>5, <1>6, <1>7

LEMMA StartKeeps ==
  ASSUME MenuInv, NEW verity \in BOOLEAN, Start(verity)
  PROVE  MenuInv'
<1>1. DeviceTypeOK' /\ MenuTypes
  BY TypeSplit, RestartStep DEF MenuInv, Start
<1>2. /\ pc' = "idle" /\ request' = "NULL" /\ LastKey' = "NULL"
      /\ IsRefresh' = FALSE /\ armed' = TRUE /\ shown' = "none"
      /\ pressed' = "none" /\ unlockInfo' = Zeroed
      /\ \/ fastbootInfo' = DrawnFastboot /\ CallbackKeyDetection' = "fastboot"
         \/ fastbootInfo' = Zeroed /\ CallbackKeyDetection' = "none"
  BY DEF Start
<1>3. /\ DrawnFastboot \in MenuSet /\ DrawnFastboot.MenuType = "FASTBOOT"
      /\ DrawnFastboot.OptionNum = 6 /\ DrawnFastboot.OptionIndex = 0
  <2>1. Len(FastbootOptions) = 6
    BY DEF FastbootOptions
  <2>2. DrawnFastboot =
          [Zeroed EXCEPT !.MenuType = "FASTBOOT", !.OptionNum = 6]
    BY <2>1 DEF DrawnFastboot
  <2>3. QED
    BY <2>2, ZeroedType DEF MenuSet
<1>4. MenuTypes'
  BY <1>2, <1>3, ZeroedType DEF MenuTypes
<1>5. FastbootShape' /\ UnlockShape'
  BY <1>2, <1>3, ZeroedType DEF FastbootShape, UnlockShape
<1>6. Drawing' /\ Asked' /\ Turns' /\ Shows'
  BY <1>2, ZeroedType DEF Drawing, Asked, Turns, Shows, Confirms, UnlockTypes
<1>7. QED
  BY <1>1, <1>4, <1>5, <1>6, TypeSplitNext DEF MenuInv

LEMMA LinuxKeeps == MenuInv /\ Linux => MenuInv'
<1> SUFFICES ASSUME MenuInv, Linux PROVE MenuInv'
  OBVIOUS
<1>1. DeviceTypeOK' /\ build' = build /\ on' = "off"
  BY TypeSplit, LinuxStep DEF MenuInv, Linux, LinuxRestarts
<1>2. UNCHANGED menus
  BY DEF Linux
<1>3. MenuTypes'
  BY <1>2, TypeSplit DEF MenuInv, MenuTypes, menus
<1>4. FastbootShape' /\ UnlockShape' /\ Drawing' /\ Asked'
  BY <1>1, <1>2 DEF MenuInv, FastbootShape, UnlockShape, Drawing, Asked, menus,
                    UnlockByMenu
<1>5. Turns' /\ Shows'
  BY <1>2 DEF MenuInv, Turns, Shows, Confirms, menus
<1>6. QED
  BY <1>1, <1>3, <1>4, <1>5, TypeSplitNext DEF MenuInv

-----------------------------------------------------------------------------
(***************************************************************************)
(* The key timer's steps keep it                                           *)
(***************************************************************************)
\* The timer asks for nothing and draws nothing.
LEMMA CallbackKeeps ==
  ASSUME MenuInv, Callback, DeviceTypeOK', build' = build,
         on' = "off" \/ LocksSame, UNCHANGED <<pc, request>>,
         unlockInfo'.MenuType = unlockInfo.MenuType,
         MenuTypes', FastbootShape', UnlockShape', Turns', Shows'
  PROVE  MenuInv'
<1>1. Drawing'
  BY DEF MenuInv, Drawing, UnlockByMenu
<1>2. Asked'
  BY DEF MenuInv, Asked, FieldOf, LocksSame, Callback
<1>3. QED
  BY <1>1, <1>2, TypeSplitNext DEF MenuInv

\* What the callback may find: between two assignments, nothing is selected
\* by a power key.
LEMMA CallbackFinds ==
  ASSUME MenuInv, Callback
  PROVE  /\ on = "loader" /\ armed /\ CallbackKeyDetection \in {"fastboot", "unlock"}
         /\ armed' \in BOOLEAN
         /\ pc \in {"typed", "numbered", "init"} => ~armed'
         /\ pc = "typed" => unlockInfo.OptionIndex = 0
         /\ pc = "numbered" /\ unlockInfo.OptionIndex = 1 => LastKey # "POWER"
         /\ pc = "init" => unlockInfo.OptionIndex # 1
<1>1. MenuTypes /\ Turns
  BY TypeSplit DEF MenuInv
<1>2. /\ on = "loader" /\ armed /\ CallbackKeyDetection \in {"fastboot", "unlock"}
      /\ armed' \in BOOLEAN
      /\ pc \in {"typed", "numbered", "init"} => ~armed'
  <2>1. armed' = (pc \in {"idle", "draw"})
    BY DEF Callback
  <2>2. on = "loader" /\ armed /\ CallbackKeyDetection # "none"
    BY DEF Callback
  <2>3. armed' \in BOOLEAN
    BY <2>1
  <2>4. ASSUME pc \in {"typed", "numbered", "init"} PROVE ~armed'
    <3>1. pc \notin {"idle", "draw"}
      BY <2>4
    <3>2. QED
      BY <2>1, <3>1
  <2>5. QED
    BY <1>1, <2>2, <2>3, <2>4 DEF MenuTypes
<1>3. QED
  BY <1>1, <1>2 DEF Turns

LEMMA KeySeenKeeps ==
  ASSUME MenuInv, NEW k \in {"UP", "DOWN", "POWER"}, KeySeen(k)
  PROVE  MenuInv'
<1>1. Callback
  BY DEF KeySeen
<1>2. DeviceTypeOK' /\ build' = build /\ LocksSame /\ MenuTypes
  BY TypeSplit, DeviceSame DEF KeySeen, MenuInv, device, LocksSame
<1>3. /\ LastKey' = k
      /\ pressed' = IF k = "POWER" THEN shown ELSE "none"
      /\ UNCHANGED <<device, pc, request, fastbootInfo, unlockInfo,
                     CallbackKeyDetection, IsRefresh, shown>>
  BY DEF KeySeen
<1>4. MenuTypes'
  BY <1>1, <1>2, <1>3, CallbackFinds DEF MenuTypes
<1>5. FastbootShape' /\ UnlockShape'
  BY <1>3 DEF MenuInv, FastbootShape, UnlockShape
<1>6. Turns'
  BY <1>1, <1>3, CallbackFinds DEF Turns
<1>7. Shows'
  BY <1>3 DEF MenuInv, Shows, Confirms
<1>8. QED
  BY <1>1, <1>2, <1>3, <1>4, <1>5, <1>6, <1>7, CallbackKeeps

\* The step of a key that changes no menu and no lock of a running loader.
LEMMA KeyOnNothing ==
  ASSUME MenuInv, Callback, DeviceTypeOK', build' = build,
         on' = "off" \/ LocksSame,
         UNCHANGED <<pc, request, fastbootInfo, unlockInfo, pressed>>,
         LastKey' \in {LastKey, "NULL"}, IsRefresh' \in BOOLEAN,
         \/ UNCHANGED <<CallbackKeyDetection, shown>>
         \/ CallbackKeyDetection' = "none" /\ shown' \in {shown, "none"}
  PROVE  MenuInv'
<1>1. MenuTypes
  BY TypeSplit DEF MenuInv
<1>2. MenuTypes'
  BY <1>1, CallbackFinds DEF MenuTypes
<1>3. FastbootShape' /\ UnlockShape'
  BY DEF MenuInv, FastbootShape, UnlockShape
<1>4. Turns'
  BY CallbackFinds DEF Turns
<1>5. Shows'
  BY DEF MenuInv, Shows, Confirms
<1>6. QED
  BY <1>2, <1>3, <1>4, <1>5, CallbackKeeps

\* MenuVolumeUpFunc and MenuVolumeDownFunc stay inside a drawn menu.
LEMMA NextIndexInside ==
  ASSUME MenuInv, Callback, Info.MenuType # "YELLOW", NEW key
  PROVE  /\ CallbackKeyDetection = "fastboot" => NextIndex(key) \in 0..5
         /\ CallbackKeyDetection = "unlock" =>
              IF pc = "typed" THEN NextIndex(key) \in -1..1
              ELSE NextIndex(key) \in 0..1
<1>1. CASE CallbackKeyDetection = "fastboot"
  <2>1. /\ Info = fastbootInfo
        /\ fastbootInfo.OptionNum = 6 /\ fastbootInfo.OptionIndex \in 0..5
    BY <1>1 DEF Info, MenuInv, FastbootShape
  <2>2. QED
    BY <1>1, <2>1 DEF NextIndex
<1>2. CASE CallbackKeyDetection = "unlock"
  <2>1. Info = unlockInfo
    BY <1>2 DEF Info
  <2>2. CASE pc = "typed"
    <3>1. unlockInfo.OptionNum = 0 /\ unlockInfo.OptionIndex = 0
      BY <2>2, CallbackFinds DEF MenuInv, UnlockShape
    <3>2. QED
      BY <1>2, <2>1, <2>2, <3>1 DEF NextIndex
  <2>3. CASE pc # "typed"
    <3>1. unlockInfo.OptionNum = 2 /\ unlockInfo.OptionIndex \in -1..2
      BY <2>1, <2>3 DEF MenuInv, UnlockShape
    <3>2. QED
      BY <1>2, <2>1, <2>3, <3>1 DEF NextIndex
  <2>4. QED
    BY <2>2, <2>3
<1>3. QED
  BY <1>1, <1>2

LEMMA VolumeKeyKeeps == MenuInv /\ VolumeKey => MenuInv'
<1> SUFFICES ASSUME MenuInv, VolumeKey PROVE MenuInv'
  OBVIOUS
<1>1. /\ Callback /\ LastKey \in {"UP", "DOWN"} /\ LastKey' \in {LastKey, "NULL"}
      /\ UNCHANGED <<device, pc, request, CallbackKeyDetection, IsRefresh, pressed>>
  BY DEF VolumeKey, Released
<1>2. DeviceTypeOK' /\ build' = build /\ LocksSame /\ MenuTypes
  BY <1>1, TypeSplit, DeviceSame DEF MenuInv, device, LocksSame
<1>3. CASE Info.MenuType = "YELLOW"
  <2>1. UNCHANGED <<fastbootInfo, unlockInfo, shown>>
    BY <1>3 DEF VolumeKey
  <2>2. IsRefresh' \in BOOLEAN
    BY <1>1, <1>2 DEF MenuTypes
  <2>3. QED
    BY <1>1, <1>2, <2>1, <2>2, KeyOnNothing
<1>4. CASE Info.MenuType # "YELLOW"
  <2> DEFINE n == NextIndex(LastKey)
  <2>1. /\ Update([Info EXCEPT !.OptionIndex = n])
        /\ shown' = IF /\ CallbackKeyDetection = "unlock" /\ pc \in {"init", "idle"}
                       /\ n = 1
                    THEN Asks(StateOf(Info.MenuType)) ELSE "none"
    BY <1>4 DEF VolumeKey
  <2>2. shown' \in {"none", "unlock", "lock"}
    BY <2>1 DEF Asks
  <2>3. /\ CallbackKeyDetection = "fastboot" => n \in 0..5
        /\ CallbackKeyDetection = "unlock" =>
             IF pc = "typed" THEN n \in -1..1 ELSE n \in 0..1
    BY <1>1, <1>4, NextIndexInside
  <2> HIDE DEF n
  <2>4. CASE CallbackKeyDetection = "fastboot"
    <3>1. /\ fastbootInfo' = [fastbootInfo EXCEPT !.OptionIndex = n]
          /\ unlockInfo' = unlockInfo /\ fastbootInfo \in MenuSet
          /\ fastbootInfo.MenuType = "FASTBOOT" /\ fastbootInfo.OptionNum = 6
      BY <1>2, <1>4, <2>1, <2>4
         DEF Update, Info, MenuTypes, MenuInv, FastbootShape
    <3>2. /\ fastbootInfo' \in MenuSet /\ fastbootInfo'.OptionIndex = n
          /\ fastbootInfo'.MenuType = "FASTBOOT" /\ fastbootInfo'.OptionNum = 6
      BY <2>3, <2>4, <3>1 DEF MenuSet
    <3>3. MenuTypes'
      BY <1>1, <1>2, <2>2, <3>1, <3>2, CallbackFinds DEF MenuTypes
    <3>4. FastbootShape' /\ UnlockShape'
      BY <1>1, <2>3, <2>4, <3>1, <3>2 DEF MenuInv, FastbootShape, UnlockShape
    <3>5. Turns' /\ Shows'
      BY <1>1, <2>4, <3>1, CallbackFinds DEF Turns, Shows, Confirms
    <3>6. QED
      BY <1>1, <1>2, <3>1, <3>3, <3>4, <3>5, CallbackKeeps
  <2>5. CASE CallbackKeyDetection = "unlock"
    <3>1. /\ unlockInfo' = [unlockInfo EXCEPT !.OptionIndex = n]
          /\ fastbootInfo' = fastbootInfo /\ unlockInfo \in MenuSet
          /\ Info = unlockInfo /\ unlockInfo.MenuType \in UnlockTypes
      BY <1>2, <1>4, <2>1, <2>5 DEF Update, Info, MenuTypes, MenuInv, UnlockShape
    <3>2. n \in -1..1
      BY <2>3, <2>5
    <3>3. /\ unlockInfo' \in MenuSet /\ unlockInfo'.OptionIndex = n
          /\ unlockInfo'.MenuType = unlockInfo.MenuType
          /\ unlockInfo'.OptionNum = unlockInfo.OptionNum
      BY <3>1, <3>2 DEF MenuSet
    <3>4. MenuTypes'
      BY <1>1, <1>2, <2>2, <3>1, <3>3, CallbackFinds DEF MenuTypes
    <3>5. FastbootShape' /\ UnlockShape'
      <4>1. FastbootShape'
        BY <3>1 DEF MenuInv, FastbootShape
      <4>2. UnlockShape'
        BY <1>1, <3>1, <3>2, <3>3 DEF MenuInv, UnlockShape, UnlockTypes
      <4>3. QED
        BY <4>1, <4>2
    <3>6. Turns'
      BY <1>1, <2>5, <3>3, CallbackFinds DEF Turns
    <3>7. Shows'
      BY <1>1, <2>1, <2>5, <3>1, <3>3 DEF Shows, Confirms
    <3>8. QED
      BY <1>1, <1>2, <3>3, <3>4, <3>5, <3>6, <3>7, CallbackKeeps
  <2>6. QED
    BY <1>1, <2>4, <2>5, CallbackFinds
<1>5. QED
  BY <1>3, <1>4

LEMMA PowerOnZeroedKeeps == MenuInv /\ PowerOnZeroed => MenuInv'
<1> SUFFICES ASSUME MenuInv, PowerOnZeroed PROVE MenuInv'
  OBVIOUS
<1>1. /\ Callback /\ LastKey' \in {LastKey, "NULL"} /\ Info.MenuType = "YELLOW"
      /\ UNCHANGED <<device, pc, request, shown, pressed>>
  BY DEF PowerOnZeroed, PowerDown, Released
<1>2. DeviceTypeOK' /\ build' = build /\ LocksSame /\ MenuTypes
  BY <1>1, TypeSplit, DeviceSame DEF MenuInv, device, LocksSame
<1>3. CASE IsRefresh
  <2>1. CallbackKeyDetection' = "none"
        /\ UNCHANGED <<IsRefresh, fastbootInfo, unlockInfo>>
    BY <1>3 DEF PowerOnZeroed
  <2>2. IsRefresh' \in BOOLEAN
    BY <1>2, <2>1 DEF MenuTypes
  <2>3. QED
    BY <1>1, <1>2, <2>1, <2>2, KeyOnNothing
<1>4. CASE ~IsRefresh
  <2>1. IsRefresh' = TRUE /\ UNCHANGED CallbackKeyDetection
    BY <1>4 DEF PowerOnZeroed
  <2>2. PICK info \in Refreshed : Update(info)
    BY <1>4 DEF PowerOnZeroed
  <2>3. Info \in MenuSet
    BY <1>2 DEF Info, MenuTypes
  <2>4. /\ info \in MenuSet /\ info.MenuType = Info.MenuType
        /\ info.OptionNum = Info.OptionNum /\ info.OptionIndex = Info.OptionIndex
    BY <2>3 DEF Refreshed, MenuSet
  <2>5. /\ unlockInfo' \in MenuSet /\ fastbootInfo' \in MenuSet
        /\ unlockInfo'.MenuType = unlockInfo.MenuType
        /\ unlockInfo'.OptionNum = unlockInfo.OptionNum
        /\ unlockInfo'.OptionIndex = unlockInfo.OptionIndex
        /\ fastbootInfo'.MenuType = fastbootInfo.MenuType
        /\ fastbootInfo'.OptionNum = fastbootInfo.OptionNum
        /\ fastbootInfo'.OptionIndex = fastbootInfo.OptionIndex
    BY <1>2, <2>2, <2>4 DEF Update, Info, MenuTypes
  <2>6. MenuTypes'
    BY <1>1, <1>2, <2>1, <2>5, CallbackFinds DEF MenuTypes
  <2>7. FastbootShape' /\ UnlockShape'
    BY <1>1, <2>5 DEF MenuInv, FastbootShape, UnlockShape
  <2>8. Turns'
    BY <1>1, <2>5, CallbackFinds DEF Turns
  <2>9. Shows'
    BY <1>1, <2>1, <2>5 DEF MenuInv, Shows, Confirms
  <2>10. QED
    BY <1>1, <1>2, <2>5, <2>6, <2>7, <2>8, <2>9, CallbackKeeps
<1>5. QED
  BY <1>3, <1>4

\* A reset leaves the types alone when what it wrote has them.
LEMMA LeaveStep ==
  ASSUME DeviceTypeOK, NEW m \in MiscSet, NEW info \in InfoSet, Leave(m, info)
  PROVE  DeviceTypeOK' /\ build' = build /\ on' = "off"
<1>1. DeviceTypeOK'
  BY DeviceTypes, DeviceTypeNext DEF Leave
<1>2. QED
  BY <1>1 DEF Leave

\* The ways UpdateDeviceStatus may end.
LEMMA PowerOnOptionEnds ==
  ASSUME DeviceTypeOK, PowerOnOption
  PROVE  \/ Leave(misc, DevInfo)
         \/ Leave([misc EXCEPT !.command = "ffbm"], DevInfo)
         \/ /\ Options[Info.OptionIndex + 1] = "RECOVER"
            /\ Info.MenuType \in UnlockTypes
            /\ \E r \in UnlockOutcomes(FieldOf(Info.MenuType),
                                       StateOf(Info.MenuType)) :
                 Leave(r.misc, r.info)
BY DEF PowerOnOption

LEMMA PowerOnOptionDevice ==
  ASSUME DeviceTypeOK, PowerOnOption
  PROVE  DeviceTypeOK' /\ build' = build /\ on' = "off" /\ RequestKept
<1>1. misc \in MiscSet /\ DevInfo \in InfoSet
  BY DeviceTypes
<1>2. /\ [misc EXCEPT !.command = "ffbm"] \in MiscSet
      /\ [misc EXCEPT !.command = "ffbm"].recovery = misc.recovery
  BY WithCommandType
<1>3. ASSUME NEW m \in MiscSet, NEW info \in InfoSet, Leave(m, info),
             m.recovery \in {misc.recovery, "wipe_data"}
      PROVE  DeviceTypeOK' /\ build' = build /\ on' = "off" /\ RequestKept
  BY <1>3, LeaveStep DEF RequestKept, Leave
<1>4. ASSUME Info.MenuType \in UnlockTypes,
             NEW r \in UnlockOutcomes(FieldOf(Info.MenuType),
                                     StateOf(Info.MenuType)),
             Leave(r.misc, r.info)
      PROVE  DeviceTypeOK' /\ build' = build /\ on' = "off" /\ RequestKept
  BY <1>3, <1>4, UnlockOutcomesType
<1>5. QED
  BY <1>1, <1>2, <1>3, <1>4, PowerOnOptionEnds

LEMMA PowerOnOptionKeeps == MenuInv /\ PowerOnOption => MenuInv'
<1> SUFFICES ASSUME MenuInv, PowerOnOption PROVE MenuInv'
  OBVIOUS
<1>1. /\ Callback /\ LastKey' \in {LastKey, "NULL"}
      /\ UNCHANGED <<pc, request, shown, pressed, fastbootInfo, unlockInfo,
                     CallbackKeyDetection, IsRefresh>>
  BY DEF PowerOnOption, PowerDown, Released
<1>2. DeviceTypeOK' /\ build' = build /\ on' = "off" /\ MenuTypes
  BY TypeSplit, PowerOnOptionDevice DEF MenuInv
<1>3. IsRefresh' \in BOOLEAN
  BY <1>1, <1>2 DEF MenuTypes
<1>4. QED
  BY <1>1, <1>2, <1>3, KeyOnNothing

LEMMA PowerOnNothingKeeps == MenuInv /\ PowerOnNothing => MenuInv'
<1> SUFFICES ASSUME MenuInv, PowerOnNothing PROVE MenuInv'
  OBVIOUS
<1>1. /\ Callback /\ LastKey' \in {LastKey, "NULL"}
      /\ UNCHANGED <<device, pc, request, shown, pressed, fastbootInfo, unlockInfo,
                     CallbackKeyDetection, IsRefresh>>
  BY DEF PowerOnNothing, PowerDown, Released
<1>2. DeviceTypeOK' /\ build' = build /\ LocksSame /\ MenuTypes
  BY <1>1, TypeSplit, DeviceSame DEF MenuInv, device, LocksSame
<1>3. IsRefresh' \in BOOLEAN
  BY <1>1, <1>2 DEF MenuTypes
<1>4. QED
  BY <1>1, <1>2, <1>3, KeyOnNothing

LEMMA DetectionEndsDevice ==
  ASSUME DeviceTypeOK, DetectionEnds
  PROVE  DeviceTypeOK' /\ build' = build /\ LocksSame /\ misc' = misc
<1>1. CASE Leave(misc, DevInfo)
  BY <1>1, DeviceTypes, LeaveStep DEF Leave, LocksSame
<1>2. CASE UNCHANGED device
  BY <1>2, DeviceSame DEF device, LocksSame
<1>3. QED
  BY <1>1, <1>2 DEF DetectionEnds

LEMMA DetectionEndsKeeps == MenuInv /\ DetectionEnds => MenuInv'
<1> SUFFICES ASSUME MenuInv, DetectionEnds PROVE MenuInv'
  OBVIOUS
<1>1. /\ Callback /\ LastKey' = LastKey /\ CallbackKeyDetection' = "none"
      /\ shown' = "none"
      /\ UNCHANGED <<pc, request, pressed, fastbootInfo, unlockInfo, IsRefresh>>
  BY DEF DetectionEnds
<1>2. DeviceTypeOK' /\ build' = build /\ LocksSame /\ MenuTypes
  BY TypeSplit, DetectionEndsDevice DEF MenuInv
<1>3. IsRefresh' \in BOOLEAN
  BY <1>1, <1>2 DEF MenuTypes
<1>4. QED
  BY <1>1, <1>2, <1>3, KeyOnNothing

-----------------------------------------------------------------------------
(***************************************************************************)
(* The theorems                                                            *)
(***************************************************************************)
LEMMA MenuStep == MenuInv /\ [Next]_vars => MenuInv'
<1> SUFFICES ASSUME MenuInv, [Next]_vars PROVE MenuInv'
  OBVIOUS
<1>1. ASSUME NEW f \in {"is_unlocked", "is_unlock_critical"}, NEW s \in BOOLEAN,
             AskUser(f, s)
      PROVE  MenuInv'
  BY <1>1, AskUserKeeps
<1>2. ASSUME NEW verity \in IF build.menus THEN {FALSE} ELSE VerityModes,
             Start(verity)
      PROVE  MenuInv'
  BY <1>2, StartKeeps, DeviceAssumption
<1>3. ASSUME NEW k \in {"UP", "DOWN", "POWER"}, KeySeen(k)
      PROVE  MenuInv'
  BY <1>3, KeySeenKeeps
<1>4. CASE UNCHANGED vars
  <2>1. UNCHANGED device /\ UNCHANGED menus
    BY <1>4 DEF vars
  <2>2. DeviceTypeOK' /\ MenuTypes'
    BY <2>1, TypeSplit, DeviceSame DEF MenuInv, MenuTypes, menus
  <2>3. FastbootShape' /\ UnlockShape' /\ Drawing' /\ Asked'
    BY <2>1 DEF MenuInv, FastbootShape, UnlockShape, Drawing, Asked, menus, device,
                UnlockByMenu
  <2>4. Turns' /\ Shows'
    BY <2>1 DEF MenuInv, Turns, Shows, Confirms, menus
  <2>5. QED
    BY <2>2, <2>3, <2>4, TypeSplitNext DEF MenuInv
<1>5. QED
  BY <1>1, <1>2, <1>3, <1>4, DrawFailsKeeps, SetMenuTypeKeeps, SetOptionNumKeeps,
     SetOptionIndexKeeps, StartDetectionKeeps, CommandKeeps, LinuxKeeps,
     VolumeKeyKeeps, PowerOnZeroedKeeps, PowerOnOptionKeeps, PowerOnNothingKeeps,
     DetectionEndsKeeps
     DEF Next

LEMMA MenuInvariant == Spec => []MenuInv
<1>1. Init => MenuInv
  BY MenuInit
<1>2. MenuInv /\ [Next]_vars => MenuInv'
  BY MenuStep
<1>3. QED
  BY <1>1, <1>2, PTL DEF Spec

\* The type invariant; with it, no selection leaves the range of its menu
\* although the callback computes it in UINT32 on a menu that may have no
\* options yet.
THEOREM MenuTypeCorrect == Spec => []TypeOK
<1>1. MenuInv => TypeOK
  BY DEF MenuInv
<1>2. QED
  BY <1>1, MenuInvariant, PTL

\* What a step does to the locks and to misc: nothing to the locks, but for
\* the lock commands of a build without the menu, a confirmed menu, and a
\* restart.
LEMMA StepEffect ==
  ASSUME MenuInv, Next
  PROVE  /\ build' = build
         /\ \/ LocksSame
            \/ ~UnlockByMenu /\ (reply' = "OKAY" => misc'.recovery = "wipe_data")
            \/ PowerOnOption
            \/ on = "off"
         /\ RequestKept \/ on = "linux"
<1>1. DeviceTypeOK
  BY TypeSplit DEF MenuInv
<1>2. ASSUME UNCHANGED device
      PROVE  build' = build /\ LocksSame /\ RequestKept
  BY <1>2 DEF device, LocksSame, RequestKept
<1>3. ASSUME UNCHANGED <<build, DevInfo, misc>>
      PROVE  build' = build /\ LocksSame /\ RequestKept
  BY <1>3 DEF LocksSame, RequestKept
<1>4. ASSUME NEW f, NEW s, AskUser(f, s)
      PROVE  UNCHANGED device
  BY <1>4 DEF AskUser
<1>5. CASE DrawFails \/ StartDetection
  BY <1>3, <1>5 DEF DrawFails, StartDetection
<1>6. CASE SetMenuType \/ SetOptionNum \/ SetOptionIndex
  BY <1>2, <1>6 DEF SetMenuType, SetOptionNum, SetOptionIndex
<1>7. CASE Command
  BY <1>1, <1>7, HostCommandStep, CmdRebootStep, CmdContinueStep
     DEF Command, HostStep
<1>8. ASSUME NEW verity \in BOOLEAN, Start(verity)
      PROVE  build' = build /\ on = "off" /\ RequestKept
  BY <1>1, <1>8, RestartStep DEF Start, RequestKept
<1>9. CASE Linux
  BY <1>1, <1>9, LinuxStep DEF Linux, LinuxRestarts
<1>10. ASSUME NEW k, KeySeen(k)
       PROVE  UNCHANGED device
  BY <1>10 DEF KeySeen
<1>11. CASE VolumeKey \/ PowerOnZeroed \/ PowerOnNothing
  BY <1>2, <1>11 DEF VolumeKey, PowerOnZeroed, PowerOnNothing
<1>12. CASE PowerOnOption
  BY <1>1, <1>12, PowerOnOptionDevice
<1>13. CASE DetectionEnds
  BY <1>1, <1>13, DetectionEndsDevice DEF RequestKept
<1>14. ASSUME NEW verity \in IF build.menus THEN {FALSE} ELSE VerityModes
       PROVE  verity \in BOOLEAN
  BY <1>14, DeviceAssumption
<1>15. QED
  BY <1>2, <1>4, <1>5, <1>6, <1>7, <1>8, <1>9, <1>10, <1>11, <1>12, <1>13, <1>14
     DEF Next

LEMMA UnlockOutcomesInfo ==
  ASSUME NEW field, NEW State, NEW r \in UnlockOutcomes(field, State)
  PROVE  \/ r.info = [DevInfo EXCEPT ![field] = State]
         \/ r.info = [DevInfo EXCEPT ![field] = ~State]
<1>1. \E ok \in BOOLEAN, m \in {misc, WipeMessage},
        info \in {[DevInfo EXCEPT ![field] = State],
                 [DevInfo EXCEPT ![field] = ~State]} :
        r = [ok |-> ok, info |-> info, misc |-> m]
  BY DEF UnlockOutcomes, Reverted
<1>2. QED
  BY <1>1

\* A confirmed menu changes its own lock, in the direction it asks about.
LEMMA OutcomeIsAsked ==
  ASSUME DeviceTypeOK, NEW type \in UnlockTypes,
         DevInfo[FieldOf(type)] # StateOf(type),
         NEW r \in UnlockOutcomes(FieldOf(type), StateOf(type)),
         DevInfo' = r.info, ~LocksSame
  PROVE  Rises <=> StateOf(type)
<1> DEFINE field == FieldOf(type)  State == StateOf(type)
<1>1. DevInfo \in InfoSet
  BY DeviceTypes
<1>2. field \in {"is_unlocked", "is_unlock_critical"} /\ State \in BOOLEAN
  BY DEF FieldOf, StateOf
<1>3. \/ DevInfo' = [DevInfo EXCEPT ![field] = State]
      \/ DevInfo' = [DevInfo EXCEPT ![field] = ~State]
  BY UnlockOutcomesInfo
<1>4. DevInfo[field] # State
  OBVIOUS
<1> HIDE DEF field, State
<1>5. CASE field = "is_unlocked"
  <2>1. DevInfo.is_unlocked = ~State
    BY <1>1, <1>2, <1>4, <1>5 DEF InfoSet
  <2>2. /\ DevInfo'.is_unlocked \in {State, ~State}
        /\ DevInfo'.is_unlock_critical = DevInfo.is_unlock_critical
    BY <1>1, <1>3, <1>5 DEF InfoSet
  <2>3. QED
    BY <1>1, <1>2, <2>1, <2>2 DEF Rises, LocksSame, InfoSet, State
<1>6. CASE field = "is_unlock_critical"
  <2>1. DevInfo.is_unlock_critical = ~State
    BY <1>1, <1>2, <1>4, <1>6 DEF InfoSet
  <2>2. /\ DevInfo'.is_unlock_critical \in {State, ~State}
        /\ DevInfo'.is_unlocked = DevInfo.is_unlocked
    BY <1>1, <1>3, <1>6 DEF InfoSet
  <2>3. QED
    BY <1>1, <1>2, <2>1, <2>2 DEF Rises, LocksSame, InfoSet, State
<1>7. QED
  BY <1>2, <1>5, <1>6

\* The menu a power key confirms is the one that was on the screen.
LEMMA ConfirmedOption ==
  ASSUME MenuInv, PowerOnOption,
         Options[Info.OptionIndex + 1] = "RECOVER", Info.MenuType \in UnlockTypes
  PROVE  /\ LastKey = "POWER" /\ Info = unlockInfo
         /\ pressed = Asks(StateOf(Info.MenuType))
<1>1. Callback /\ LastKey = "POWER" /\ Selected
  BY DEF PowerOnOption, PowerDown
<1>2. CallbackKeyDetection = "unlock" /\ Info = unlockInfo
  BY <1>1, CallbackFinds DEF Info, MenuInv, FastbootShape, UnlockTypes
<1>3. Options = <<"RESTART", "RECOVER">>
  BY DEF Options, ConfirmOptions, UnlockTypes
<1>4. unlockInfo.OptionNum = 2 /\ pc \in {"numbered", "init", "idle"}
  BY <1>1, <1>2 DEF MenuInv, UnlockShape, Selected, UnlockTypes
<1>5. unlockInfo.OptionIndex = 1
  <2>1. unlockInfo.OptionIndex \in {0, 1}
    BY <1>1, <1>2, <1>4 DEF Selected
  <2>2. unlockInfo.OptionIndex # 0
    BY <1>2, <1>3
  <2>3. QED
    BY <2>1, <2>2
<1>6. pc = "idle"
  BY <1>1, <1>4, <1>5, CallbackFinds
<1>7. QED
  BY <1>1, <1>2, <1>5, <1>6 DEF MenuInv, Shows, Confirms

\* No lock changes on a device with a menu but by a power key that went down
\* on the item that confirms this very change.
THEOREM AlwaysConfirmedByUser == Spec => ConfirmedByUser
<1>1. ASSUME MenuInv, [Next]_vars
      PROVE  LockStateChanges /\ UnlockByMenu =>
               LastKey = "POWER" /\ pressed = Asks(Rises)
  <2>1. SUFFICES ASSUME LockStateChanges, UnlockByMenu
                 PROVE  LastKey = "POWER" /\ pressed = Asks(Rises)
    OBVIOUS
  <2>2. ~LocksSame /\ on = "loader"
    BY <2>1 DEF LockStateChanges, LockState, LocksSame
  <2>3. Next
    BY <1>1, <2>2 DEF vars, device, LocksSame
  <2>4. PowerOnOption
    BY <1>1, <2>1, <2>2, <2>3, StepEffect
  <2>5. DeviceTypeOK
    BY <1>1, TypeSplit DEF MenuInv
  <2>6. /\ Options[Info.OptionIndex + 1] = "RECOVER"
        /\ Info.MenuType \in UnlockTypes
        /\ \E r \in UnlockOutcomes(FieldOf(Info.MenuType), StateOf(Info.MenuType)) :
             Leave(r.misc, r.info)
    BY <2>2, <2>4, <2>5, PowerOnOptionEnds DEF Leave, LocksSame
  <2>7. /\ LastKey = "POWER" /\ Info = unlockInfo
        /\ pressed = Asks(StateOf(Info.MenuType))
    BY <1>1, <2>4, <2>6, ConfirmedOption
  <2>8. DevInfo[FieldOf(Info.MenuType)] # StateOf(Info.MenuType)
    BY <1>1, <2>2, <2>6, <2>7 DEF MenuInv, Asked
  <2>9. Rises <=> StateOf(Info.MenuType)
    BY <2>2, <2>5, <2>6, <2>8, OutcomeIsAsked DEF Leave
  <2>10. QED
    BY <2>7, <2>9 DEF Asks
<1>2. QED
  BY <1>1, MenuInvariant, PTL DEF Spec, ConfirmedByUser

\* The commands that write or erase; every other step touches nothing.
LEMMA WhatTouches ==
  ASSUME Command, touched' # {}
  PROVE  \/ \E p : CmdFlash(p) \/ CmdErase(p)
         \/ \E p, e : CmdFlashMeta(p, e)
         \/ \E erase : CmdFlashKey(erase)
BY DEF Command, HostCommand, RefuseUnlock, SetDeviceUnlock, CancelSnapshot,
       MergeSnapshot, RebootTo, CmdReboot, CmdContinue

LEMMA CommandsTouch == Next => Command \/ touched' \in {touched, {}}
BY DEF Next, AskUser, DrawFails, SetMenuType, SetOptionNum, SetOptionIndex,
       StartDetection, Start, Restart, Linux, LinuxRestarts, KeySeen, VolumeKey,
       PowerOnZeroed, PowerOnOption, PowerOnNothing, DetectionEnds, Leave, device

\* A locked device's host reaches no partition that the lock covers.
THEOREM LockedAlwaysKeepsPartitions == Spec => LockedKeepsPartitions
<1> DEFINE Covered ==
      \A t \in touched' :
        /\ Gated => DevInfo.is_unlocked
        /\ t[2] \in Critical /\ (Gated \/ t[1] = "meta") =>
             DevInfo.is_unlock_critical
<1>1. ASSUME NEW p, CmdFlash(p)
      PROVE  Covered
  <2>1. \/ touched' = {}
        \/ LockAllows(p) /\ touched' = {<<"flash", p>>}
    BY <1>1 DEF CmdFlash, Refuse, RefuseMerging, WriteImage
  <2>2. QED
    BY <2>1 DEF LockAllows
<1>2. ASSUME NEW p, NEW e, CmdFlashMeta(p, e)
      PROVE  Covered
  <2>1. \/ touched' = {}
        \/ LockAllows(p) /\ MetaAllows(e) /\ touched' = {<<"meta", e>>}
    BY <1>2 DEF CmdFlashMeta, Refuse, RefuseMerging, WriteImage
  <2>2. QED
    BY <2>1 DEF LockAllows, MetaAllows
<1>3. ASSUME NEW p, CmdErase(p)
      PROVE  Covered
  <2>1. \/ touched' = {}
        \/ LockAllows(p) /\ touched' = {<<"erase", p>>}
    BY <1>3 DEF CmdErase, Refuse, RefuseMerging, EraseIt
  <2>2. QED
    BY <2>1 DEF LockAllows
<1>4. ASSUME NEW erase, CmdFlashKey(erase)
      PROVE  touched' = {}
  BY <1>4 DEF CmdFlashKey, Refuse
<1>a. touched' = {} => Covered
  OBVIOUS
<1> HIDE DEF Covered
<1>5. Command => Covered
  BY <1>1, <1>2, <1>3, <1>4, <1>a, WhatTouches
<1>6. Next => Covered \/ touched' = touched
  BY <1>5, <1>a, CommandsTouch
<1>8. [Next]_vars => (touched' # touched => Covered)
  BY <1>6 DEF vars, device
<1> USE DEF Covered
<1>9. QED
  BY <1>8, PTL DEF Spec, LockedKeepsPartitions

\* super changes only once a merge the loader knows of is cancelled, on misc,
\* in memory and for the host.
LEMMA SuperGate ==
  ASSUME build.vab, VirtualAbMsg \in Busy, NEW g \in MergeGate("super"), g.ok,
         DeviceTypeOK
  PROVE  /\ g.msg = "cancelled" /\ g.misc.merge = "cancelled"
         /\ g.published = "none"
<1>1. MessageRead(VirtualAbMsg) = {VirtualAbMsg} /\ "super" \notin VabCritical
  BY DEF MessageRead, Busy, NoMsg, VabCritical
<1>2. VirtualAbMsg \in Msgs
  BY DeviceTypes
<1>3. PICK r \in MergeSet(VirtualAbMsg, "cancelled") :
        g = IF r.ok THEN [ok |-> TRUE, msg |-> r.msg, misc |-> r.misc,
                          published |-> "none"]
            ELSE [ok |-> FALSE, msg |-> r.msg, misc |-> misc,
                  published |-> SnapshotMergeState]
  BY <1>1 DEF MergeGate
<1>4. QED
  BY <1>2, <1>3, MergeSetType

THEOREM SuperAlwaysCancelsMerge == Spec => SuperCancelsMerge
<1> DEFINE Super == touched' \in {{<<"flash", "super">>}, {<<"erase", "super">>}}
           Cancelled == /\ misc'.merge = "cancelled" /\ VirtualAbMsg' = "cancelled"
                        /\ SnapshotMergeState' = "none"
           Merging == build.vab /\ VirtualAbMsg \in Busy
<1>a. ASSUME NEW by, NEW p, Super, touched' = {<<by, p>>}
      PROVE  by # "meta" /\ p = "super"
  <2>1. <<by, p>> \in touched'
    BY <1>a
  <2>2. <<by, p>> = <<"flash", "super">> \/ <<by, p>> = <<"erase", "super">>
    BY <1>a, <2>1
  <2>3. QED
    BY <2>2
<1>b. Super => touched' # {}
  OBVIOUS
<1>1. ASSUME NEW p, CmdFlash(p), Super, Merging, DeviceTypeOK
      PROVE  Cancelled
  <2>a. touched' \in {{}, {<<"flash", p>>}}
    BY <1>1 DEF CmdFlash, Refuse, RefuseMerging, WriteImage
  <2>1. p = "super"
    BY <1>1, <1>a, <1>b, <2>a
  <2>2. PICK g \in MergeGate("super") :
          g.ok /\ WriteImage("flash", "super", "super", g) /\ misc' = g.misc
    BY <1>1, <2>1 DEF CmdFlash, Refuse, RefuseMerging, WriteImage, MiscAfter
  <2>3. QED
    BY <1>1, <2>2, SuperGate DEF WriteImage
<1>2. ASSUME NEW p, CmdErase(p), Super, Merging, DeviceTypeOK
      PROVE  Cancelled
  <2>a. touched' \in {{}, {<<"erase", p>>}}
    BY <1>2 DEF CmdErase, Refuse, RefuseMerging, EraseIt
  <2>1. p = "super"
    BY <1>2, <1>a, <1>b, <2>a
  <2>2. PICK g \in MergeGate("super") :
          g.ok /\ EraseIt("super", g) /\ misc' = g.misc
    BY <1>2, <2>1 DEF CmdErase, Refuse, RefuseMerging, EraseIt, MiscAfter
  <2>3. QED
    BY <1>2, <2>2, SuperGate DEF EraseIt
<1>3. ASSUME NEW p, NEW e, CmdFlashMeta(p, e)
      PROVE  ~Super
  <2>1. touched' \in {{}, {<<"meta", e>>}}
    BY <1>3 DEF CmdFlashMeta, Refuse, RefuseMerging, WriteImage
  <2>2. QED
    BY <1>a, <1>b, <2>1
<1>4. ASSUME NEW erase, CmdFlashKey(erase)
      PROVE  ~Super
  BY <1>4 DEF CmdFlashKey, Refuse
<1> HIDE DEF Super, Cancelled, Merging
<1>5. ASSUME Command, Super, Merging, DeviceTypeOK
      PROVE  Cancelled
  BY <1>1, <1>2, <1>3, <1>4, <1>5, <1>b, WhatTouches
<1>7. MenuInv => DeviceTypeOK
  BY TypeSplit DEF MenuInv
<1>8. ASSUME MenuInv, [Next]_vars
      PROVE  (/\ touched' \in {{<<"flash", "super">>}, {<<"erase", "super">>}}
              /\ touched' # touched /\ build.vab /\ VirtualAbMsg \in Busy)
             => /\ misc'.merge = "cancelled" /\ VirtualAbMsg' = "cancelled"
                /\ SnapshotMergeState' = "none"
  BY <1>5, <1>7, <1>8, <1>b, CommandsTouch DEF vars, device, Super, Cancelled,
     Merging
<1>9. QED
  BY <1>8, MenuInvariant, PTL DEF Spec, SuperCancelsMerge

\* A lock that has changed by an OKAY has its wipe request on misc, and no
\* later reboot command, menu or merge takes it away.
THEOREM WipeAlwaysKept == Spec => WipeKept
<1>1. ASSUME MenuInv, [Next]_vars
      PROVE  /\ LockStateChanges /\ reply' = "OKAY" => misc'.recovery = "wipe_data"
             /\ misc.recovery = "wipe_data" /\ on # "linux" =>
                  \/ misc'.recovery = "wipe_data"
                  \/ \E by \in {"flash", "meta", "erase"} : <<by, "misc">> \in touched'
  <2>1. CASE Next
    <3>1. LockStateChanges => ~LocksSame /\ on = "loader"
      BY DEF LockStateChanges, LockState, LocksSame
    <3>2. PowerOnOption => reply' # "OKAY"
      BY DEF PowerOnOption, Leave
    <3>3. QED
      BY <1>1, <2>1, <3>1, <3>2, StepEffect DEF RequestKept
  <2>2. CASE UNCHANGED vars
    BY <2>2 DEF vars, device, LockStateChanges, LockState
  <2>3. QED
    BY <1>1, <2>1, <2>2
<1>2. QED
  BY <1>1, MenuInvariant, PTL DEF Spec, WipeKept
=============================================================================
