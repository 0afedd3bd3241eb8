----------------------------- MODULE UnlockMenu -----------------------------
(***************************************************************************)
(* The menus of the loader (BootLib/FastbootMenu.c, UnlockMenu.c) and the  *)
(* key timer that works on them (MenuKeysDetection.c), on top of           *)
(* DeviceLock. The timer's callback preempts the fastboot loop: it may run *)
(* between any two steps of drawing the confirmation menu, and then works  *)
(* on the menu it was started for, which is the old one or the one being   *)
(* drawn. The timer is set again, for 50 ms, when the callback returns: it *)
(* does not run twice between two assignments that follow each other.      *)
(*                                                                         *)
(* OptionIndex and OptionNum are UINT32; 0xFFFFFFFF is written -1.         *)
(***************************************************************************)
EXTENDS DeviceLock, Integers, Sequences

FastbootOptions ==
  <<"RESTART", "FASTBOOT", "RECOVER", "POWEROFF", "FFBM", "QMMI">>
ConfirmOptions == <<"RESTART", "RECOVER">>

VARIABLES
  pc,           \* "idle", or where DisplayUnlockMenu is
  request,      \* the change DisplayUnlockMenu asks about, or NULL
  fastbootInfo, \* gMenuInfo.Info of FastbootMenu.c
  unlockInfo,   \* gMenuInfo.Info of UnlockMenu.c
  CallbackKeyDetection,  \* "none", or whose menu the timer works on
  LastKey, IsRefresh,
  armed,        \* may the timer run before the loop's next step?
  shown,        \* what the screen asks: "none" or "unlock" or "lock" if the
                \* item that confirms it is highlighted on a complete menu
  pressed       \* history: shown when the power key was last seen to go down

menus == <<pc, request, fastbootInfo, unlockInfo, CallbackKeyDetection,
           LastKey, IsRefresh, armed, shown, pressed>>
vars == <<device, menus>>

\* MENU_OPTION_ITEM_INFO without the pointers; MenuType 0 is YELLOW.
Zeroed == [MenuType |-> "YELLOW", OptionNum |-> 0, OptionIndex |-> 0,
           TimeoutTime |-> 0]
DrawnFastboot ==
  [Zeroed EXCEPT !.MenuType = "FASTBOOT", !.OptionNum = Len(FastbootOptions)]

UnlockTypes == {"UNLOCK", "UNLOCK_CRITICAL", "LOCK", "LOCK_CRITICAL"}
FieldOf(type) ==
  IF type \in {"UNLOCK", "LOCK"} THEN "is_unlocked" ELSE "is_unlock_critical"
StateOf(type) == type \in {"UNLOCK", "UNLOCK_CRITICAL"}
Asks(State) == IF State THEN "unlock" ELSE "lock"

-----------------------------------------------------------------------------
(***************************************************************************)
(* The fastboot loop                                                       *)
(***************************************************************************)
\* Mutant of Clear: the old menu stays in force while the new one is drawn.
Clear_Not(info) == info

\* ZeroMem before drawing.
Clear(info) == Zeroed

\* SetDeviceUnlock, by the confirmation menu: UnlockMenuShowScreen begins.
AskUser(field, State) ==
  /\ on = "loader" /\ pc = "idle"
  /\ UnlockByMenu /\ ~UnlockRefused(field, State)
  /\ pc' = "draw"
  /\ request' \in {t \in UnlockTypes : FieldOf(t) = field /\ StateOf(t) = State}
  /\ unlockInfo' = Clear(unlockInfo) /\ shown' = "none"
  /\ UNCHANGED <<device, fastbootInfo, CallbackKeyDetection, LastKey, IsRefresh,
                 armed, pressed>>

DrawFails ==
  /\ on = "loader" /\ pc = "draw" /\ IoMayFail /\ armed' = TRUE
  /\ pc' = "idle" /\ request' = "NULL"
  /\ reply' = "FAIL" /\ touched' = {}
  /\ UNCHANGED <<build, on, DevInfo, misc, frp, IsAllowUnlock, VirtualAbMsg,
                 SnapshotMergeState, fastbootInfo, unlockInfo,
                 CallbackKeyDetection, LastKey, IsRefresh, shown, pressed>>

\* The three assignments after the last line has been drawn.
SetMenuType ==
  /\ on = "loader" /\ armed' = TRUE /\ pc = "draw" /\ pc' = "typed"
  /\ unlockInfo' = [unlockInfo EXCEPT !.MenuType = request]
  /\ UNCHANGED <<device, request, fastbootInfo, CallbackKeyDetection, LastKey,
                 IsRefresh, shown, pressed>>

SetOptionNum ==
  /\ on = "loader" /\ armed' = TRUE /\ pc = "typed" /\ pc' = "numbered"
  /\ unlockInfo' = [unlockInfo EXCEPT !.OptionNum = Len(ConfirmOptions)]
  /\ UNCHANGED <<device, request, fastbootInfo, CallbackKeyDetection, LastKey,
                 IsRefresh, shown, pressed>>

\* No option is selected until a volume key is pressed.
NoOption == Len(ConfirmOptions)

SetOptionIndex ==
  /\ on = "loader" /\ armed' = TRUE /\ pc = "numbered" /\ pc' = "init"
  /\ unlockInfo' = [unlockInfo EXCEPT !.OptionIndex = NoOption]
  /\ UNCHANGED <<device, request, fastbootInfo, CallbackKeyDetection, LastKey,
                 IsRefresh, shown, pressed>>

\* MenuKeysDetectionInit, whose failure nobody looks at, and the OKAY.
StartDetection ==
  /\ on = "loader" /\ armed' = TRUE /\ pc = "init" /\ pc' = "idle" /\ request' = "NULL"
  /\ CallbackKeyDetection' \in {"unlock"} \union
                               (IF IoMayFail THEN {"none"} ELSE {})
  /\ reply' = "OKAY" /\ touched' = {}
  /\ UNCHANGED <<build, on, DevInfo, misc, frp, IsAllowUnlock, VirtualAbMsg,
                 SnapshotMergeState, fastbootInfo, unlockInfo,
                 LastKey, IsRefresh, shown, pressed>>

\* Every other command leaves the menus alone, but continue stops the keys.
Command ==
  /\ pc = "idle"
  /\ \/ HostCommand /\ UNCHANGED <<CallbackKeyDetection, shown>>
     \/ CmdReboot /\ UNCHANGED <<CallbackKeyDetection, shown>>
     \/ CmdContinue /\ CallbackKeyDetection' = "none" /\ shown' = "none"
  /\ UNCHANGED <<pc, request, fastbootInfo, unlockInfo, LastKey, IsRefresh,
                 armed, pressed>>

\* A start of the loader, up to DisplayFastbootMenu. A screen that cannot be
\* drawn on leaves the menu without keys.
Start(verity) ==
  /\ Restart(verity)
  /\ pc' = "idle" /\ request' = "NULL" /\ LastKey' = "NULL"
  /\ IsRefresh' = FALSE /\ armed' = TRUE
  /\ shown' = "none" /\ pressed' = "none"
  /\ unlockInfo' = Zeroed
  /\ \/ /\ build.menus
        /\ fastbootInfo' = DrawnFastboot /\ CallbackKeyDetection' = "fastboot"
     \/ /\ ~build.menus \/ IoMayFail
        /\ fastbootInfo' = Zeroed /\ CallbackKeyDetection' = "none"

Linux == LinuxRestarts /\ UNCHANGED menus

-----------------------------------------------------------------------------
(***************************************************************************)
(* The key timer                                                           *)
(***************************************************************************)
\* The callback runs.
Callback ==
  /\ on = "loader" /\ CallbackKeyDetection # "none" /\ armed
  /\ armed' = (pc \in {"idle", "draw"})

Info == IF CallbackKeyDetection = "unlock" THEN unlockInfo ELSE fastbootInfo
Options ==
  IF Info.MenuType = "FASTBOOT" THEN FastbootOptions ELSE ConfirmOptions

Update(info) ==
  IF CallbackKeyDetection = "unlock"
  THEN unlockInfo' = info /\ UNCHANGED fastbootInfo
  ELSE fastbootInfo' = info /\ UNCHANGED unlockInfo

\* MenuKeysHandler sees a key that was not down at its last run, and puts the
\* action off until the key is released or has been held.
KeySeen(k) ==
  /\ Callback /\ k # LastKey /\ LastKey' = k
  /\ pressed' = IF k = "POWER" THEN shown ELSE "none"
  /\ UNCHANGED <<device, pc, request, fastbootInfo, unlockInfo,
                 CallbackKeyDetection, IsRefresh, shown>>

\* The key is released, or held for KEY_HOLD_TIME_MS and counted again.
Released == LastKey' \in {LastKey, "NULL"}

\* Mutant of NextIndex: the first option is not tested for.
NextIndex_NoWrap(key) ==
  IF key = "UP" THEN Info.OptionIndex - 1 ELSE Info.OptionIndex + 1

\* MenuVolumeUpFunc and MenuVolumeDownFunc in UINT32 arithmetic.
NextIndex(key) ==
  LET last == IF Info.OptionNum = 0 THEN -1 ELSE Info.OptionNum - 1
      past == last # -1 /\ Info.OptionIndex \notin 0..last
  IN IF key = "UP"
     THEN IF Info.OptionIndex = 0 \/ past THEN last ELSE Info.OptionIndex - 1
     ELSE IF last # -1 /\ (past \/ Info.OptionIndex = last) THEN 0
          ELSE Info.OptionIndex + 1

\* The highlighting is drawn at once, over whatever is on the screen.
VolumeKey ==
  /\ Callback /\ LastKey \in {"UP", "DOWN"} /\ Released
  /\ IF Info.MenuType = "YELLOW"
     THEN UNCHANGED <<fastbootInfo, unlockInfo, shown>>
     ELSE /\ Update([Info EXCEPT !.OptionIndex = NextIndex(LastKey)])
          /\ shown' = IF /\ CallbackKeyDetection = "unlock" /\ pc \in {"init", "idle"}
                         /\ NextIndex(LastKey) = 1
                      THEN Asks(StateOf(Info.MenuType)) ELSE "none"
  /\ UNCHANGED <<device, pc, request, CallbackKeyDetection, IsRefresh, pressed>>

PowerDown ==
  /\ Callback /\ LastKey = "POWER" /\ Released
  /\ UNCHANGED <<pc, request, shown, pressed>>

\* VerifiedBootMenuUpdateShowScreen, which may fail to draw its line.
Refreshed ==
  {[Info EXCEPT !.TimeoutTime = 60]} \union (IF IoMayFail THEN {Info} ELSE {})

\* On a zeroed menu the first power key sets a timeout, and a later one ends
\* key detection.
PowerOnZeroed ==
  /\ PowerDown /\ Info.MenuType = "YELLOW"
  /\ \/ /\ ~IsRefresh /\ IsRefresh' = TRUE
        /\ \E info \in Refreshed : Update(info)
        /\ UNCHANGED CallbackKeyDetection
     \/ /\ IsRefresh /\ CallbackKeyDetection' = "none"
        /\ UNCHANGED <<IsRefresh, fastbootInfo, unlockInfo>>
  /\ UNCHANGED device

Selected == Info.OptionIndex \in 0..(Info.OptionNum - 1)

Leave(newMisc, newInfo) ==
  /\ on' = "off" /\ misc' = newMisc /\ DevInfo' = newInfo
  /\ touched' = {} /\ reply' = "none"
  /\ UNCHANGED <<build, frp, IsAllowUnlock, VirtualAbMsg, SnapshotMergeState>>

\* UpdateDeviceStatus: every option ends in a reset. ResetDeviceUnlockStatus
\* drops the result of SetDeviceUnlockValue, and may find no memory.
PowerOnOption ==
  /\ PowerDown /\ Info.MenuType # "YELLOW" /\ Selected
  /\ LET option == Options[Info.OptionIndex + 1]
     IN \/ /\ option = "RECOVER" /\ Info.MenuType \in UnlockTypes
           /\ \/ \E r \in UnlockOutcomes(FieldOf(Info.MenuType),
                                         StateOf(Info.MenuType)) :
                   Leave(r.misc, r.info)
              \/ IoMayFail /\ Leave(misc, DevInfo)
        \/ /\ option \in {"FFBM", "QMMI"}
           /\ \/ Leave([misc EXCEPT !.command = "ffbm"], DevInfo)
              \/ IoMayFail /\ Leave(misc, DevInfo)
        \/ /\ option \notin {"FFBM", "QMMI"}
           /\ ~(option = "RECOVER" /\ Info.MenuType \in UnlockTypes)
           /\ Leave(misc, DevInfo)
  /\ UNCHANGED <<fastbootInfo, unlockInfo, CallbackKeyDetection, IsRefresh>>

PowerOnNothing ==
  /\ PowerDown /\ Info.MenuType # "YELLOW" /\ ~Selected
  /\ UNCHANGED <<device, fastbootInfo, unlockInfo, CallbackKeyDetection,
                 IsRefresh>>

\* The timeout of a menu, which shuts the device down if it is still zeroed;
\* and a key that cannot be read.
DetectionEnds ==
  /\ Callback
  /\ \/ Info.TimeoutTime > 0 /\ Info.MenuType = "YELLOW" /\ Leave(misc, DevInfo)
     \/ (Info.TimeoutTime > 0 \/ IoMayFail) /\ UNCHANGED device
  /\ CallbackKeyDetection' = "none" /\ shown' = "none"
  /\ UNCHANGED <<pc, request, fastbootInfo, unlockInfo, LastKey, IsRefresh,
                 pressed>>

-----------------------------------------------------------------------------
Init ==
  /\ DeviceInit
  /\ pc = "idle" /\ request = "NULL"
  /\ fastbootInfo = Zeroed /\ unlockInfo = Zeroed
  /\ CallbackKeyDetection = "none" /\ LastKey = "NULL" /\ IsRefresh = FALSE
  /\ armed = TRUE /\ shown = "none" /\ pressed = "none"

Next ==
  \/ \E f \in {"is_unlocked", "is_unlock_critical"}, s \in BOOLEAN :
       AskUser(f, s)
  \/ DrawFails \/ SetMenuType \/ SetOptionNum \/ SetOptionIndex
  \/ StartDetection
  \/ Command
  \/ \E verity \in IF build.menus THEN {FALSE} ELSE VerityModes : Start(verity)
  \/ Linux
  \/ \E k \in {"UP", "DOWN", "POWER"} : KeySeen(k)
  \/ VolumeKey \/ PowerOnZeroed \/ PowerOnOption \/ PowerOnNothing
  \/ DetectionEnds

Spec == Init /\ [][Next]_vars

-----------------------------------------------------------------------------
(***************************************************************************)
(* Properties                                                              *)
(***************************************************************************)
\* The type invariant.
TypeOK ==
  /\ DeviceTypeOK
  /\ pc \in {"idle", "draw", "typed", "numbered", "init"}
  /\ request \in UnlockTypes \union {"NULL"}
  /\ \A info \in {fastbootInfo, unlockInfo} :
       info \in [MenuType : {"YELLOW", "FASTBOOT"} \union UnlockTypes,
                 OptionNum : {0, 2, 6}, OptionIndex : -1..5,
                 TimeoutTime : {0, 60}]
  /\ CallbackKeyDetection \in {"none", "fastboot", "unlock"}
  /\ LastKey \in {"NULL", "UP", "DOWN", "POWER"} /\ IsRefresh \in BOOLEAN
  /\ armed \in BOOLEAN
  /\ shown \in {"none", "unlock", "lock"} /\ pressed \in {"none", "unlock", "lock"}

LockState == <<DevInfo.is_unlocked, DevInfo.is_unlock_critical>>
LockStateChanges == on = "loader" /\ LockState' # LockState
Rises == \/ ~DevInfo.is_unlocked /\ DevInfo'.is_unlocked
         \/ ~DevInfo.is_unlock_critical /\ DevInfo'.is_unlock_critical

\* On a device with a menu nobody but its user changes the lock state: it
\* changes only by a power key that went down while the screen showed the
\* item that confirms this very change, although the key timer runs in the
\* middle of drawing, and a key pressed on one menu may act on the next.
ConfirmedByUser ==
  [][LockStateChanges /\ UnlockByMenu =>
       LastKey = "POWER" /\ pressed = Asks(Rises)]_vars

\* Every partition a locked device's host can reach keeps its contents, and
\* a critical one those of a device whose critical partitions are locked,
\* in the builds that look at the lock state; meta images are no way around
\* the critical list in any build.
LockedKeepsPartitions ==
  [][touched' # touched => \A t \in touched' :
       /\ Gated => DevInfo.is_unlocked
       /\ t[2] \in Critical /\ (Gated \/ t[1] = "meta") =>
            DevInfo.is_unlock_critical]_vars

\* A merge in progress that the loader knows of is cancelled on misc, in
\* memory and in the published variable before super is written or erased.
SuperCancelsMerge ==
  [][(/\ touched' \in {{<<"flash", "super">>}, {<<"erase", "super">>}}
      /\ touched' # touched /\ build.vab /\ VirtualAbMsg \in Busy)
     => /\ misc'.merge = "cancelled" /\ VirtualAbMsg' = "cancelled"
        /\ SnapshotMergeState' = "none"]_vars

\* A lock command that is answered OKAY and changes the lock state has put
\* the request to wipe the user's data on misc by then, and it stays there
\* through every later reboot command, menu option and merge: only an image
\* or an erasure of misc, or Linux, takes it away.
WipeKept ==
  [][/\ LockStateChanges /\ reply' = "OKAY" => misc'.recovery = "wipe_data"
     /\ misc.recovery = "wipe_data" /\ on # "linux" =>
          \/ misc'.recovery = "wipe_data"
          \/ \E by \in {"flash", "meta", "erase"} : <<by, "misc">> \in touched']_vars
=============================================================================
