---------------------------- MODULE SlotRegister ----------------------------
(***************************************************************************)
(* What the slot management of the loader promises, without attributes,    *)
(* priorities or GUIDs: a register on the device names the slot to boot,   *)
(* the running loader works on a copy of it, only set_active and a flash   *)
(* of the partition table change the copy, and Linux is started from it.   *)
(* A set_active that names no slot tears the copy: until the next one that *)
(* does, or a new table, it may read as either slot.                       *)
(***************************************************************************)
CONSTANTS Slots, NoSlot, Default

VARIABLES
  phase,    \* "off", "fastboot", "linux" or "lost"
  disk,     \* the slot marked in the table on the device
  act,      \* the slot marked in the running loader's copy
  asked,    \* the slot of the last set_active that was OKAYed
  settled,  \* nothing but that set_active has moved act since
  torn      \* a set_active without a slot has left both marked

vars == <<phase, disk, act, asked, settled, torn>>
Choice == Slots \union {NoSlot}

\* A blank table stands for the default slot, if the loader asks in time.
OrDefault(d) == IF d = NoSlot THEN {NoSlot, Default} ELSE {d}

\* What a command that asks for the slot may find.
Found == IF torn THEN Slots ELSE OrDefault(act)

Init ==
  /\ phase = "off" /\ disk \in Choice /\ act = NoSlot
  /\ asked = NoSlot /\ settled = FALSE /\ torn = FALSE

Start ==
  /\ phase = "off" /\ phase' = "fastboot"
  /\ act' \in OrDefault(disk) /\ UNCHANGED <<disk, asked, settled, torn>>

\* set_active
Choose(s) ==
  /\ phase = "fastboot"
  /\ act' = s /\ asked' = s /\ settled' = TRUE /\ torn' = FALSE
  /\ UNCHANGED <<phase, disk>>

\* set_active that is never answered.
ChooseLost(s) ==
  /\ phase = "fastboot" /\ phase' = "lost"
  /\ act' = s /\ torn' = FALSE /\ UNCHANGED <<disk, asked, settled>>

\* set_active without a slot.
Tear ==
  /\ phase = "fastboot" /\ phase' \in {"fastboot", "lost"}
  /\ act' \in Slots /\ torn' = TRUE /\ settled' = FALSE
  /\ UNCHANGED <<disk, asked>>

\* A command that only asks for the active slot, or flashes one.
Adopt ==
  /\ phase = "fastboot" /\ act' \in Found
  /\ UNCHANGED <<phase, disk, asked, settled, torn>>

\* A new table: written, and then read back unless that failed.
Load(d) ==
  /\ phase = "fastboot" /\ disk' = d
  /\ \/ UNCHANGED <<act, torn>>
     \/ act' \in OrDefault(d) /\ torn' = FALSE
  /\ asked' = NoSlot /\ settled' = FALSE /\ UNCHANGED phase

\* The table is rejected, or read back unchanged.
Revert ==
  /\ phase = "fastboot" /\ settled' = FALSE
  /\ \/ UNCHANGED <<act, torn>>
     \/ act' = disk /\ torn' = FALSE
  /\ UNCHANGED <<phase, disk, asked>>

HandOver ==
  /\ phase = "fastboot" /\ phase' = "linux"
  /\ act' \in Found \ {NoSlot}
  /\ UNCHANGED <<disk, asked, settled, torn>>

Stop ==
  /\ phase # "off" /\ phase' = "off"
  /\ act' = NoSlot /\ settled' = FALSE /\ torn' = FALSE
  /\ UNCHANGED <<disk, asked>>

Next ==
  \/ Start \/ Tear \/ Adopt \/ Revert \/ HandOver \/ Stop
  \/ \E s \in Slots : Choose(s) \/ ChooseLost(s)
  \/ \E d \in Choice : Load(d)

Spec == Init /\ [][Next]_vars
=============================================================================
