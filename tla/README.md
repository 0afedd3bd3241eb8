# TLA+ models of msmnilePkg

The repository builds UEFI firmware for Qualcomm phones. Nearly all of its
files are data (device trees, ACPI tables, memory maps, prebuilt drivers) or
vendored libraries. Its own stateful logic is in two packages:

* the `LinuxLoader` application in `src/Platforms/QcomModulePkg`: a fastboot
  server that flashes partitions and partition tables, locks and unlocks the
  device, manages the A/B slots and starts Linux from one of them;
* the device's part of UEFI in `src/Platforms/SurfaceDuoFamilyPkg`: the boot
  manager with its front page, and the library behind authenticated variables
  (secure boot keys and signed private variables).

These modules model that logic, check it with TLC and prove, with TLAPS, all
that is checked but two liveness properties.

Paths below are relative to `src/Platforms/QcomModulePkg` unless they start
with `src/`, and those of the last two parts to
`src/Platforms/SurfaceDuoFamilyPkg`. The loader is modelled in the
configuration that
`src/Platforms/SurfaceDuoFamilyPkg/SurfaceDuoFamily.dsc.inc` builds:
`ENABLE_UPDATE_PARTITIONS_CMDS`, `ENABLE_BOOT_CMD` and
`ENABLE_DEVICE_CRITICAL_LOCK_UNLOCK_CMDS` are defined; verified boot, dynamic
partitions, virtual A/B and the user build variant are not. `DeviceLock` is
the exception: what a lock means depends on the build, so it takes the build
as a parameter.

## Inventory

| Part | State | Operations | Hard because |
| --- | --- | --- | --- |
| A/B slots (`Library/BootLib/PartitionTableUpdate.c`, `Board.c`) | `PtnEntries` (attributes, type GUIDs), `FirstBoot`, `HeadNode`; on the device the table and the UFS boot LUN | `GetActiveSlot`, `SetActiveSlot`, `SwitchPtnSlots`, `FindBootableSlot`, `HandleActiveSlotUnbootable`, `ClearUnbootable` | three descriptions of one fact (attributes, GUIDs, LUN), written at different moments to different places; resets between commands |
| Partition table flashing (same file, and `CmdFlash`) | blocks of a unit, `Lun`, `ParseSecondaryGpt` | `UpdatePartitionTable`, `WriteGpt`, `ParseGptHeader`, `PatchGpt`, `ReenumeratePartTable` | six writes that may fail or be cut; statics that outlive a command |
| Parallel download and flash (`Library/FastbootLib/FastbootCmds.c`) | two buffers, `mState`, `IsFlashComplete`, `FlashResult`, two locks, three timers | `CmdDownload`, `AcceptData`, `CmdFlash`, `SparseImgFlashThread`, `AcceptCmd`, `FastbootOkayDelay`, `WaitForFlashFinished` | threads or timer callbacks inside a write; answers sent before the work is done |
| Fastboot variables (same file) | `CurrentSlotFB`, `BootSlotInfo` | `PopulateMultislotMetadata`, `FastbootUpdateAttr`, `CmdSetActive`, `CmdGetVar` | copies that each command must update |
| USB loop (`FastbootMain.c`) | events, endpoints | `HandleUsbEvents` | it is the scheduler of everything above |
| Image writers (same file as the commands, `LinuxLoaderLib.c`) | the place in the image, chunk and block counters | `HandleSparseImgFlash` and its chunk handlers, `HandleRawImgFlash`, `HandleMetaImgFlash`, `WriteBlockToPartition` | counts of 32 bits and places of 64, all taken from the image; a last block that is only partly the image's |
| Device state (`DeviceInfo.c`, `Recovery.c`) | `DevInfo`, the recovery and Virtual A/B messages on misc and their copies | `SetDeviceUnlockValue`, `ResetDeviceState`, `WriteRecoveryMessage`, `SetSnapshotMergeStatus` | lock flags in memory, their consequences on misc; writes that fail half way |
| Unlock commands and menus (`FastbootCmds.c`, `UnlockMenu.c`, `FastbootMenu.c`, `MenuKeysDetection.c`) | a record per menu, the last key, the running timer | `SetDeviceUnlock`, `UnlockMenuShowScreen`, `MenuKeysHandler`, `UpdateDeviceStatus` | the key timer runs while the next menu is being set up |
| Boot (`Library/avb/VerifiedBoot.c`, `BootLinux.c`) | `BootInfo` | `LoadImageAndAuth`, `BootLinux` | long sequences with many early returns |
| Threads' stacks (`ThreadStack.c`) | list of unsafe stacks | add, remove | shared list |
| Authenticated variables (`Library/AuthVariableLib`, `PlatformSecureLib`) | PK, KEK, db and private variables; `certdb`, `certdbv`, modes, `VendorKeysNv`, `SecureBootEnable` | `AuthVariableLibProcessVariable`, `ProcessVarWithPk`, `ProcessVarWithKek`, `VerifyTimeBasedPayload`, `CleanCertsFromDb`, `AuthVariableLibInitialize` | one request makes several writes, each of which may fail or be the last before power is lost |
| Boot manager and front page (`DeviceBootManagerLib`, `MsBootOptionsLib`, `MsBootPolicyLib`, `GpioButtons`, `FrontPage`) | `BootOrder`, `Boot####`, `BootNext`, `OsIndications`, settings, the button state, variable locks | `RegisterFvBootOption`, `MsPreBootChecks`, `DeviceBootManagerPriorityBoot`, `BdsBootLockBootVariables`, `HandleSecureBootChange`, `ProcessBootNext` | the key is read four times while a timer may change it; locks that last until a reset, over several ways out |
| Other platform code | HOBs, memory maps | errata patches, frame buffer, SMBIOS | mostly glue |

How they interact: `LinuxLoaderEntry` reads the table into `PtnEntries`, asks
for the active slot and enters the fastboot loop. The loop takes one USB event
at a time; a command handler runs to its end before the next event is looked
at, except for the two mechanisms of parallel flashing (a thread, or a timer
callback that runs the loop inside a write) and for the key timer of a menu,
whose callback may come between any two statements of the loop. Handlers call
the slot and table functions directly and share their globals. `continue` and
`boot` go through `LoadImageAndAuth` to `BootLinux`. Every reset loses all of
memory and keeps the table, the boot LUN, misc and frp. The UEFI side runs
before any of this: BDS calls the device's boot manager, which registers
options, looks at the buttons and may start the front page; what it starts
(the loader among other things) writes variables through the authenticated
variable library.

What makes each part correct:

* slots: one active slot; attributes, GUIDs, boot LUN and published variables
  name the same one; Linux is started only from a sound slot; the loader only
  leaves a slot for one that has worked;
* table flashing: the two copies never contradict each other; OKAY means both
  are there; only the unit meant is written;
* parallel flashing: images are written whole, once and in order; buffers are
  not shared; every command is answered; failures are reported;
* image writers: no access outside the image or the partition whatever the
  image says; what is on the partition is old or the image's, and after OKAY
  all of it is the image's; sound images are accepted;
* device state: a locked device's partitions keep their contents; a change of
  the lock state wipes the user's data, and where there is a menu only its
  user makes one; a merge is cancelled before super changes;
* authenticated variables: keys change by their owner's hand alone, never back
  in time; signers are recorded for what exists and for nothing else; the
  modes follow the platform key after every start;
* boot manager: no default option twice; a locked boot order stays as it is; a
  volume key pressed in time is honoured.

## Modules

| Module | What it is |
| --- | --- |
| `ABSlots` | the slots, the boot LUN, the slot variables and all commands that touch them |
| `SlotRegister` | abstract: a register that names the slot to boot |
| `ABSlotsProofs` | theorems about `ABSlots`, and that it implements `SlotRegister` |
| `FastbootFlash` | parallel download and flash |
| `FlashQueue` | abstract: a queue of length one between the host's order and the partitions |
| `FastbootFlashProofs` | theorems about `FastbootFlash`, and that it implements `FlashQueue` |
| `GptFlash`, `GptFlashProofs` | writing a partition table block by block, and theorems about it |
| `ImageFlash`, `ImageFlashProofs` | writing an image: sparse, raw and meta images, and erase; theorems about it |
| `DeviceLock` | the lock state, misc and the commands that depend on them |
| `UnlockMenu` | extends `DeviceLock` with the menus and their key timer |
| `UnlockMenuProofs` | theorems about `UnlockMenu` and `DeviceLock` |
| `AuthVariables`, `AuthVariablesProofs` | the authenticated variable library, and theorems about it |
| `BootManager`, `BootManagerProofs` | the device's boot manager and front page, and theorems about them |
| `Filtering`, `FilteringProofs` | a list without some of its members, as both of these compute it, and what it keeps |
| `MCABSlots`, `MCFastbootFlash`, `MCGptFlash`, `MCImageFlash`, `MCUnlockMenu`, `MCAuthVariables`, `MCBootManager` | instances for TLC |

### ABSlots

`attr` and `guid` are what the code keeps in `PtnEntries` for boot_a and
boot_b and for every partition with two slots; `gpt` is the table on the
device and `lun` the UFS boot LUN. A command is one step, because the loop
runs one at a time; the steps of a handler that can fail separately (reading
the LUN, setting it, allocating the list of partitions) are nondeterministic
choices inside it. `IsUpdatePartitionAttributes` is FALSE as in the source, so
the write-back is in the model and does nothing. `BootIntoFastboot` is TRUE as
in the source.

The actions: `LinuxLoaderEntry`; `ResetDevice` (reboot commands, keys, loss of
power); `CmdSetActive`, `CmdSetActiveNoSlot`, `CmdSetActiveComma` and
`CmdSetActiveFails`; `WriteBoot` (raw, failing, sparse and
refused flash or erase of a boot partition, with the slot named or not); four
outcomes of flashing a table; `CmdGetVar`; four outcomes of `continue` and
`boot`; `CmdRefused`; and, external, the started system marking its slot
successful. `wanted`, `session`, `tableKept` and `mishaps` are history
variables for the properties.

`set_active` takes every argument the code lets through. It refuses arguments
of three characters and more, and of the others only those of one or two that
are no substring of `"_a,_b,"` (`FastbootCmds.c:2138` and `2148`); an empty one
is not looked at. What is left is a slot (a, b, `_a`, `_b`), an argument that
reaches `SetActiveSlot` as the suffix `_` (none at all, `_`, and "a," and "b,",
to which no underscore can be added in the room there is), or one with a comma,
for which there is no boot partition (FAIL). The suffix `_` is compared as far
as it goes (`GetBootPartitionEntry`, `MarkPtnActive`), so it stands for both
slots: `SetActiveBoth` marks both active, and the type GUIDs are swapped. In
which order the slots' variables are then searched is that of the partitions in
the table, so either slot's may be set. An argument that is no part of "a" or
"b" makes that search run past its array; what follows is not modelled (`mode`
is "lost" until a reset). That only the GUIDs of a partition's own two copies
are swapped assumes, for the suffix `_`, that no partition with two slots is
called like another one with an underscore and more behind it.

`mishaps` records what the host is not told: a `set_active` without a slot
("both" while both are marked, "swapped" until the table is read again), a list
of partitions that could not be built ("memory"), and at the last `set_active`
a boot LUN that could not be read or set ("lun"). The properties say what holds
all the same, and except no more than what the mishap explains.

Data abstracted: the two priority bits and three retry bits are ranges with
symbolic maxima; a type GUID is "own" or "inactive", so `guid[p]` records
which copy has its own.

### FastbootFlash

The main loop, the flash threads and the timer callbacks are separate steps
over the globals of `FastbootCmds.c`, under their names there. An image is its
number. `job` is the part of `CmdFlash` that is on the stack while the main
thread writes; `deferred` and `okayDelayed` are the armed timers. A
partition's size is compared with the download buffer only, so a flash command
is "big", "equal", "small" or "raw".

`CmdFlash` from its entry to the start of the write is one step: no other step
can come between, as neither thread nor callback touches what it reads, and
taking the two locks is the step's guard. Where it answers FAIL after it has
swapped the buffers and before it writes (a lock, a merge, no such partition)
that is `CmdFlashRefused`. What changes nothing but the answer is left out: the
refusals of `CmdDownload` and of the battery check. `PromptThreads` says
whether a thread runs as soon as `ThreadResume` is called. The kernel protocol
is not in the repository, so both cases are checked; the promises that need a
prompt thread are checked and proved under that assumption, and
`flash_late_thread` shows what happens without it.

### GptFlash

A unit is a function from block numbers to contents; a content is a pair of
what was written and of which image. A write can be cut at any block, by an
error or by a power cut. An image is an id, the checks it would pass, and the
block its primary header names for the entries. The backup copy's place is
computed as in `PatchGpt`; the primary entries go where the image says, which
nothing in the code checks, so they may fall on any other part of the table or
off the unit. Then `WriteBlocks`, which is external, refuses (`WriteRefused`).
A copy is whole when its header is there and its entries are where the header
says; that the partition driver takes no other copy is external too. The two
entry arrays of one image are assumed to be of one table. Where the backup
header says it is itself (`PatchGpt` leaves 1 there, as in a primary header) is
the partition driver's affair and not in the model.

The number of a unit is a UINTN that is stored in an INT32 (`ToInt32`), and the
only check on it, after that, is an upper bound: a large number may stand for a
small one, or for a negative one, which indexes in front of `LunGuids`. That is
undefined, so the GUID found there may be any unit's or none's. -1 is `NO_LUN`,
which asks for eMMC: no unit of a UFS device, and answered with OKAY.

### ImageFlash

The unit of memory is a word: an image is a sequence of words in the download
buffer, the sparse header, a chunk header and a fill value take one each, and
a block of the device has `BlockSize` of them. Word number w of the image has
w as its contents, so that a partition shows where each of its words came
from. Sizes count words. Counters that are UINT32 in the code have `Wrap`
values, its UINT64 sums `Wrap * Wrap`, and `%` is written where the code lets
one wrap; the tests for overflow are those of the code.

Each write of `WriteToDisk` is a step, one per chunk, per fill block, per raw
image and per meta entry, and each may fail: nothing more is written, and a
part of it may have been. `WriteBlockToPartition`, which reads the last block,
fills in the image's part and writes it back, is inside that step, with the
read and the two writes failing separately. `cmd` is the command with its
image; the models do one command per behaviour, since nothing a handler keeps
outlives it (`CHECK_DEADLOCK FALSE`: the command ends). `readTo` and
`writtenTo` are history variables: how far the handlers have read and asked
for writes. A sound image also carries the `plan` it encodes: a list of
chunks, each with its kind and its number of blocks. `Encodes` says what it
means that an image encodes its plan, from the comments of `SparseFormat.h`
alone, and `Expanded` computes from the plan what the partition should hold,
independently of the handlers. `WellFormed` asks for both a plan and that the
image encodes it; all planned images of `MCImageFlash` do.

### DeviceLock and UnlockMenu

`DeviceLock` has the state of the device (`DevInfo`, misc, the unlock bit on
frp, the cached Virtual A/B message and the published merge state) and one
action per command: the lock commands where no menu asks, flash (raw, meta and
`avb_custom_key`), erase, `snapshot-update`, the reboots and `continue`, and
the start. A build is a record of the build-time tests the code makes.
`MergeGate` gives the outcomes of the Virtual A/B part of flash and erase,
which reads the status twice. `DeviceInfoInit` sets the flags instead of
reading them, so every start leaves the device unlocked: that is in
`FreshDevInfo`. `touched` is a history variable.

`UnlockMenu` adds the two menus. `UnlockMenuShowScreen` zeroes its record,
draws for a long time and then fills the record in three assignments, and the
key timer of the menu before goes on meanwhile; so the assignments are steps
(`SetMenuType`, `SetOptionNum`, `SetOptionIndex`, `StartDetection`) and
`MenuKeysHandler` may run between them. The timer is one-shot and set again
for 50 ms at the end of the handler
(`Library/BootLib/MenuKeysDetection.c:336`), so between two adjacent
assignments it runs at most once (`armed`), while drawing and in the idle loop
any number of times. `LastKey` and `IsRefresh` are the handler's statics.
`shown` and `pressed` are history variables: what the screen asks, and what it
asked when the power key went down.

### AuthVariables

`s` is what the variable store and the library's memory hold. A request is
processed in one step, because variable services do not nest; but it makes
several writes, and `Stored` gives each its outcomes: done, failed, or done
with power lost after it. `Then` continues after a write that was done, so
that the outcomes of a request are all the places where it can end. A start is
three steps (`Initialize`, `CleanCertsFromDb`, `FinishInitialize`), each again
with every write failing or the last.

A key is a model value, a signature list a sequence of keys, and a certificate
chain its signer. A request is (name, attributes, append, payload, time stamp,
signer), and the checks of PKCS#7 are `signer`. dbx and dbt go the way of db
and are not modelled beside it. Physical presence is `PlatformSecureLib`'s:
TRUE until the buttons can be asked. `by` and `last` are history variables.

A request for a private variable that is sent again after its signer was
recorded and the write of the variable failed finds an entry in `certdb`
already, and `InsertCertsToDb` asserts that there is none
(`AuthService.c:1770`).
The model goes on as a build without assertions does: the request fails.

### BootManager

`phase` follows BDS: registering the default options one call at a time, the
checks of power and temperature, the four questions about the buttons, and
then what was chosen. What BDS itself does between the device's callbacks is
external: it tries `BootNext`, then `BootOrder`; after an application that was
chosen by a button returns, it goes on with `BootOrder`. So are the edits of
the boot variables, by a started application or in the front page: they toggle
an option's ACTIVE bit, swap, delete, and create one option of the user's.
Variable policy is modelled as what it refuses.

All three of "Bootloader menu", "front page" and "alternate boot" ask for the
same volume-down state, so a front page or an alternate boot is only chosen
when the key changes between the questions. The model keeps the four reads
apart, as the code does (`reads`), and lets one key notification come between
them (`late`): they are asked one right after the other.

`locked` is what `BdsBootLockBootVariables` has locked: BootOrder, BootNext and
each option by itself, because every policy is registered separately and a
registration that fails is only logged. Without BootOrder no option is locked,
and without the event, the setting or the policy engine nothing is (`Locks`).
`slipped` records that something was left out. `early` and `slipped` are
history variables. A program that changes the device path of an option of the
firmware's from outside is not modelled.

## Runs

| Run | Checks | Bounds |
| --- | --- | --- |
| `slots` | all slot properties, and that `ABSlots` implements `SlotRegister`, on UFS with failing allocations, LUN queries and LUN writes | 2 tables (no active slot; b active and exhausted beside a proven a), the arguments a, b, `_b`, none, `_` and a comma |
| `slots_persist` | violation, see below | |
| `slots_raises` | violation, see below | |
| `flash_timer` | parallel flashing under the timer, with failing writes, timers and allocations | 4 images, 2 waiting commands |
| `flash_threads` | the same with prompt threads: that `FastbootFlash` implements `FlashQueue`, and that every image is written | 4 images, 2 waiting commands |
| `flash_late_answered` | answers with late threads | 3 images, 2 waiting commands |
| `flash_late_thread` | violation, see below | |
| `gpt` | table flashing with every kind of bad image, with entries in the right place, on the header, on the backup copy and off the unit; numbers that stand for the unit, for a negative one, for one that is too large, and none | 1 unit of 8 blocks, arrays of 2, 2 places for cuts, which halve the erasure and each array; an INT32 of 4 bits |
| `image_flash` | accesses, contents, acceptance and the critical list, for every image in the bounds | counters of 3 bits, sums of 6; 2 partitions of 28 words, blocks of 2; at most 2 arbitrary chunks, or 4 sound ones, or 3 meta entries |
| `device_lock` | lock state, merges, the wipe and the menus | 5 builds, 5 partitions |
| `auth_variables` | signers, owners, modes, vendor keys, with every write failing or the last | 2 signers, 1 private variable, 2 time stamps, lists of 2, 1 place in `certdb` |
| `boot_manager` | default options, the locked order with registrations that fail, the buttons | 2 default options and one of the user's, 4 numbers, 1 retry |

Why the bounds are enough.

Slots: the code compares a priority with zero and with another, and a retry
count with zero, so a maximum of 2 has all cases, and there are no counters
besides. Two partitions (boot and abl) are those `ValidateSlotGuids` compares.
The tables are a fresh device and one whose update has to fall back;
`set_active`, flash, erase, the boots that fail and the started system make the
other kinds of slots out of these. The arguments left out (`_a`, "a," and "b,", and a
comma with an underscore) each do what one that is there does.

Flash: there are two buffers, so the third image is the first to reuse one,
and the fourth the first after that; with two waiting commands one can come
before and one after a failure.

Tables: arrays of two blocks let a write be cut inside an array. Two images
are good: the factory's own table, so that a flash of what is there already is
a case, and another, so that an old and a new table can meet on a unit. Three
have their entries elsewhere, and four each fail one check. One unit is enough
to write one that was not named; for any number of them there is the proof.

Images: with 3 bits every counter can reach its limit within one chunk and
pass it within two, and 28 words let an announced size wrap in 6 bits; block
sizes of an image are the device's, two multiples of it, zero and one that is
no multiple. Four chunks put every kind between two others. A meta image may
hold two entries here and is given three.

Lock: menus and Virtual A/B are in different builds, because they meet in misc
only; with menus the host flashes and erases misc alone (`HostParts`), as the
other partitions do nothing to a menu, and a start leaves verity off.
Partitions are one per rule: critical, super, userdata (a Virtual A/B critical
one with a reset), system (verity), the custom key, and misc.

Variables: one place in `certdb` is already full after one signer; two time
stamps give an earlier and a later one; two signers an owner and another. A
behaviour uses one of three groups of names (`scope`): the PK with the modes,
the PK with KEK and db, or a private variable. They share the mode only, and
the PK that decides it is in the first two.

Boot manager: a default option is found, missing from the image or deleted;
two of them can change their order, and with the user's option another can
stand between. One retry has the first round and the last. Keys and edits are
in different behaviours: both only meet in what is booted.

What the passing runs show is stated with each property in the modules. Some
deserve a word.

* `CopiesAgree` holds because the whole unit is erased first and the result of
  the erasure is checked; its mutant, which writes over the old table, fails
  only when flashes that were cut leave parts of two tables.
* `FallbackToProven` and `BootedSlotSound` hold although the attributes are
  never saved, because the LUN is compared at every boot; and although a query
  or a write of the LUN may fail unnoticed, because a LUN that could not be
  read is taken for none.
* `ImplementsQueue` holds without threads because a command that arrives
  inside a write is put off, and the swap in `CmdFlash` is therefore never
  reached inside one. That needs the memory of `AcceptCmdTimerInit`, which
  `flash_timer` lets run out, so the case without threads is left to the
  proof, which assumes it.
* `AccessesInside` holds for arbitrary headers although one of the 64 bit sums
  a handler compares can wrap around and the block counter is only compared
  after a raw chunk has been written: `total_sz`, a field of 32 bits, bounds
  the data of a raw chunk, and the blocks of a fill chunk are each checked
  before they are written.
* `ConfirmedByUser` depends on one call of `ZeroMem`: without it (`Clear_Not`)
  a power key pressed while a menu is drawn confirms the request that is not
  yet on the screen.
* `SignerRecorded` and `OrphansCleared` together say that neither order of the
  two writes would do alone: the signer is written first so that there never
  is a variable without one, and what a cut leaves is cleaned at the next
  start.
* `PressHonoured` needs the alternate boot to be enabled. Without it, volume
  up before the first question and volume down right before the third are read
  as no case at all.

### What the violations show

* `slots_persist`: attribute changes are never written to the device, so the
  slot of `set_active` is forgotten by a restart while the boot LUN is not.
* `slots_raises`: `set_active` without a slot behind the colon is OKAYed and
  leaves both slots active, a with the lower priority.
* `flash_late_thread`: `WaitForFlashFinished` does not wait for a thread that
  has not yet run.

Each is stated in `PROJECT.json` with the line it is about and the comment it
contradicts.

Also in the models, without a run of their own:

* `set_active _a` switches the slot and then searches for the spelling in an
  array that only has "a" and "b", without a bound (`ScanFinds`,
  `Library/FastbootLib/FastbootCmds.c:2180`);
* no answer when the partition is exactly as large as the buffer (the kind
  "equal", `FastbootCmds.c:1949`);
* the flash thread drops the result of its write (`FastbootCmds.c:1358`);
* OKAY for the table of a unit that does not exist
  (`Library/BootLib/PartitionTableUpdate.c:1022`);
* out of memory in `GetMultiSlotPartsList` is not reported, so `set_active`
  answers OKAY with the GUIDs unswitched ("memory" in `mishaps`);
* nor is a boot LUN that cannot be set: `set_active` answers OKAY, and the slot
  is then refused because the LUN is the other one's ("lun",
  `PartitionTableUpdate.c:1430`, `1437` and `616`);
* OKAY for an image whose primary header puts its entries on top of that
  header or of the backup copy, which is then damaged
  (`PartitionTableUpdate.c:1110`);
* a number of 2^31 or more for a unit may index in front of `LunGuids`
  (`FastbootCmds.c:1796`), and 2^32 + 1 stands for unit 1;
* flashing another unit's table and then boot_a takes the default slot's
  attributes away, after which no slot can be selected (`FlashOtherTable`,
  `FastbootUpdateAttr`);
* `ParseSecondaryGpt` stays set, so that one check of `ParseGptHeader` is made
  only for the first table flashed;
* the lock state does not outlive a restart
  (`Library/BootLib/DeviceInfo.c:289`), and it stays changed when the wipe
  could not be written (`DeviceInfo.c:232`);
* a meta image is held against the Virtual A/B rules by the name of the
  command only, not by those of its entries (`FastbootCmds.c:1295`);
* `snapshot-update:merge` answers FAIL and then OKAY when the reboot fails
  (`FastbootCmds.c:2648`);
* verity is switched on again after a flash of system that failed
  (`FastbootCmds.c:1965`);
* the cleaning of `certdb` begins again from the start after every deletion,
  without end while a deletion keeps failing
  (`src/Platforms/SurfaceDuoFamilyPkg/Library/AuthVariableLib/AuthService.c:1920`);
* the policy that is switched off to change the keys is not switched on again,
  which `LockHolds` survives only because a reset follows every such change
  (`HandleSecureBootChange`, and its mutant).

### Fairness

Liveness is stated for parallel flashing only; the other models are about
single commands that end, or wait for a user or a host who need not come.
`FairSpec` has weak fairness of the main loop's steps together and of each
thread. The loop of `FastbootInitialize` never stops polling, timers are
periodic or re-armed, and the kernel schedules every runnable thread of the
one priority used (`UEFI_THREAD_PRIORITY`). The host is assumed to send the
data it announced (that step is in the main loop's), and nothing else: it may
stop sending commands. Writes end. Weak fairness of the loop as a whole is
enough, because no step of it can be enabled for ever while another is taken
for ever: a command is taken once, and data is finite.

Deadlock is checked in all runs but `image_flash`, where a behaviour is one
command and ends with it. In `FastbootFlash`, `HandleNoEvent` is the idle
loop; while the main thread writes it is not enabled, so a write that could
never end would show.

## Proofs

Every property a passing run checks is a theorem, for every value of the
constants that the ASSUMEs admit, except the two under "Only model-checked".
Each proof module has the theorems of one component. They rest on an inductive
invariant `Inv` with three facts (`Init => Inv`, `Inv /\ [Next]_vars => Inv'`,
`Inv` implies the property); its step has one lemma or case per action, and
the operators the actions are built from have lemmas of their own. Where a
theorem has a hypothesis, it is one the property needs: on the instances of
the runs TLC finds the property violated without it.

| Module | Theorem | States | Assumes |
| --- | --- | --- | --- |
| `ABSlotsProofs` | `TypeCorrect`, `OneActiveSlotAlways`, `BootedSlotAlwaysSound`, `PublishedAlwaysFaithful` | `TypeOK`, `OneActiveSlot`, `BootedSlotSound`, `PublishedFaithful` | |
| | `LoaderImplementsRegister` | `ImplementsRegister` | |
| | `GuidsAlwaysFollow`, `SetActiveAlwaysHolds`, `FallbackAlwaysProven` | `GuidsFollowActiveSlot`, `SetActiveHolds`, `FallbackToProven` | |
| `FastbootFlashProofs` | `FlashTypeCorrect` | `TypeOK` | |
| | `BuffersNeverShared` | `BufferNotShared` | `MultiThread => PromptThreads` |
| | `FailureAlwaysStopsFlashing` | `FailureStopsFlashing` | `~MultiThread` |
| | `FlashImplementsQueue` | `ImplementsQueue` | `Orderly` |
| | `EveryStepCounts` | every step lowers `Work` | `Orderly` |
| | `NobodyWaitsForNothing` | `Awaited` | `Answers` |
| `GptFlashProofs` | `GptTypeCorrect`, `CopiesAlwaysAgree`, `OkayAlwaysWritten`, `OnlyNamedLunsAreWritten` | `TypeOK`, `CopiesAgree`, `OkayMeansWritten`, `OnlyNamedLunsWritten` | |
| `ImageFlashProofs` | `ImageTypeCorrect`, `AccessesAlwaysInside`, `CriticalAlwaysKept` | `TypeOK`, `AccessesInside`, `CriticalKept` | |
| | `OkayAlwaysStored`, `GoodAlwaysAccepted` | `OkayMeansStored`, `GoodImageAccepted` | |
| | `CommandAlwaysEnds` | every step lowers `Left` | |
| `UnlockMenuProofs` | `MenuTypeCorrect`, `AlwaysConfirmedByUser`, `LockedAlwaysKeepsPartitions`, `SuperAlwaysCancelsMerge`, `WipeAlwaysKept` | `TypeOK`, `ConfirmedByUser`, `LockedKeepsPartitions`, `SuperCancelsMerge`, `WipeKept` | |
| `AuthVariablesProofs` | `AuthTypeCorrect`, `SignerAlwaysRecorded`, `OrphansAlwaysCleared`, `VendorKeysAlwaysKept`, `OwnerAlwaysChanges`, `KeyAlwaysGivesMode` | `TypeOK`, `SignerRecorded`, `OrphansCleared`, `VendorKeysKept`, `OwnerChanges`, `KeyGivesMode` | |
| `BootManagerProofs` | `BootTypeCorrect`, `DefaultsAlwaysOnce`, `LockAlwaysHolds`, `PressAlwaysHonoured` | `TypeOK`, `DefaultsOnce`, `LockHolds`, `PressHonoured` | |

### The assumptions

* `ABSlotsProofs` assumes nothing of what may fail or of how `set_active` is
  spelled: `ArgsAssumption` lists all arguments the code lets through. What a
  failure takes away is said by the properties themselves (`mishaps`).
* `Orderly`: a thread runs when it is resumed, before the loop goes on, or
  there are no threads and `AcceptCmdTimerInit` has its memory.
  `BuffersNeverShared` does without the second half and lets every fault
  happen. With late threads the loop can overtake a thread
  (`flash_late_thread`). `FailureStopsFlashing` is about the timer: a thread
  drops the result of its write.
* `Answers`: `Orderly`, and neither of the two ways in which `CmdFlash` returns
  without a word: no memory for `ThreadFlashInfo`, and a partition exactly as
  large as the download buffer (the kind "equal"), both listed above.
* ASSUMEs that the proofs turned out to need, each a fact of the code: no key
  and no option is the value that stands for none; private variables are not
  called PK, KEK or db; the numbers of boot options are more than the default
  options (65536 against a short list); the download buffer holds what was
  downloaded, whatever the image says of itself.

### The arguments

*Slots.* `SlotInv` adds to the types that the attributes on the device have
at most one active slot, and those in memory too, or else at least one that can
be found, after a `set_active` without a slot (`SaneAttrs`): a reset replaces
the second by the first. `BootedSlotSound` needs only this, because
`BootActiveSlot` checks the rest itself. `PublishedInv` adds to the published
variables that the first-boot default is past, since `GetActiveSlot` would
otherwise change an entry that has been published. `GuidInv` says that GUIDs
follow on the device too, and, as long as "memory" was not noted, that
`HeadNode` is empty or whole and that the GUIDs in memory name one slot:
`SwitchPtnSlots` only swaps, so it is right only if it starts from GUIDs that
agree and swaps all of them. `SessionInv` says what a `set_active` has
established while the loader runs. For the refinement each command is a step of
the register or a stutter; that of `set_active` without a slot is `Tear`, after
which what the register reads as is open until the next choice.

*Parallel flashing.* `FlashInv` has three parts: `Protocol` (which of the
host, the loop and the timers owes the next step), `Flight` (at most one image
is in flight, in the buffer that does not receive, and `ordered` is `written`
plus that image) and `Timers` (USB is served or a command waits only during a
flash that is announced as incomplete). `Flight` alone is not inductive: that
a flash command finds no flight open follows from `Timers` without threads and
from the locks with them. `TypeInv`, which needs no orderly kernel, replaces
all of this by whose turn it is, and `Apart` and `FailureKept` are what is
left of `Flight` when the timer may fail.

Two theorems are the safety half of what the runs check as liveness. `Awaited`
says who owes the host its answer: the command itself, one that was put off,
a delayed OKAY, the write that will answer, or the data still expected; and
that whatever these wait for is at work (no flash is incomplete without its
writer, no download lock held without its receiver). `Work` weighs every
image and command by the place it is in, such that each step, of the host, the
loop, a callback or a thread, lowers it. Together they leave to TLC only that
a step that is owed is enabled and, under the fairness assumed, taken.

*Tables.* `GptInv` has three parts beside the types. `OneTable`: everything on
a unit is of one table or erased. An erasure that is cut leaves parts of the
old table only; one that is whole leaves nothing that a new part could
contradict. `TableProgress`: which of the six writes are done when the next one
is due, and that each is still there unless a later one was aimed at the same
blocks (`Spared`); since all places but that of the primary entries are fixed,
only those can be. `LunNamed`: the number in `Lun`, and the unit being written,
go back to a number of the host's.

*Images.* `ImageInv` says what the header checks established for as long as
chunks are read, that the word to read next is in the download, and that a
fill chunk has its value behind it. The lemma that carries the proof is
`RawFits`: the sum in `ChunkFits` is computed in 64 bits and may wrap, but not
for a raw chunk that passed the comparison of its data with `total_sz`, whose
32 bits bound the product.

What is stored needs `StoredInv`: as long as a command with a well-formed
image runs, the partition holds the expanded image up to the
next block and old words behind it (`UpTo`), `Chunk`, `TotalBlocks` and
`Image` are the place where one chunk of the plan ends and the next begins
(`AtChunk`), inside a fill chunk the value is the one its header announces
(`AtBlock`), and a meta image has its first entries written (`AtEntry`). The
places are sums over the plan; that they grow and stay below the last one is
`SumsGrow`, that the block of a word determines its chunk `ExpandedIn`, and
that blocks written one behind the other make up an image, its last, partly
filled block included, `BlocksLand` and `ImageLands`.
That no check refuses such an image is `GoodChunk`: since the whole image fits
a partition whose size is a 64 bit number, none of the sums compared wraps.
`Left` counts the steps a command can still take.

*Menus.* `MenuInv` follows the drawing of a menu: `FastbootShape` and
`UnlockShape` are the records a key can find between any two assignments,
`Drawing`, `Asked` and `Turns` say which half drawn menu goes with which place
in `UnlockMenuShowScreen`, and `Shows` is the property itself while the power
key is down. The other three properties need the types and a case for each
command.

*Variables.* The outcomes of a handler are a set, so the lemmas have one form:
from a store with some property all outcomes lie in `Outcomes(X, Y)`, stores
of X, and of Y when the operation succeeded; `Then` composes such facts as it
composes writes. `AuthInv` says that the signers recorded cover the variables
and more (`SignerKept`), that the nonvolatile copy of the vendor key state is
never behind, that PK, KEK and db are nonvolatile, and what each phase of a
start has established. `CleanCertsFromDb` needs `Without`.

*Boot manager.* `LockInv` says when nothing can be locked yet, that policy is
off only in a front page that can but reset, and that what was locked is in the
order and, where nothing slipped, all there is of it (`Covered`). It rests on
`OrderInv`: the order repeats no number, its numbers are those of options, and
their names differ; that an option to add finds a free number is then a count
of names against numbers. `KeyInv` relates the answers given so far to one
press and where a second came between them. Types (`RestOK`) need both.

### Only model-checked

`Answered` and `AllWritten`: liveness under fairness, which needs ENABLED and is
out of the prover's reach. Their safety half is proved (`Awaited`, `Work`).

The library's induction theorems take an operator and no installed prover can
instantiate them. What the proofs need of a recursive function (`Without` in
`Filtering`, `Sums` in `ImageFlash`) is shown with induction over a set
instead (`SetInduction`: a set that has 0 and with each n also n + 1 contains
Nat), which follows from the least element of a set.

## Not modelled

* NAND storage and UBI images: other devices, and a flasher outside the
  repository.
* Verified boot, which the build leaves out, and with it rollback indices, the
  RPMB key and the boot menus.
* Device tree, command line and kernel placement: computations in a straight
  line that keep nothing.
* Drawing and consoles; passwords, the pages of the front page, network
  start-up and the USB device path filter.
* USB disconnects and descriptors.
* Parsing of certificates and signature lists: a request passes a check or
  does not.
* Platform drivers and data; the vendored libraries (OpenSSL's glue, zlib,
  libfdt, libavb).

The reasons, part by part, are in `PROJECT.json`. Most of the repository's
lines are of these kinds. Of 122,000 lines of code the models stand for a few
thousand: most of the rest are vendored, are headers that declare protocols
and register layouts, are tables, or draw and print. A model of them would
have no state or no choice in it, and nothing to be wrong in an order a test
would not reach.

## Plan

1. Done: `ABSlots`, `FastbootFlash`, `GptFlash` with their abstract
   specifications, runs and first theorems; `ImageFlash`, `DeviceLock` with
   `UnlockMenu`, `AuthVariables`, `BootManager` with their runs.
2. Done: the theorems above, which leave no safety property unproved.
3. `UsbSession`: connection events, `ProcessBulkXfrComplete*` and the data
   phase, composed with `FastbootFlash`, for disconnects in the middle of a
   download.
4. Composition of `GptFlash` with `ABSlots`, so that a table that was cut is
   what the slots are next read from.
5. `BootImage`: the placement of kernel, ramdisk and device tree in
   `BootLinux`; `ThreadStack`.
