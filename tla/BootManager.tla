---------------------------- MODULE BootManager ----------------------------
(***************************************************************************)
(* The boot manager of SurfaceDuoFamilyPkg: the device's part of BDS       *)
(* (DeviceBootManagerLib.c), the default boot options (MsBootOptionsLib.c) *)
(* the buttons that choose what to boot (MsBootPolicyLib.c, GpioButtons.c) *)
(* and the front page with its settings (FrontPage.c, FrontPageUi.c).      *)
(*                                                                         *)
(* Everything runs in one thread but the key notification, which may come  *)
(* between any two reads of the button state.  What BDS itself does, and   *)
(* what a started option writes, is external and marked so.                *)
(***************************************************************************)
EXTENDS Naturals, Sequences, FiniteSets, SequencesExt, Filtering

CONSTANTS
  Defaults,  \* the default options in the order of their registration
  Shell,     \* the one that is deleted when it is not in the image
  Own,       \* an option of the user's
  Numbers,   \* the numbers of Boot#### variables
  Images,    \* which default options an image has the files of
  Scopes,    \* what may happen in one behaviour: "edits" and "keys"
  Retries,   \* PcdPowerAndThermalRetries
  MayFail,   \* may a write of a variable, a lookup or memory fail?
  None       \* no option, no key, no variable

Option == [name : Range(Defaults) \union {Own}, active : BOOLEAN]

ASSUME BootAssumption ==
  /\ Defaults \in Seq(STRING) /\ Shell \in Range(Defaults)
  /\ Own \notin Range(Defaults)
  /\ Numbers \subseteq Nat /\ Len(Defaults) < Cardinality(Numbers)
  /\ Images \subseteq SUBSET Range(Defaults)
  /\ Retries \in Nat /\ MayFail \in BOOLEAN
  /\ None \notin {"BootloaderMenu", "UFP", "NetworkUnlock", "AltBoot", "FrontPage"}
  /\ None \notin Option

VARIABLES
  scope, image,
  BootOrder, Boot,  \* Boot[n] is the variable Boot####, or None
  BootNext, OsIndications,
  Settings,         \* DFCI settings: BOOT_ORDER_LOCK and ALT_BOOT
  phase, step,
  RetryCount,
  ButtonState, reads,
  early,            \* history: was a key pressed before the first question,
  late,             \* and after it?
  queue,            \* what BDS tries next
  locked,           \* are BootOrder and BootNext locked, and which Boot####?
  slipped,          \* history: was there one that could not be locked?
  policy,           \* is variable policy in force?
  ready,            \* has ReadyToBoot been signalled?
  MsBootNext, mResetRequired

stored == <<image, BootOrder, Boot, BootNext, OsIndications, Settings>>
select == <<ButtonState, reads, early, late>>
protect == <<locked, slipped, policy, ready>>
page == <<MsBootNext, mResetRequired>>
vars == <<scope, stored, phase, step, RetryCount, select, queue, protect, page>>

Listed == Range(BootOrder)
Unlocked == [order |-> FALSE, next |-> FALSE, options |-> {}]

-----------------------------------------------------------------------------
(***************************************************************************)
(* Starting and the default options                                        *)
(***************************************************************************)
\* What only memory and volatile variables hold.
Restarted ==
  /\ step' = 1 /\ RetryCount' = Retries
  /\ ButtonState' = None /\ reads' = <<>> /\ early' = FALSE /\ late' = FALSE
  /\ queue' = <<>> /\ locked' = Unlocked /\ slipped' = FALSE /\ policy' = TRUE
  /\ ready' = FALSE /\ MsBootNext' = FALSE /\ mResetRequired' = FALSE

TurnOff == phase' = "off" /\ Restarted /\ UNCHANGED scope

\* RebootToFrontPage.
RebootToFrontPage ==
  /\ TurnOff
  /\ OsIndications' \in {TRUE} \union (IF MayFail THEN {OsIndications} ELSE {})
  /\ UNCHANGED <<image, BootOrder, Boot, BootNext, Settings>>

\* Power on.  The image may have been flashed anew.
PowerOn ==
  /\ phase = "off" /\ phase' = "register"
  /\ image' \in Images
  /\ UNCHANGED <<scope, BootOrder, Boot, BootNext, OsIndications, Settings, step,
                 RetryCount, select, queue, protect, page>>

\* The numbers of the options EfiBootManagerGetLoadOptions returns.
Options(name) == {n \in Listed : Boot[n] # None /\ Boot[n].name = name}

\* Mutant of Registered: an option the user switched off is not found.
Registered_Active(d) == \E n \in Options(d) : Boot[n].active

\* The two searches of RegisterFvBootOption, for an active and an inactive
\* option.
Registered(d) == Options(d) # {}

\* EfiBootManagerAddLoadOptionVariable at the end of the order.
AddOption(name) ==
  LET free == {n \in Numbers : n \notin Listed}
      n == CHOOSE m \in free : \A k \in free : m <= k
  IN /\ BootOrder' = Append(BootOrder, n)
     /\ Boot' = [Boot EXCEPT ![n] = [name |-> name, active |-> TRUE]]

\* EfiBootManagerDeleteLoadOptionVariable for each of ns.
DeleteOptions(ns) ==
  /\ BootOrder' = Without(BootOrder, ns)
  /\ Boot' = [n \in Numbers |-> IF n \in ns THEN None ELSE Boot[n]]

\* RegisterFvBootOption.  An option that cannot be written is only asserted;
\* a shell that cannot be looked up is taken for one that is not there.
RegisterFvBootOption(d) ==
  \/ d \in image /\ ~Registered(d) /\ AddOption(d)
  \/ d = Shell /\ (d \notin image \/ MayFail) /\ DeleteOptions(Options(d))
  \/ d \in image /\ ~Registered(d) /\ MayFail /\ UNCHANGED <<BootOrder, Boot>>
  \/ /\ IF d \in image THEN Registered(d) ELSE d # Shell
     /\ UNCHANGED <<BootOrder, Boot>>

\* One call in MsBootOptionsLibRegisterDefaultBootOptions.
RegisterNext ==
  /\ phase = "register"
  /\ RegisterFvBootOption(Defaults[step])
  /\ IF step < Len(Defaults) THEN step' = step + 1 /\ phase' = phase
     ELSE step' = 1 /\ phase' = "checks"
  /\ UNCHANGED <<scope, image, BootNext, OsIndications, Settings, RetryCount, select,
                 queue, protect, page>>

-----------------------------------------------------------------------------
(***************************************************************************)
(* The checks before booting                                               *)
(***************************************************************************)
\* Mutant of MoreRetries: one retry too many.
MoreRetries_Again == RetryCount >= 0

\* RetryCount-- > 0
MoreRetries == RetryCount > 0

\* A round of the loop in MsPreBootChecks.  A power problem that could be
\* helped is looked at again, as long as there are retries.
PreBootRound(power, thermal) ==
  /\ phase = "checks"
  /\ RetryCount' = RetryCount - 1
  /\ power # "failed" /\ MoreRetries
  /\ ~(power = "good" /\ thermal)
  /\ UNCHANGED <<scope, stored, phase, step, select, queue, protect, page>>

\* The end of the loop; an event that cannot be created is the end, too.
PreBootDone(power, thermal) ==
  /\ phase = "checks" /\ phase' = "select"
  /\ power = "good" /\ thermal
  /\ UNCHANGED <<scope, stored, step, RetryCount, select, queue, protect, page>>

\* ThermalFailureShutdown or PowerFailureShutdown.
PreBootShutdown(power, thermal) ==
  /\ phase = "checks"
  /\ power = "failed" \/ (~MoreRetries /\ ~(power = "good" /\ thermal))
  /\ TurnOff /\ UNCHANGED stored

PreBootChecks ==
  \E power \in {"good", "mitigated", "failed"}, thermal \in BOOLEAN :
    \/ PreBootRound(power, thermal)
    \/ PreBootDone(power, thermal)
    \/ PreBootShutdown(power, thermal)

-----------------------------------------------------------------------------
(***************************************************************************)
(* The buttons                                                             *)
(***************************************************************************)
Selecting == phase \in {"register", "checks", "select"}

\* KeyNotify of GpioButtons, in the timer of the keyboard driver: between the
\* first question and the last it comes at most once.
KeyNotify(key) ==
  /\ Selecting /\ "keys" \in scope
  /\ ButtonState' = key
  /\ IF step > 1 /\ phase = "select" THEN ~late /\ late' = TRUE /\ UNCHANGED early
     ELSE early' = TRUE /\ UNCHANGED late
  /\ UNCHANGED <<scope, stored, phase, step, RetryCount, reads, queue, protect, page>>

\* The four questions of DeviceBootManagerPriorityBoot, in their order.
Questions == <<"FrontPageBoot", "BootloaderMenuBoot", "UFPBoot", "AltDeviceBoot">>

\* The answers MsBootPolicyLib may give.  Only UFPBoot asks for volume up; a
\* setting that cannot be read allows the alternate boot.
Answers(question) ==
  CASE question = "UFPBoot" -> {ButtonState = "up"}
    [] question = "AltDeviceBoot" ->
         {Settings.alt /\ ButtonState = "down"}
         \union (IF MayFail THEN {ButtonState = "down"} ELSE {})
    [] OTHER -> {ButtonState = "down"}

AskButtons ==
  /\ phase = "select" /\ step <= Len(Questions)
  /\ \E a \in Answers(Questions[step]) : reads' = Append(reads, a)
  /\ step' = step + 1
  /\ UNCHANGED <<scope, stored, phase, RetryCount, ButtonState, early, late, queue, protect,
                 page>>

\* Mutant of Choice: the alternate boot is not looked for.
Choice_NoAlt(r) ==
  CASE r[2] -> "BootloaderMenu" [] ~r[2] /\ r[3] -> "UFP"
    [] ~r[2] /\ ~r[3] /\ r[1] -> "FrontPage" [] OTHER -> None

\* The five cases.
Choice(r) ==
  CASE r[2] -> "BootloaderMenu"
    [] ~r[2] /\ r[3] -> "UFP"
    [] ~r[2] /\ ~r[3] /\ r[4] -> IF r[1] THEN "NetworkUnlock" ELSE "AltBoot"
    [] ~r[2] /\ ~r[3] /\ ~r[4] /\ r[1] -> "FrontPage"
    [] OTHER -> None

\* The case that applies.
Chosen == IF Len(reads) = Len(Questions) THEN Choice(reads) ELSE None

-----------------------------------------------------------------------------
(***************************************************************************)
(* ReadyToBoot                                                             *)
(***************************************************************************)
\* What a deletion of BootNext leaves.
AfterDelete(next) == {None} \union (IF MayFail THEN {next} ELSE {})

AllLocked == [order |-> TRUE, next |-> TRUE, options |-> Listed]

\* What BdsBootLockBootVariables locks. Each registration of a policy may
\* fail, which is only logged; without BootOrder no option is locked, and
\* without the event, the setting or the policy engine nothing is.
Locks ==
  IF MayFail THEN [order : BOOLEAN, next : BOOLEAN, options : SUBSET Listed]
  ELSE {AllLocked}

\* PreReadyToBoot, which closes its event. With the lock setting BootOrder,
\* BootNext and the options are locked, BootNext after it was deleted, if it
\* could be.
PreReadyToBoot(next) ==
  /\ ready' = TRUE
  /\ IF ~ready /\ Settings.lock
     THEN /\ locked' \in Locks /\ slipped' = (locked' # AllLocked)
          /\ BootNext' \in AfterDelete(next)
     ELSE locked' = locked /\ slipped' = slipped /\ BootNext' = next
  /\ UNCHANGED policy

\* The end of DeviceBootManagerPriorityBoot, and what BDS makes of it
\* (external): the chosen application or the front page is started, or else
\* BootNext, which is deleted, and BootOrder are tried.
PriorityBoot ==
  /\ phase = "select" /\ step > Len(Questions)
  /\ ButtonState' = None
  /\ LET front == Chosen = "FrontPage" \/ (Chosen = None /\ OsIndications)
     IN IF front
        THEN /\ phase' = "frontpage" /\ OsIndications' = FALSE /\ queue' = <<>>
             /\ BootNext' \in AfterDelete(BootNext)
             /\ UNCHANGED protect
        ELSE IF Chosen # None
        THEN /\ phase' = "running" /\ queue' = BootOrder
             /\ PreReadyToBoot(BootNext) /\ UNCHANGED OsIndications
        ELSE /\ phase' = "boot" /\ BootNext' = None
             /\ queue' = (IF BootNext = None THEN <<>> ELSE <<BootNext>>) \o BootOrder
             /\ UNCHANGED <<OsIndications, protect>>
  /\ UNCHANGED <<scope, image, BootOrder, Boot, Settings, step, RetryCount, reads,
                 early, late, page>>

\* BDS (external) tries the next active option.
TryNext ==
  /\ phase = "boot" /\ queue # <<>>
  /\ queue' = Tail(queue)
  /\ LET o == Boot[Head(queue)]
     IN IF o # None /\ o.active THEN phase' = "running" /\ PreReadyToBoot(BootNext)
        ELSE UNCHANGED <<phase, BootNext, protect>>
  /\ UNCHANGED <<scope, image, BootOrder, Boot, OsIndications, Settings, step,
                 RetryCount, select, page>>

\* DeviceBootManagerProcessBootCompletion, when the option returns.
ProcessBootCompletion ==
  /\ phase = "running"
  /\ IF MsBootNext THEN RebootToFrontPage
     ELSE /\ phase' = "boot"
          /\ UNCHANGED <<scope, stored, step, RetryCount, select, queue, protect, page>>

\* DeviceBootManagerUnableToBoot.
UnableToBoot == phase = "boot" /\ queue = <<>> /\ RebootToFrontPage

-----------------------------------------------------------------------------
(***************************************************************************)
(* Changes to the boot variables (external)                                *)
(***************************************************************************)
\* What policy lets be written.
OrderWritable == ~locked.order \/ ~policy
NextWritable == ~locked.next \/ ~policy
OptionWritable(n) == n \notin locked.options \/ ~policy

Editing ==
  /\ phase \in {"frontpage", "running", "bootnow"} /\ "edits" \in scope
  /\ UNCHANGED <<scope, image, OsIndications, Settings, phase, step, RetryCount, select,
                 queue, protect>>

Reorder ==
  /\ Editing /\ OrderWritable
  /\ \E i, j \in DOMAIN BootOrder :
       i < j /\ BootOrder' = [BootOrder EXCEPT ![i] = BootOrder[j], ![j] = BootOrder[i]]
  /\ UNCHANGED <<Boot, BootNext, page>>

Switch(n) ==
  /\ Editing /\ n \in Listed /\ OptionWritable(n)
  /\ Boot' = [Boot EXCEPT ![n].active = ~@]
  /\ UNCHANGED <<BootOrder, BootNext, page>>

Delete(n) ==
  /\ Editing /\ n \in Listed /\ OrderWritable /\ OptionWritable(n)
  /\ DeleteOptions({n})
  /\ UNCHANGED <<BootNext, page>>

Create ==
  /\ Editing /\ OrderWritable /\ Options(Own) = {}
  /\ AddOption(Own)
  /\ UNCHANGED <<BootNext, page>>

\* MsBootNext is set by the front page's boot menu.
ChooseNext(n) ==
  /\ Editing /\ n \in Listed /\ NextWritable
  /\ BootNext' = n /\ MsBootNext' = (MsBootNext \/ phase = "frontpage")
  /\ UNCHANGED <<BootOrder, Boot, mResetRequired>>

-----------------------------------------------------------------------------
(***************************************************************************)
(* The front page                                                          *)
(***************************************************************************)
\* A setting is changed (external).
ChangeSetting(name) ==
  /\ phase = "frontpage"
  /\ Settings' = [Settings EXCEPT ![name] = ~@]
  /\ UNCHANGED <<scope, image, BootOrder, Boot, BootNext, OsIndications, phase,
                 step, RetryCount, select, queue, protect, page>>

\* Mutant of ResetAfter: a reset is asked for when the keys were changed.
ResetAfter_Changed(ok) == ok

\* HandleSecureBootChange asks for a reset whether or not the keys could be
\* changed, or the user went on.
ResetAfter(ok) == TRUE

\* HandleSecureBootChange.  Policy is switched off to change the keys, and
\* stays off.
HandleSecureBootChange ==
  /\ phase = "frontpage"
  /\ \E submitted, ok \in BOOLEAN :
       /\ ok => submitted
       /\ policy' = (policy /\ ~submitted)
       /\ mResetRequired' = (mResetRequired \/ ResetAfter(ok))
  /\ UNCHANGED <<scope, stored, phase, step, RetryCount, select, queue, locked, slipped,
                 ready, MsBootNext>>

\* HandleRebootToFrontPage.
HandleRebootToFrontPage ==
  /\ phase = "frontpage"
  /\ \/ OsIndications' = TRUE /\ mResetRequired' = TRUE
     \/ MayFail /\ UNCHANGED <<OsIndications, mResetRequired>>
  /\ UNCHANGED <<scope, image, BootOrder, Boot, BootNext, Settings, phase, step,
                 RetryCount, select, queue, protect, MsBootNext>>

\* The end of the front page's UefiMain with a reset.
LeaveByReset ==
  /\ phase = "frontpage" /\ mResetRequired
  /\ TurnOff /\ UNCHANGED stored

\* ProcessBootNext without BootNext; BDS tries BootOrder.
LeaveToBoot ==
  /\ phase = "frontpage" /\ ~mResetRequired /\ BootNext = None
  /\ phase' = "boot" /\ queue' = BootOrder
  /\ UNCHANGED <<scope, stored, step, RetryCount, select, protect, page>>

\* ProcessBootNext with BootNext, which is deleted before it is booted.
BootNextNow ==
  /\ phase = "frontpage" /\ ~mResetRequired /\ BootNext # None
  /\ \E next \in AfterDelete(BootNext) :
       IF Boot[BootNext] # None
       THEN /\ phase' = "bootnow" /\ PreReadyToBoot(next)
            /\ UNCHANGED <<scope, image, BootOrder, Boot, OsIndications, Settings,
                           step, RetryCount, select, queue, page>>
       ELSE /\ TurnOff /\ BootNext' = next
            /\ OsIndications' \in {TRUE} \union (IF MayFail THEN {OsIndications} ELSE {})
            /\ UNCHANGED <<image, BootOrder, Boot, Settings>>

\* The option that was booted from the front page returns.
BootNextReturns == phase = "bootnow" /\ RebootToFrontPage

\* The power goes, or what was started resets the device.
PowerOff == phase # "off" /\ TurnOff /\ UNCHANGED stored

Init ==
  /\ scope \in Scopes /\ image \in Images
  /\ BootOrder = <<>> /\ Boot = [n \in Numbers |-> None] /\ BootNext = None
  /\ OsIndications = FALSE /\ Settings \in [lock : BOOLEAN, alt : BOOLEAN]
  /\ phase = "off" /\ step = 1
  /\ RetryCount = Retries
  /\ ButtonState = None /\ reads = <<>> /\ early = FALSE /\ late = FALSE
  /\ queue = <<>> /\ locked = Unlocked /\ slipped = FALSE
  /\ policy = TRUE /\ ready = FALSE /\ MsBootNext = FALSE /\ mResetRequired = FALSE

Next ==
  \/ PowerOn \/ RegisterNext \/ PreBootChecks
  \/ \E key \in {"up", "down"} : KeyNotify(key)
  \/ AskButtons \/ PriorityBoot \/ TryNext \/ ProcessBootCompletion
  \/ UnableToBoot
  \/ Reorder \/ Create
  \/ \E n \in Numbers : Switch(n) \/ Delete(n) \/ ChooseNext(n)
  \/ \E name \in {"lock", "alt"} : ChangeSetting(name)
  \/ HandleSecureBootChange \/ HandleRebootToFrontPage
  \/ LeaveByReset \/ LeaveToBoot \/ BootNextNow \/ BootNextReturns
  \/ PowerOff

Spec == Init /\ [][Next]_vars

-----------------------------------------------------------------------------
(***************************************************************************)
(* Properties                                                              *)
(***************************************************************************)
\* The type invariant.
TypeOK ==
  /\ scope \in Scopes /\ image \in Images
  /\ BootOrder \in Seq(Numbers) /\ Boot \in [Numbers -> Option \union {None}]
  /\ BootNext \in Numbers \union {None} /\ OsIndications \in BOOLEAN
  /\ Settings \in [lock : BOOLEAN, alt : BOOLEAN]
  /\ phase \in {"off", "register", "checks", "select", "frontpage", "boot",
               "running", "bootnow"}
  /\ step \in 1..(Len(Defaults) + Len(Questions)) /\ RetryCount \in 0..Retries
  /\ ButtonState \in {None, "up", "down"}
  /\ reads \in Seq(BOOLEAN) /\ Len(reads) <= Len(Questions) /\ early \in BOOLEAN
  /\ late \in BOOLEAN
  /\ queue \in Seq(Numbers)
  /\ locked \in [order : BOOLEAN, next : BOOLEAN, options : SUBSET Numbers]
  /\ slipped \in BOOLEAN /\ policy \in BOOLEAN /\ ready \in BOOLEAN
  /\ MsBootNext \in BOOLEAN /\ mResetRequired \in BOOLEAN

\* However often the device starts, whatever the user reorders, switches off
\* or deletes in between and whatever the images hold, BootOrder has every
\* default option at most once (RegisterFvBootOption).
DefaultsOnce ==
  \A d \in Range(Defaults) : Cardinality(Options(d)) <= 1 /\ IsInjective(BootOrder)

\* From the first ReadyToBoot to the reset, what was locked stays as it is,
\* whatever could not be locked next to it and although the front page
\* switches policy off to change keys; and where the boot order lock is set
\* and each variable could be locked, nothing that was booted can change what
\* is booted next (BdsBootLockBootVariables, HandleSecureBootChange).
LockHolds ==
  [][ready /\ ready' =>
       /\ locked.order => BootOrder' = BootOrder
       /\ locked.next => BootNext' \in {BootNext, None}
       /\ \A n \in locked.options : Boot'[n] = Boot[n]
       /\ Settings.lock /\ ~slipped =>
            /\ BootOrder' = BootOrder /\ BootNext' \in {BootNext, None}
            /\ \A n \in Listed : Boot'[n] = Boot[n]]_vars

\* A volume key pressed before the buttons are asked is never ignored, even
\* when another key is pressed between the questions, where the alternate
\* boot is enabled (DeviceBootManagerPriorityBoot).
PressHonoured ==
  [][phase = "select" /\ phase' \notin {"select", "off"} /\ early /\ Settings.alt
     => Chosen # None]_vars
=============================================================================
