-------------------------- MODULE BootManagerProofs --------------------------
(***************************************************************************)
(* Proofs about BootManager: that a volume key pressed early is honoured,  *)
(* that no default option is there twice, that what is locked stays what   *)
(* it is, and the types, for all default options, numbers, images and      *)
(* retries, and with every write free to fail.                             *)
(*                                                                         *)
(* The keys need an invariant that says what the answers given so far      *)
(* were, with a key pressed between two of them.  The default options need *)
(* to know that the names in the order differ, and then by counting them   *)
(* that an option to add finds a free number.  The lock rests on that: a   *)
(* new option is not a locked one.  It has an invariant of its own because *)
(* three things written at different times have to agree: what             *)
(* PreReadyToBoot could lock, what the order is when something runs, and   *)
(* that policy is in force, although the front page switches it off to     *)
(* change keys.                                                            *)
(***************************************************************************)
EXTENDS BootManager, FilteringProofs, FiniteSetTheorems

-----------------------------------------------------------------------------
(***************************************************************************)
(* The buttons                                                             *)
(***************************************************************************)
\* The answer to question i while key is the one last pressed.
Answer(i, key) == IF i = 3 THEN key = "up" ELSE key = "down"

\* The answers are those of one key up to question j, and of the last one
\* pressed from there on; without a late key they are all of the same.
KeyInv ==
  /\ phase \in {"off", "checks"} => step = 1
  /\ phase = "off" => ~early
  /\ phase \in {"off", "register", "checks"} => ~late /\ reads = <<>>
  /\ phase = "select" => reads \in Seq(BOOLEAN) /\ Len(reads) = step - 1
                         /\ step \in 1..5
  /\ phase \in {"register", "checks", "select"} /\ early =>
       ButtonState \in {"up", "down"}
  /\ phase = "select" /\ early /\ Settings.alt =>
       \E j \in 0..Len(reads), key \in {"up", "down"} :
         /\ ~late => key = ButtonState
         /\ \A i \in 1..Len(reads) :
              reads[i] = Answer(i, IF i <= j THEN key ELSE ButtonState)


\* After the buttons were asked nothing is left to be said of them.
LEMMA KeysForgotten ==
  phase' \in {"frontpage", "boot", "running", "bootnow"} => KeyInv'
BY DEF KeyInv

LEMMA TurnOffKeys == TurnOff => KeyInv'
<1> SUFFICES ASSUME TurnOff PROVE KeyInv'
  OBVIOUS
<1>1. phase' = "off" /\ step' = 1 /\ ~early' /\ ~late' /\ reads' = <<>>
  BY DEF TurnOff, Restarted
<1>2. QED
  BY <1>1 DEF KeyInv

LEMMA QuestionCount == Len(Questions) = 4
BY DEF Questions

\* One question more, answered by the key that is the last one now.
LEMMA AskKeeps == KeyInv /\ AskButtons => KeyInv'
<1> SUFFICES ASSUME KeyInv, AskButtons PROVE KeyInv'
  OBVIOUS
<1>1. /\ phase = "select" /\ step \in 1..4 /\ step' = step + 1
      /\ UNCHANGED <<Settings, phase, ButtonState, early, late>>
  BY QuestionCount DEF AskButtons, KeyInv, stored
<1>2. PICK a \in Answers(Questions[step]) : reads' = Append(reads, a)
  BY DEF AskButtons
<1>3. reads \in Seq(BOOLEAN) /\ Len(reads) = step - 1
  BY <1>1 DEF KeyInv
<1>4. a \in BOOLEAN /\ (Settings.alt => a = Answer(step, ButtonState))
  <2>1. CASE step = 3
    <3>1. Questions[step] = "UFPBoot"
      BY <2>1 DEF Questions
    <3>2. QED
      BY <1>2, <2>1, <3>1 DEF Answers, Answer
  <2>2. CASE step = 4
    <3>1. Questions[step] = "AltDeviceBoot"
      BY <2>2 DEF Questions
    <3>2. a \in {Settings.alt /\ ButtonState = "down", ButtonState = "down"}
      BY <1>2, <3>1 DEF Answers
    <3>3. \/ a = (Settings.alt /\ ButtonState = "down")
          \/ a = (ButtonState = "down")
      BY <3>2
    <3>4. Answer(step, ButtonState) = (ButtonState = "down")
      BY <2>2 DEF Answer
    <3>5. a \in BOOLEAN
      BY <3>3
    <3>6. Settings.alt => a = (ButtonState = "down")
      BY <3>3
    <3>7. QED
      BY <3>4, <3>5, <3>6
  <2>3. CASE step \in {1, 2}
    <3>1. Questions[step] \in {"FrontPageBoot", "BootloaderMenuBoot"}
      BY <2>3 DEF Questions
    <3>2. Answers(Questions[step]) = {ButtonState = "down"}
      BY <3>1 DEF Answers
    <3>3. a = (ButtonState = "down")
      BY <1>2, <3>2
    <3>4. Answer(step, ButtonState) = (ButtonState = "down")
      BY <2>3 DEF Answer
    <3>5. QED
      BY <3>3, <3>4
  <2>4. QED
    BY <1>1, <2>1, <2>2, <2>3
<1>5. /\ reads' \in Seq(BOOLEAN) /\ Len(reads') = step
      /\ reads'[step] = a /\ \A i \in 1..Len(reads) : reads'[i] = reads[i]
  BY <1>1, <1>2, <1>3, <1>4
<1>6. ASSUME early, Settings.alt
      PROVE  \E j \in 0..Len(reads'), key \in {"up", "down"} :
               /\ ~late => key = ButtonState
               /\ \A i \in 1..Len(reads') :
                    reads'[i] = Answer(i, IF i <= j THEN key ELSE ButtonState)
  <2>1. PICK j \in 0..Len(reads), key \in {"up", "down"} :
          /\ ~late => key = ButtonState
          /\ \A i \in 1..Len(reads) :
               reads[i] = Answer(i, IF i <= j THEN key ELSE ButtonState)
    BY <1>1, <1>6 DEF KeyInv
  <2>2. \A i \in 1..Len(reads') :
          reads'[i] = Answer(i, IF i <= j THEN key ELSE ButtonState)
    <3>1. TAKE i \in 1..Len(reads')
    <3>2. CASE i = step
      BY <1>1, <1>3, <1>4, <1>5, <1>6, <2>1, <3>2
    <3>3. CASE i # step
      BY <1>1, <1>3, <1>5, <2>1, <3>3
    <3>4. QED
      BY <3>2, <3>3
  <2>3. j \in 0..Len(reads')
    BY <1>1, <1>3, <1>5
  <2>4. QED
    BY <2>1, <2>2, <2>3
<1>7. early' /\ Settings'.alt =>
        \E j \in 0..Len(reads'), key \in {"up", "down"} :
          /\ ~late' => key = ButtonState'
          /\ \A i \in 1..Len(reads') :
               reads'[i] = Answer(i, IF i <= j THEN key ELSE ButtonState')
  BY <1>1, <1>6
<1>8. /\ phase' = "select" /\ Len(reads') = step' - 1 /\ step' \in 1..5
      /\ early' => ButtonState' \in {"up", "down"}
  BY <1>1, <1>5 DEF KeyInv
<1>9. QED
  BY <1>5, <1>7, <1>8 DEF KeyInv

\* A key pressed between two questions changes the answers from there on.
LEMMA KeyKeeps ==
  ASSUME KeyInv, NEW key \in {"up", "down"}, KeyNotify(key)
  PROVE  KeyInv'
<1>1. /\ ButtonState' = key /\ UNCHANGED <<Settings, phase, step, reads>>
      /\ phase \in {"register", "checks", "select"}
  BY DEF KeyNotify, Selecting, stored
<1>2. CASE ~(step > 1 /\ phase = "select")
  <2>1. UNCHANGED late
    BY <1>2 DEF KeyNotify
  <2>2. phase = "select" => reads = <<>> /\ Len(reads) = 0
    BY <1>2 DEF KeyInv
  <2>3. phase = "select" =>
          \E j \in 0..Len(reads), k \in {"up", "down"} :
            /\ ~late => k = key
            /\ \A i \in 1..Len(reads) :
                 reads[i] = Answer(i, IF i <= j THEN k ELSE key)
    BY <2>2
  <2>4. phase' = "select" =>
          \E j \in 0..Len(reads'), k \in {"up", "down"} :
            /\ ~late' => k = ButtonState'
            /\ \A i \in 1..Len(reads') :
                 reads'[i] = Answer(i, IF i <= j THEN k ELSE ButtonState')
    BY <1>1, <2>1, <2>3
  <2>5. /\ phase' # "off"
        /\ phase' = "checks" => step' = 1
        /\ phase' \in {"register", "checks"} => ~late' /\ reads' = <<>>
        /\ phase' = "select" => /\ reads' \in Seq(BOOLEAN)
                                /\ Len(reads') = step' - 1 /\ step' \in 1..5
        /\ ButtonState' \in {"up", "down"}
    BY <1>1, <2>1 DEF KeyInv
  <2>6. QED
    BY <2>4, <2>5 DEF KeyInv
<1>3. CASE step > 1 /\ phase = "select"
  <2>1. ~late /\ late' = TRUE /\ UNCHANGED early
    BY <1>3 DEF KeyNotify
  <2>2. Len(reads) \in Nat
    BY <1>3 DEF KeyInv
  <2>3. ASSUME early, Settings.alt
        PROVE  \E j \in 0..Len(reads), k \in {"up", "down"} :
                 \A i \in 1..Len(reads) :
                   reads[i] = Answer(i, IF i <= j THEN k ELSE key)
    <3>1. PICK j \in 0..Len(reads), k \in {"up", "down"} :
            /\ k = ButtonState
            /\ \A i \in 1..Len(reads) :
                 reads[i] = Answer(i, IF i <= j THEN k ELSE ButtonState)
      BY <1>3, <2>1, <2>3 DEF KeyInv
    <3>2. \A i \in 1..Len(reads) :
            reads[i] = Answer(i, IF i <= Len(reads) THEN k ELSE key)
      BY <2>2, <3>1
    <3>3. Len(reads) \in 0..Len(reads)
      BY <2>2
    <3>4. QED
      BY <3>2, <3>3
  <2>4. /\ reads' \in Seq(BOOLEAN) /\ Len(reads') = step' - 1 /\ step' \in 1..5
        /\ phase' = "select"
    BY <1>1, <1>3 DEF KeyInv
  <2>5. early' /\ Settings'.alt =>
          \E j \in 0..Len(reads'), k \in {"up", "down"} :
            /\ ~late' => k = ButtonState'
            /\ \A i \in 1..Len(reads') :
                 reads'[i] = Answer(i, IF i <= j THEN k ELSE ButtonState')
    BY <1>1, <2>1, <2>3
  <2>6. QED
    BY <1>1, <2>4, <2>5 DEF KeyInv
<1>4. QED
  BY <1>2, <1>3

LEMMA KeyStep ==
  ASSUME KeyInv, [Next]_vars
  PROVE  KeyInv'
<1>1. CASE PowerOn \/ RegisterNext
  <2>1. /\ phase' \in {"register", "checks"} /\ phase \in {"off", "register"}
        /\ phase' = "checks" => step' = 1
        /\ phase = "off" => ~early
        /\ UNCHANGED <<reads, late, early, ButtonState>>
    BY <1>1 DEF PowerOn, RegisterNext, KeyInv, select
  <2>2. QED
    BY <2>1 DEF KeyInv
<1>2. CASE PreBootChecks
  <2>1. PICK power, thermal :
          \/ PreBootRound(power, thermal) \/ PreBootDone(power, thermal)
          \/ PreBootShutdown(power, thermal)
    BY <1>2 DEF PreBootChecks
  <2>2. CASE PreBootShutdown(power, thermal)
    BY <2>2, TurnOffKeys DEF PreBootShutdown
  <2>3. CASE PreBootRound(power, thermal)
    BY <2>3 DEF PreBootRound, KeyInv, select
  <2>4. CASE PreBootDone(power, thermal)
    <3>1. /\ phase = "checks" /\ phase' = "select" /\ step = 1 /\ reads = <<>>
          /\ ~late /\ UNCHANGED <<step, reads, ButtonState, early, late>>
          /\ early => ButtonState \in {"up", "down"}
      BY <2>4 DEF PreBootDone, KeyInv, select
    <3>2. reads' \in Seq(BOOLEAN) /\ Len(reads') = 0
      BY <3>1
    <3>3. QED
      BY <3>1, <3>2 DEF KeyInv
  <2>5. QED
    BY <2>1, <2>2, <2>3, <2>4
<1>3. ASSUME NEW key \in {"up", "down"}, KeyNotify(key)
      PROVE  KeyInv'
  BY <1>3, KeyKeeps
<1>4. CASE PriorityBoot \/ TryNext \/ ProcessBootCompletion \/ UnableToBoot
  BY <1>4, KeysForgotten, TurnOffKeys
     DEF PriorityBoot, TryNext, ProcessBootCompletion, UnableToBoot,
         RebootToFrontPage
<1>5. ASSUME Editing
      PROVE  KeyInv'
  BY <1>5, KeysForgotten DEF Editing
<1>6. CASE \/ Reorder \/ Create
           \/ \E n \in Numbers : Switch(n) \/ Delete(n) \/ ChooseNext(n)
  BY <1>5, <1>6 DEF Reorder, Create, Switch, Delete, ChooseNext
<1>7. CASE \/ \E name \in {"lock", "alt"} : ChangeSetting(name)
           \/ HandleSecureBootChange \/ HandleRebootToFrontPage
  BY <1>7, KeysForgotten
     DEF ChangeSetting, HandleSecureBootChange, HandleRebootToFrontPage
<1>8. CASE LeaveByReset \/ LeaveToBoot \/ BootNextNow \/ BootNextReturns \/ PowerOff
  BY <1>8, KeysForgotten, TurnOffKeys
     DEF LeaveByReset, LeaveToBoot, BootNextNow, BootNextReturns, PowerOff,
         RebootToFrontPage
<1>9. CASE UNCHANGED vars
  BY <1>9 DEF KeyInv, vars, stored, select
<1>10. QED
  BY <1>1, <1>2, <1>3, <1>4, <1>6, <1>7, <1>8, <1>9, AskKeeps DEF Next

LEMMA KeyInvariant == Spec => []KeyInv
<1>1. Init => KeyInv
  BY DEF Init, KeyInv
<1>2. KeyInv /\ [Next]_vars => KeyInv'
  BY KeyStep
<1>3. QED
  BY <1>1, <1>2, PTL DEF Spec

\* Whatever the early key and the late one are, and wherever the late one
\* comes between the four questions, one of the five cases applies.
LEMMA SomeCase ==
  ASSUME KeyInv, phase = "select", step = 5, early, Settings.alt
  PROVE  Chosen # None
<1>1. /\ reads \in Seq(BOOLEAN) /\ Len(reads) = 4
      /\ ButtonState \in {"up", "down"}
  BY DEF KeyInv
<1>2. PICK j \in 0..4, key \in {"up", "down"} :
        \A i \in 1..4 :
          reads[i] = Answer(i, IF i <= j THEN key ELSE ButtonState)
  BY <1>1 DEF KeyInv
<1>3. /\ reads[2] = ((IF 2 <= j THEN key ELSE ButtonState) = "down")
      /\ reads[3] = ((IF 3 <= j THEN key ELSE ButtonState) = "up")
      /\ reads[4] = ((IF 4 <= j THEN key ELSE ButtonState) = "down")
  BY <1>2 DEF Answer
<1>4. reads[2] \/ reads[3] \/ reads[4]
  BY <1>1, <1>2, <1>3
<1>5. Chosen = Choice(reads)
  BY <1>1, QuestionCount DEF Chosen
<1>6. QED
  BY <1>4, <1>5, BootAssumption DEF Choice

\* A volume key pressed before the first question is never ignored.
THEOREM PressAlwaysHonoured == Spec => PressHonoured
<1>1. ASSUME KeyInv, [Next]_vars
      PROVE  phase = "select" /\ phase' \notin {"select", "off"} /\ early
             /\ Settings.alt => Chosen # None
  <2>1. SUFFICES ASSUME phase = "select", phase' \notin {"select", "off"}, early,
                        Settings.alt
                 PROVE  Chosen # None
    OBVIOUS
  <2>2. PriorityBoot
    BY <1>1, <2>1
       DEF Next, vars, PowerOn, RegisterNext, PreBootChecks, PreBootRound,
           PreBootDone, PreBootShutdown, KeyNotify, AskButtons, TryNext,
           ProcessBootCompletion, UnableToBoot, Reorder, Create, Switch, Delete,
           ChooseNext, Editing, ChangeSetting, HandleSecureBootChange,
           HandleRebootToFrontPage, LeaveByReset, LeaveToBoot, BootNextNow,
           BootNextReturns, PowerOff, TurnOff
  <2>3. step = 5
    BY <1>1, <2>1, <2>2, QuestionCount DEF PriorityBoot, KeyInv
  <2>4. QED
    BY <1>1, <2>1, <2>3, SomeCase
<1>2. QED
  BY <1>1, KeyInvariant, PTL DEF Spec, PressHonoured
-----------------------------------------------------------------------------
(***************************************************************************)
(* The boot order                                                          *)
(***************************************************************************)
Names == Range(Defaults) \union {Own}

\* Every number in the order is there once and is that of an option, and no
\* two of them have the same name.
OrderInv ==
  /\ BootOrder \in Seq(Numbers) /\ Boot \in [Numbers -> Option \union {None}]
  /\ IsInjective(BootOrder)
  /\ \A n \in Listed : Boot[n] # None
  /\ \A m, n \in Listed : Boot[m].name = Boot[n].name => m = n
  /\ phase = "register" => step \in 1..Len(Defaults)

\* A set of numbers that is not empty has a least one.
LEMMA LeastNumber ==
  ASSUME NEW S \in SUBSET Nat, S # {}
  PROVE  \E m \in S : \A k \in S : m <= k
<1> DEFINE R == {ss \in Nat \X Nat : ss[1] < ss[2]}
<1>1. IsWellFoundedOn(R, Nat)
  BY NatLessThanWellFounded DEF OpToRel
<1>2. PICK m \in S : \A k \in S : ~(<<k, m>> \in R)
  <2> HIDE DEF R
  <2>1. QED BY <1>1, WFMin
<1>3. ASSUME NEW k \in S PROVE m <= k
  <2>1. m \in Nat /\ k \in Nat /\ ~(<<k, m>> \in R)
    BY <1>2
  <2>2. ~(k < m)
    BY <2>1
  <2>3. QED
    BY <2>1, <2>2
<1>4. QED
  BY <1>3

\* There are no more defaults than registrations.
LEMMA NamesBound ==
  IsFiniteSet(Range(Defaults)) /\ Cardinality(Range(Defaults)) <= Len(Defaults)
<1>1. Len(Defaults) \in Nat /\ DOMAIN Defaults = 1..Len(Defaults)
  BY BootAssumption
<1>2. Defaults \in Surjection(1..Len(Defaults), Range(Defaults))
  BY <1>1, BootAssumption DEF Surjection, Range
<1>3. /\ IsFiniteSet(1..Len(Defaults))
      /\ Cardinality(1..Len(Defaults)) = Len(Defaults)
  <2>1. 1 \in Int /\ Len(Defaults) \in Int
    BY <1>1
  <2>2. Cardinality(1..Len(Defaults))
          = IF 1 > Len(Defaults) THEN 0 ELSE Len(Defaults) - 1 + 1
    BY <2>1, FS_Interval
  <2>3. QED
    BY <1>1, <2>1, <2>2, FS_Interval
<1>4. QED
  BY <1>2, <1>3, FS_Surjection

\* While one name is not in the order, one number is not in it either.
LEMMA FreeNumber ==
  ASSUME OrderInv, NEW name \in Names, Options(name) = {}
  PROVE  {n \in Numbers : n \notin Listed} # {}
<1> DEFINE T == Names \ {name}
<1>1. IsFiniteSet(T) /\ Cardinality(T) <= Len(Defaults)
  <2>1. IsFiniteSet(Names) /\ Cardinality(Names) = Cardinality(Range(Defaults)) + 1
    BY NamesBound, FS_AddElement, BootAssumption DEF Names
  <2>2. IsFiniteSet(T) /\ Cardinality(T) = Cardinality(Names) - 1
    BY <2>1, FS_RemoveElement
  <2>3. Cardinality(Range(Defaults)) \in Nat /\ Len(Defaults) \in Nat
    BY NamesBound, FS_CardinalityType, BootAssumption
  <2> HIDE DEF T
  <2>4. QED
    BY <2>1, <2>2, <2>3, NamesBound
<1>2. [n \in Listed |-> Boot[n].name] \in Injection(Listed, T)
  <2>1. \A n \in Listed : n \in Numbers
    BY DEF OrderInv, Listed, Range
  <2>2. ASSUME NEW n \in Listed PROVE Boot[n].name \in T
    <3>1. Boot[n] \in Option /\ Boot[n] # None
      BY <2>1, <2>2 DEF OrderInv
    <3>2. Boot[n].name # name
      BY <3>1, <2>2 DEF Options
    <3>3. QED
      BY <3>1, <3>2 DEF Option, Names
  <2> HIDE DEF T
  <2>3. \A m, n \in Listed : Boot[m].name = Boot[n].name => m = n
    BY DEF OrderInv
  <2>4. QED
    BY <2>2, <2>3 DEF Injection, IsInjective
<1>3. IsFiniteSet(Listed) /\ Cardinality(Listed) <= Cardinality(T)
  <2> HIDE DEF T
  <2>1. QED
    BY <1>1, <1>2, FS_Injection
<1>4. SUFFICES ASSUME Numbers \subseteq Listed PROVE FALSE
  OBVIOUS
<1>5. IsFiniteSet(Numbers) /\ Cardinality(Numbers) <= Cardinality(Listed)
  BY <1>3, <1>4, FS_Subset
<1>6. /\ Cardinality(Numbers) \in Nat /\ Cardinality(Listed) \in Nat
      /\ Cardinality(T) \in Nat /\ Len(Defaults) \in Nat
  BY <1>1, <1>3, <1>5, FS_CardinalityType, BootAssumption
<1>7. Len(Defaults) < Cardinality(Numbers)
  BY BootAssumption
<1> HIDE DEF T
<1>8. QED
  BY <1>1, <1>3, <1>5, <1>6, <1>7

\* An option of a new name gets the least free number.
LEMMA AddedNumber ==
  ASSUME OrderInv, NEW name \in Names, Options(name) = {}, AddOption(name)
  PROVE  \E new \in Numbers \ Listed :
           /\ BootOrder' = Append(BootOrder, new)
           /\ Boot' = [Boot EXCEPT ![new] = [name |-> name, active |-> TRUE]]
<1> DEFINE free == {n \in Numbers : n \notin Listed}
           new == CHOOSE m \in free : \A k \in free : m <= k
<1>1. free \in SUBSET Nat /\ free # {}
  BY FreeNumber, BootAssumption
<1>2. \E m \in free : \A k \in free : m <= k
  <2> HIDE DEF free
  <2>1. QED BY <1>1, LeastNumber
<1>3. new \in free
  <2> HIDE DEF free
  <2>1. QED BY <1>2
<1>4. /\ BootOrder' = Append(BootOrder, new)
      /\ Boot' = [Boot EXCEPT ![new] = [name |-> name, active |-> TRUE]]
  BY DEF AddOption
<1>5. new \in Numbers \ Listed
  BY <1>3
<1> HIDE DEF new
<1>6. QED
  BY <1>4, <1>5

LEMMA AddKeepsOrder ==
  ASSUME OrderInv, NEW name \in Names, Options(name) = {}, AddOption(name),
         phase' = "register" => step' \in 1..Len(Defaults)
  PROVE  OrderInv'
<1> DEFINE o == [name |-> name, active |-> TRUE]
<1>1. PICK new \in Numbers \ Listed :
        BootOrder' = Append(BootOrder, new) /\ Boot' = [Boot EXCEPT ![new] = o]
  BY AddedNumber
<1>2. BootOrder' = Append(BootOrder, new) /\ Boot' = [Boot EXCEPT ![new] = o]
  BY <1>1
<1>3. o \in Option /\ o.name = name
  BY DEF Option, Names
<1>4. /\ BootOrder \in Seq(Numbers) /\ BootOrder' \in Seq(Numbers)
      /\ DOMAIN BootOrder' = DOMAIN BootOrder \union {Len(BootOrder) + 1}
      /\ BootOrder'[Len(BootOrder) + 1] = new
      /\ \A i \in DOMAIN BootOrder : BootOrder'[i] = BootOrder[i]
      /\ Len(BootOrder) + 1 \notin DOMAIN BootOrder
  BY <1>1, <1>2 DEF OrderInv
<1>5. Listed' = Listed \union {new}
  BY <1>4 DEF Listed, Range
<1>6. IsInjective(BootOrder)'
  BY <1>1, <1>4 DEF IsInjective, OrderInv, Listed, Range
<1>7. Listed \subseteq Numbers
  BY <1>4 DEF Listed, Range
<1> HIDE DEF o
<1>8. /\ Boot \in [Numbers -> Option \union {None}]
      /\ Boot' \in [Numbers -> Option \union {None}]
      /\ Boot'[new] = o /\ \A n \in Listed : Boot'[n] = Boot[n]
  BY <1>1, <1>2, <1>3, <1>7 DEF OrderInv
<1>9. \A n \in Listed : Boot[n] # None /\ Boot[n].name # name
  BY <1>7 DEF OrderInv, Options
<1>10. o # None
  BY <1>3, BootAssumption
<1>11. \A n \in Listed' : Boot'[n] # None
  BY <1>5, <1>8, <1>9, <1>10
<1>12. \A m, n \in Listed' : Boot'[m].name = Boot'[n].name => m = n
  BY <1>3, <1>5, <1>8, <1>9 DEF OrderInv
<1>13. QED
  BY <1>4, <1>6, <1>8, <1>11, <1>12 DEF OrderInv

\* The options that were in the order are there with the new one.
LEMMA AddedOption ==
  ASSUME OrderInv, NEW name \in Names, Options(name) = {}, AddOption(name)
  PROVE  Listed \subseteq Listed' /\ \A n \in Listed : Boot'[n] = Boot[n]
<1>1. PICK new \in Numbers \ Listed :
        /\ BootOrder' = Append(BootOrder, new)
        /\ Boot' = [Boot EXCEPT ![new] = [name |-> name, active |-> TRUE]]
  BY AddedNumber
<1>2. /\ DOMAIN BootOrder \subseteq DOMAIN BootOrder'
      /\ \A i \in DOMAIN BootOrder : BootOrder'[i] = BootOrder[i]
  BY <1>1 DEF OrderInv
<1>3. QED
  BY <1>1, <1>2 DEF Listed, Range

\* Deleting options takes no others away.
LEMMA DeletedOptions ==
  ASSUME OrderInv, NEW ns, DeleteOptions(ns)
  PROVE  Listed \ ns \subseteq Listed' /\ \A n \in Listed \ ns : Boot'[n] = Boot[n]
<1>1. BootOrder \in Seq(Numbers) /\ Listed \subseteq Numbers
  BY DEF OrderInv, Listed, Range
<1>2. BootOrder' = Without(BootOrder, ns)
  BY DEF DeleteOptions
<1>3. \A j \in DOMAIN BootOrder : BootOrder[j] \notin ns =>
        \E a \in DOMAIN BootOrder' : BootOrder'[a] = BootOrder[j]
  BY <1>1, <1>2, WithoutKeeps
<1>4. Listed \ ns \subseteq Listed'
  BY <1>3 DEF Listed, Range
<1>5. \A n \in Listed \ ns : Boot'[n] = Boot[n]
  BY <1>1 DEF DeleteOptions
<1>6. QED
  BY <1>4, <1>5

\* The options that are left were in the order before.
LEMMA DeleteKeepsOrder ==
  ASSUME OrderInv, NEW ns, DeleteOptions(ns),
         phase' = "register" => step' \in 1..Len(Defaults)
  PROVE  OrderInv'
<1>1. /\ BootOrder' = Without(BootOrder, ns)
      /\ Boot' = [n \in Numbers |-> IF n \in ns THEN None ELSE Boot[n]]
  BY DEF DeleteOptions
<1>2. BootOrder \in Seq(Numbers) /\ IsInjective(BootOrder)
  BY DEF OrderInv
<1>3. /\ BootOrder' \in Seq(Numbers)
      /\ \A a \in DOMAIN BootOrder' :
           BootOrder'[a] \in {BootOrder[j] : j \in DOMAIN BootOrder} \ ns
      /\ IsInjective(BootOrder')
  <2> DEFINE new == Without(BootOrder, ns)
  <2>1. /\ new \in Seq(Numbers)
        /\ \A a \in DOMAIN new :
             new[a] \in {BootOrder[j] : j \in DOMAIN BootOrder} \ ns
        /\ (\A a, b \in DOMAIN BootOrder : BootOrder[a] = BootOrder[b] => a = b) =>
             \A a, b \in DOMAIN new : new[a] = new[b] => a = b
    BY <1>2, WithoutKeeps
  <2>2. BootOrder' = new
    BY <1>1
  <2> HIDE DEF new
  <2>3. QED
    BY <1>2, <2>1, <2>2 DEF IsInjective
<1>4. Listed' \subseteq Listed \ ns /\ Listed' \subseteq Numbers
  BY <1>3 DEF Listed, Range
<1>5. Boot' \in [Numbers -> Option \union {None}]
  BY <1>1 DEF OrderInv
<1>6. \A n \in Listed' : Boot'[n] = Boot[n]
  BY <1>1, <1>4
<1>7. QED
  BY <1>3, <1>4, <1>5, <1>6 DEF OrderInv

\* The same options in another order.
LEMMA ReorderListed ==
  ASSUME OrderInv, Reorder
  PROVE  Listed' = Listed
<1>1. PICK i, j \in DOMAIN BootOrder :
        BootOrder' = [BootOrder EXCEPT ![i] = BootOrder[j], ![j] = BootOrder[i]]
  BY DEF Reorder
<1>2. /\ DOMAIN BootOrder' = DOMAIN BootOrder
      /\ \A k \in DOMAIN BootOrder :
           BootOrder'[k] = IF k = j THEN BootOrder[i]
                           ELSE IF k = i THEN BootOrder[j] ELSE BootOrder[k]
  BY <1>1 DEF OrderInv
<1>3. ASSUME NEW k \in DOMAIN BootOrder
      PROVE  \E l \in DOMAIN BootOrder' : BootOrder'[l] = BootOrder[k]
  <2>1. CASE k = i
    BY <1>1, <1>2, <2>1
  <2>2. CASE k # i /\ k = j
    BY <1>1, <1>2, <2>2
  <2>3. CASE k # i /\ k # j
    BY <1>2, <2>3
  <2>4. QED
    BY <2>1, <2>2, <2>3
<1>4. Listed \subseteq Listed'
  BY <1>3 DEF Listed, Range
<1>5. Listed' \subseteq Listed
  BY <1>1, <1>2 DEF Listed, Range
<1>6. QED
  BY <1>4, <1>5

LEMMA ReorderKeepsOrder ==
  ASSUME OrderInv, Reorder
  PROVE  OrderInv'
<1>1. PICK i, j \in DOMAIN BootOrder :
        BootOrder' = [BootOrder EXCEPT ![i] = BootOrder[j], ![j] = BootOrder[i]]
  BY DEF Reorder
<1>2. BootOrder \in Seq(Numbers) /\ IsInjective(BootOrder)
  BY DEF OrderInv
<1>3. /\ BootOrder' \in Seq(Numbers) /\ DOMAIN BootOrder' = DOMAIN BootOrder
      /\ \A k \in DOMAIN BootOrder :
           BootOrder'[k] = IF k = j THEN BootOrder[i]
                           ELSE IF k = i THEN BootOrder[j] ELSE BootOrder[k]
  BY <1>1, <1>2
<1>4. IsInjective(BootOrder)'
  BY <1>2, <1>3 DEF IsInjective
<1>5. Listed' = Listed
  BY ReorderListed
<1>6. UNCHANGED <<Boot, phase, step>>
  BY DEF Reorder, Editing
<1>7. QED
  BY <1>3, <1>4, <1>5, <1>6 DEF OrderInv

\* An option that is switched on or off keeps its name.
LEMMA SwitchKeepsOrder ==
  ASSUME OrderInv, NEW n \in Numbers, Switch(n)
  PROVE  OrderInv'
<1>1. /\ Boot' = [Boot EXCEPT ![n].active = ~@] /\ n \in Listed
      /\ UNCHANGED <<BootOrder, phase, step>>
  BY DEF Switch, Editing
<1>2. Boot[n] \in Option
  BY <1>1 DEF OrderInv
<1> DEFINE o == [Boot[n] EXCEPT !.active = ~@]
<1>3. o \in Option /\ o.name = Boot[n].name
  BY <1>2 DEF Option
<1>4. Boot' = [Boot EXCEPT ![n] = o]
  BY <1>1
<1> HIDE DEF o
<1>5. /\ Boot' \in [Numbers -> Option \union {None}]
      /\ Boot'[n] = o /\ \A m \in Numbers \ {n} : Boot'[m] = Boot[m]
  BY <1>3, <1>4 DEF OrderInv
<1>6. Listed' = Listed /\ Listed \subseteq Numbers
  BY <1>1 DEF Listed, Range, OrderInv
<1>7. \A m \in Listed : Boot'[m] # None /\ Boot'[m].name = Boot[m].name
  BY <1>3, <1>5, <1>6, BootAssumption DEF OrderInv
<1>8. QED
  BY <1>1, <1>5, <1>6, <1>7 DEF OrderInv

LEMMA OrderStep ==
  ASSUME OrderInv, KeyInv, [Next]_vars
  PROVE  OrderInv'
<1>1. SUFFICES ASSUME ~(UNCHANGED <<BootOrder, Boot, phase, step>>)
               PROVE  OrderInv'
  BY DEF OrderInv, Listed
<1>2. CASE PowerOn
  <2>1. Len(Defaults) \in Nat /\ 1 \in 1..Len(Defaults)
    BY BootAssumption DEF Range
  <2>2. QED
    BY <1>2, <2>1 DEF PowerOn, KeyInv, OrderInv, Listed
<1>3. CASE RegisterNext
  <2>1. /\ step \in 1..Len(Defaults) /\ Defaults[step] \in Names
        /\ Len(Defaults) \in Nat
    BY <1>3, BootAssumption DEF RegisterNext, OrderInv, Names, Range
  <2>2. phase' = "register" => step' \in 1..Len(Defaults)
    BY <1>3, <2>1 DEF RegisterNext
  <2>3. \/ Options(Defaults[step]) = {} /\ AddOption(Defaults[step])
        \/ DeleteOptions(Options(Defaults[step]))
        \/ UNCHANGED <<BootOrder, Boot>>
    BY <1>3 DEF RegisterNext, RegisterFvBootOption, Registered
  <2>4. CASE UNCHANGED <<BootOrder, Boot>>
    BY <2>2, <2>4 DEF OrderInv, Listed
  <2>5. QED
    BY <2>1, <2>2, <2>3, <2>4, AddKeepsOrder, DeleteKeepsOrder
<1>4. CASE Reorder
  BY <1>4, ReorderKeepsOrder
<1>5. CASE Create
  <2>1. AddOption(Own) /\ Options(Own) = {} /\ Own \in Names /\ phase' # "register"
    BY <1>5 DEF Create, Editing, Names
  <2>2. QED
    BY <2>1, AddKeepsOrder
<1>6. ASSUME NEW n \in Numbers, Switch(n) \/ Delete(n) \/ ChooseNext(n)
      PROVE  OrderInv'
  <2>1. CASE Switch(n)
    BY <2>1, SwitchKeepsOrder
  <2>2. CASE Delete(n)
    BY <2>2, DeleteKeepsOrder DEF Delete, Editing
  <2>3. CASE ChooseNext(n)
    BY <2>3, <1>1 DEF ChooseNext, Editing
  <2>4. QED
    BY <1>6, <2>1, <2>2, <2>3
<1>7. CASE ~(RegisterNext \/ Reorder \/ Create \/ PowerOn)
           /\ ~\E n \in Numbers : Switch(n) \/ Delete(n) \/ ChooseNext(n)
  <2>1. /\ UNCHANGED <<BootOrder, Boot>>
        /\ phase' # "register" \/ UNCHANGED <<phase, step>>
    BY <1>7
       DEF Next, vars, stored, PreBootChecks, PreBootRound, PreBootDone,
           PreBootShutdown, KeyNotify, AskButtons, PriorityBoot, TryNext,
           ProcessBootCompletion, UnableToBoot, ChangeSetting,
           HandleSecureBootChange, HandleRebootToFrontPage, LeaveByReset,
           LeaveToBoot, BootNextNow, BootNextReturns, PowerOff, TurnOff,
           RebootToFrontPage
  <2>2. QED
    BY <2>1 DEF OrderInv, Listed
<1>8. QED
  BY <1>2, <1>3, <1>4, <1>5, <1>6, <1>7
LEMMA OrderInvariant == Spec => []OrderInv
<1>1. Init => OrderInv
  BY DEF Init, OrderInv, Listed, Range, IsInjective
<1>2. OrderInv /\ KeyInv /\ [Next]_vars => OrderInv'
  BY OrderStep
<1>3. QED
  BY <1>1, <1>2, KeyInvariant, PTL DEF Spec

\* However the order was changed and whatever the images held, a default
\* option is in it at most once.
THEOREM DefaultsAlwaysOnce == Spec => []DefaultsOnce
<1>1. ASSUME OrderInv, NEW d \in Range(Defaults)
      PROVE  Cardinality(Options(d)) <= 1
  <2>1. \A m, n \in Options(d) : m = n
    BY <1>1 DEF OrderInv, Options
  <2>2. Options(d) = {} \/ \E n : Options(d) = {n}
    BY <2>1
  <2>3. Cardinality({}) = 0 /\ \A n : Cardinality({n}) = 1
    BY FS_EmptySet, FS_Singleton
  <2>4. Cardinality(Options(d)) = 0 \/ Cardinality(Options(d)) = 1
    BY <2>2, <2>3
  <2>5. QED
    BY <2>4
<1>2. OrderInv => DefaultsOnce
  BY <1>1 DEF DefaultsOnce, OrderInv
<1>3. QED
  BY <1>2, OrderInvariant, PTL

-----------------------------------------------------------------------------
(***************************************************************************)
(* The lock of the boot variables                                          *)
(***************************************************************************)
Early == {"off", "register", "checks", "select", "frontpage"}

\* What is locked is in the order, and where nothing slipped it is all there is.
Covered ==
  /\ locked.options \subseteq Listed
  /\ Settings.lock /\ ~slipped =>
       locked.order /\ locked.next /\ Listed \subseteq locked.options

\* ReadyToBoot comes after the buttons and the front page, and nothing is
\* locked before it; policy is off only in a front page that can but reset;
\* and what was locked is still there.
LockInv ==
  /\ phase \in Early => ~ready
  /\ mResetRequired => phase = "frontpage"
  /\ ~policy => mResetRequired
  /\ IF ready THEN Covered ELSE locked.options = {}

\* What LockHolds says of one step, but for its last conjunct.
Holds ==
  ready /\ ready' =>
    /\ locked.order => BootOrder' = BootOrder
    /\ locked.next => BootNext' \in {BootNext, None}
    /\ \A n \in locked.options : Boot'[n] = Boot[n]

\* A reset, and what the front page may do on its way to one.
LEMMA TurnOffLock == TurnOff => LockInv' /\ ~ready'
BY DEF TurnOff, Restarted, LockInv, Early, Unlocked

\* PreReadyToBoot locks what it can of the order it finds, once.
LEMMA PreReadyLocks ==
  ASSUME LockInv, NEW next, PreReadyToBoot(next),
         phase' \notin Early, ~mResetRequired, page' = page, policy,
         BootOrder' = BootOrder, Settings' = Settings
  PROVE  /\ LockInv'
         /\ ready => BootNext' = next
<1>1. ready' /\ policy' /\ ~mResetRequired' /\ Listed' = Listed
  BY DEF PreReadyToBoot, Listed, page
<1>2. CASE ~ready /\ Settings.lock
  <2>1. locked' \in Locks /\ slipped' = (locked' # AllLocked)
    BY <1>2 DEF PreReadyToBoot
  <2>2. locked'.options \subseteq Listed
    BY <2>1 DEF Locks, AllLocked
  <2>3. ~slipped' => locked'.order /\ locked'.next /\ locked'.options = Listed
    <3>1. ~slipped' => locked' = AllLocked
      BY <2>1
    <3>2. AllLocked.order /\ AllLocked.next /\ AllLocked.options = Listed
      BY DEF AllLocked
    <3>3. QED
      BY <3>1, <3>2
  <2>4. QED
    BY <1>1, <1>2, <2>2, <2>3 DEF LockInv, Covered
<1>3. CASE ready \/ ~Settings.lock
  BY <1>1, <1>3 DEF LockInv, Covered, PreReadyToBoot
<1>4. QED
  BY <1>2, <1>3

\* A step that leaves alone what is locked, and its part of Holds: a change of
\* the order leaves the locked options in it.
LEMMA EditsKeepLock ==
  ASSUME LockInv, UNCHANGED <<phase, protect, Settings, mResetRequired>>,
         \/ BootOrder' = BootOrder
         \/ OrderWritable /\ (Covered => locked.options \subseteq Listed')
  PROVE  LockInv' /\ (ready /\ locked.order => BootOrder' = BootOrder)
<1>1. CASE ready
  <2>1. policy /\ Covered
    BY <1>1 DEF LockInv, Early
  <2>2. CASE BootOrder' = BootOrder
    BY <1>1, <2>1, <2>2 DEF LockInv, Covered, Listed, protect
  <2>3. CASE BootOrder' # BootOrder
    <3>1. ~locked.order /\ locked.options \subseteq Listed'
      BY <2>1, <2>3 DEF OrderWritable
    <3>2. Covered'
      BY <2>1, <3>1 DEF Covered, protect
    <3>3. QED
      BY <1>1, <3>1, <3>2 DEF LockInv, protect
  <2>4. QED
    BY <2>2, <2>3
<1>2. CASE ~ready
  BY <1>2 DEF LockInv, protect
<1>3. QED
  BY <1>1, <1>2

\* What is in force while an option runs.
LEMMA InForce == LockInv /\ ready => policy /\ Covered
BY DEF LockInv, Early

LEMMA ReorderLock ==
  ASSUME LockInv, OrderInv, Reorder
  PROVE  LockInv' /\ Holds
<1>1. /\ UNCHANGED <<phase, protect, Settings, page, Boot, BootNext>>
      /\ OrderWritable
  BY DEF Reorder, Editing
<1>2. Listed' = Listed
  BY ReorderListed
<1>3. LockInv' /\ (ready /\ locked.order => BootOrder' = BootOrder)
  BY <1>1, <1>2, EditsKeepLock DEF Covered, page
<1>4. QED
  BY <1>1, <1>3 DEF Holds

LEMMA CreateLock ==
  ASSUME LockInv, OrderInv, Create
  PROVE  LockInv' /\ Holds
<1>1. /\ UNCHANGED <<phase, protect, Settings, page, BootNext>>
      /\ OrderWritable /\ Options(Own) = {} /\ AddOption(Own) /\ Own \in Names
  BY DEF Create, Editing, Names
<1>2. Listed \subseteq Listed' /\ \A n \in Listed : Boot'[n] = Boot[n]
  BY <1>1, AddedOption
<1>3. LockInv' /\ (ready /\ locked.order => BootOrder' = BootOrder)
  BY <1>1, <1>2, EditsKeepLock DEF Covered, page
<1>4. QED
  BY <1>1, <1>2, <1>3, InForce DEF Holds, Covered

LEMMA SwitchLock ==
  ASSUME LockInv, OrderInv, NEW n \in Numbers, Switch(n)
  PROVE  LockInv' /\ Holds
<1>1. /\ UNCHANGED <<phase, protect, Settings, BootOrder, BootNext, page>>
      /\ OptionWritable(n) /\ Boot' = [Boot EXCEPT ![n].active = ~@]
  BY DEF Switch, Editing
<1>2. \A m : m # n => Boot'[m] = Boot[m]
  BY <1>1
<1>3. LockInv'
  BY <1>1, EditsKeepLock DEF page
<1>4. ready => n \notin locked.options
  BY <1>1, InForce DEF OptionWritable
<1>5. QED
  BY <1>1, <1>2, <1>3, <1>4 DEF Holds

\* An option that is deleted is not a locked one.
LEMMA DeleteLock ==
  ASSUME LockInv, OrderInv, NEW n \in Numbers, Delete(n)
  PROVE  LockInv' /\ Holds
<1>1. /\ UNCHANGED <<phase, protect, Settings, page, BootNext>>
      /\ OrderWritable /\ OptionWritable(n) /\ DeleteOptions({n})
  BY DEF Delete, Editing
<1>2. /\ Listed \ {n} \subseteq Listed'
      /\ \A m \in Listed \ {n} : Boot'[m] = Boot[m]
  BY <1>1, DeletedOptions
<1>3. CASE ready
  <2>1. n \notin locked.options /\ locked.options \subseteq Listed
    BY <1>1, <1>3, InForce DEF OptionWritable, Covered
  <2>2. LockInv' /\ (ready /\ locked.order => BootOrder' = BootOrder)
    BY <1>1, <1>2, <2>1, EditsKeepLock DEF page
  <2>3. QED
    BY <1>1, <1>2, <2>1, <2>2 DEF Holds
<1>4. CASE ~ready
  BY <1>1, <1>4 DEF LockInv, Holds, protect, page
<1>5. QED
  BY <1>3, <1>4

LEMMA ChooseLock ==
  ASSUME LockInv, NEW n \in Numbers, ChooseNext(n)
  PROVE  LockInv' /\ Holds
<1>1. /\ UNCHANGED <<phase, protect, Settings, BootOrder, Boot, mResetRequired>>
      /\ NextWritable
  BY DEF ChooseNext, Editing
<1>2. LockInv'
  BY <1>1, EditsKeepLock
<1>3. ready => ~locked.next
  BY <1>1, InForce DEF NextWritable
<1>4. QED
  BY <1>1, <1>2, <1>3 DEF Holds

\* Any step after which the boot variables are the same, what is protected is,
\* and where the device is has nothing to do with the lock.
LEMMA OthersKeepLock ==
  ASSUME LockInv, UNCHANGED <<BootOrder, Boot, BootNext, protect, Settings, page>>,
         \/ phase' = phase
         \/ phase \in Early \ {"frontpage"} /\ phase' \in Early
         \/ ~mResetRequired /\ ~(phase \notin Early /\ phase' \in Early)
  PROVE  LockInv' /\ Holds
BY DEF LockInv, Covered, Holds, Listed, Early, protect, page

LEMMA LockStep ==
  ASSUME LockInv, OrderInv, Next
  PROVE  LockInv' /\ Holds
<1>1. CASE PowerOn
  BY <1>1 DEF PowerOn, LockInv, Early, Holds, protect, page
<1>2. CASE RegisterNext
  BY <1>2 DEF RegisterNext, LockInv, Early, Holds, protect, page
<1>3. CASE PreBootChecks
  <2>1. PICK power, thermal :
          \/ PreBootRound(power, thermal) \/ PreBootDone(power, thermal)
          \/ PreBootShutdown(power, thermal)
    BY <1>3 DEF PreBootChecks
  <2>2. CASE PreBootShutdown(power, thermal)
    BY <2>2, TurnOffLock DEF PreBootShutdown, Holds
  <2>3. CASE PreBootRound(power, thermal) \/ PreBootDone(power, thermal)
    BY <2>3, OthersKeepLock DEF PreBootRound, PreBootDone, Early, stored
  <2>4. QED
    BY <2>1, <2>2, <2>3
<1>4. ASSUME NEW key, KeyNotify(key)
      PROVE  LockInv' /\ Holds
  BY <1>4, OthersKeepLock DEF KeyNotify, stored
<1>5. CASE AskButtons
  BY <1>5, OthersKeepLock DEF AskButtons, stored
<1>6. CASE PriorityBoot
  <2>1. /\ phase = "select" /\ ~ready /\ policy /\ ~mResetRequired
    BY <1>6 DEF PriorityBoot, LockInv, Early
  <2>2. /\ UNCHANGED <<BootOrder, Settings, page>>
        /\ \/ phase' \in {"frontpage", "boot"} /\ UNCHANGED protect
           \/ phase' = "running" /\ PreReadyToBoot(BootNext)
    BY <1>6 DEF PriorityBoot
  <2>3. CASE UNCHANGED protect
    BY <2>1, <2>2, <2>3 DEF LockInv, Early, Holds, protect, page
  <2>4. CASE phase' = "running" /\ PreReadyToBoot(BootNext)
    BY <2>1, <2>2, <2>4, PreReadyLocks DEF Early, Holds
  <2>5. QED
    BY <2>2, <2>3, <2>4
<1>7. CASE TryNext
  <2>1. /\ phase = "boot" /\ UNCHANGED <<BootOrder, Boot, Settings, page>>
        /\ \/ phase' = "running" /\ PreReadyToBoot(BootNext)
           \/ UNCHANGED <<phase, BootNext, protect>>
    BY <1>7 DEF TryNext
  <2>2. policy /\ ~mResetRequired
    BY <2>1 DEF LockInv
  <2>3. CASE UNCHANGED <<phase, BootNext, protect>>
    BY <2>1, <2>3, OthersKeepLock
  <2>4. CASE phase' = "running" /\ PreReadyToBoot(BootNext)
    BY <2>1, <2>2, <2>4, PreReadyLocks DEF Early, Holds
  <2>5. QED
    BY <2>1, <2>3, <2>4
<1>8. CASE ProcessBootCompletion
  <2>1. CASE RebootToFrontPage
    BY <2>1, TurnOffLock DEF RebootToFrontPage, Holds
  <2>2. CASE ~RebootToFrontPage
    BY <1>8, <2>2, OthersKeepLock DEF ProcessBootCompletion, stored, LockInv, Early
  <2>3. QED
    BY <2>1, <2>2
<1>9. CASE UnableToBoot \/ BootNextReturns
  BY <1>9, TurnOffLock DEF UnableToBoot, BootNextReturns, RebootToFrontPage, Holds
<1>10. CASE Reorder \/ Create
  BY <1>10, ReorderLock, CreateLock
<1>11. ASSUME NEW n \in Numbers, Switch(n) \/ Delete(n) \/ ChooseNext(n)
       PROVE  LockInv' /\ Holds
  BY <1>11, SwitchLock, DeleteLock, ChooseLock
<1>12. ASSUME NEW name, ChangeSetting(name)
       PROVE  LockInv' /\ Holds
  BY <1>12 DEF ChangeSetting, LockInv, Early, Holds, protect, page
<1>13. CASE HandleSecureBootChange
  BY <1>13 DEF HandleSecureBootChange, ResetAfter, LockInv, Early, Holds, stored
<1>14. CASE HandleRebootToFrontPage
  BY <1>14 DEF HandleRebootToFrontPage, LockInv, Early, Holds, protect
<1>15. CASE LeaveByReset \/ PowerOff
  BY <1>15, TurnOffLock DEF LeaveByReset, PowerOff, Holds
<1>16. CASE LeaveToBoot
  BY <1>16, OthersKeepLock DEF LeaveToBoot, stored, Early
<1>17. CASE BootNextNow
  <2>1. phase = "frontpage" /\ ~ready /\ policy /\ ~mResetRequired
    BY <1>17 DEF BootNextNow, LockInv, Early
  <2>2. \/ TurnOff
        \/ /\ phase' = "bootnow" /\ \E next : PreReadyToBoot(next)
           /\ UNCHANGED <<BootOrder, Settings, page>>
    BY <1>17 DEF BootNextNow
  <2>3. CASE TurnOff
    BY <2>1, <2>3, TurnOffLock DEF Holds
  <2>4. ASSUME NEW next, PreReadyToBoot(next), phase' = "bootnow",
               UNCHANGED <<BootOrder, Settings, page>>
        PROVE  LockInv' /\ Holds
    BY <2>1, <2>4, PreReadyLocks DEF Early, Holds
  <2>5. QED
    BY <2>2, <2>3, <2>4
<1>18. QED
  BY <1>1, <1>2, <1>3, <1>4, <1>5, <1>6, <1>7, <1>8, <1>9, <1>10, <1>11, <1>12,
     <1>13, <1>14, <1>15, <1>16, <1>17
     DEF Next

LEMMA LockInvariant == Spec => []LockInv
<1>1. Init => LockInv
  BY DEF Init, LockInv, Early, Unlocked
<1>2. LockInv /\ OrderInv /\ [Next]_vars => LockInv'
  <2>1. LockInv /\ UNCHANGED vars => LockInv'
    BY OthersKeepLock DEF vars, stored
  <2>2. QED
    BY <2>1, LockStep
<1>3. QED
  BY <1>1, <1>2, OrderInvariant, PTL DEF Spec

\* What was locked stays as it is to the reset, whatever else could not be
\* locked, and no way through the front page unlocks it; where the boot order
\* lock is set and nothing slipped, that is all of what is booted next.
THEOREM LockAlwaysHolds == Spec => LockHolds
<1>1. ASSUME LockInv, OrderInv, [Next]_vars
      PROVE  ready /\ ready' =>
               /\ locked.order => BootOrder' = BootOrder
               /\ locked.next => BootNext' \in {BootNext, None}
               /\ \A n \in locked.options : Boot'[n] = Boot[n]
               /\ Settings.lock /\ ~slipped =>
                    /\ BootOrder' = BootOrder /\ BootNext' \in {BootNext, None}
                    /\ \A n \in Listed : Boot'[n] = Boot[n]
  <2>1. Holds
    <3>1. CASE Next
      BY <1>1, <3>1, LockStep
    <3>2. CASE UNCHANGED vars
      BY <3>2 DEF vars, stored, Holds
    <3>3. QED
      BY <1>1, <3>1, <3>2
  <2>2. ready => Covered
    BY <1>1, InForce
  <2>3. QED
    BY <2>1, <2>2 DEF Holds, Covered
<1>2. QED
  BY <1>1, LockInvariant, OrderInvariant, PTL DEF Spec, LockHolds

-----------------------------------------------------------------------------
(***************************************************************************)
(* Types                                                                   *)
(***************************************************************************)
\* The order and its options are typed by OrderInv, and the answers by KeyInv
\* while the questions are asked; the rest is this.
RestOK ==
  /\ scope \in Scopes /\ image \in Images
  /\ BootNext \in Numbers \union {None} /\ OsIndications \in BOOLEAN
  /\ Settings \in [lock : BOOLEAN, alt : BOOLEAN]
  /\ phase \in {"off", "register", "checks", "select", "frontpage", "boot",
               "running", "bootnow"}
  /\ step \in 1..(Len(Defaults) + Len(Questions)) /\ RetryCount \in 0..Retries
  /\ ButtonState \in {None, "up", "down"}
  /\ reads \in Seq(BOOLEAN) /\ Len(reads) <= Len(Questions) /\ early \in BOOLEAN
  /\ late \in BOOLEAN
  /\ queue \in Seq(Numbers) /\ slipped \in BOOLEAN
  /\ locked \in [order : BOOLEAN, next : BOOLEAN, options : SUBSET Numbers]
  /\ policy \in BOOLEAN /\ ready \in BOOLEAN
  /\ MsBootNext \in BOOLEAN /\ mResetRequired \in BOOLEAN

\* What every start and every restart finds, which the type of each is.
LEMMA Constants ==
  /\ Len(Defaults) \in Nat /\ 1 \in 1..Len(Defaults)
  /\ 1 \in 1..(Len(Defaults) + Len(Questions))
  /\ Retries \in Nat /\ Retries \in 0..Retries /\ Len(Questions) = 4
  /\ Unlocked \in [order : BOOLEAN, next : BOOLEAN, options : SUBSET Numbers]
<1>1. Len(Defaults) \in Nat /\ 1 \in 1..Len(Defaults)
  BY BootAssumption DEF Range
<1>2. QED
  BY <1>1, BootAssumption, QuestionCount DEF Unlocked

LEMMA TurnOffTypes ==
  ASSUME RestOK, TurnOff, UNCHANGED <<image, Settings>>,
         BootNext' \in Numbers \union {None}, OsIndications' \in BOOLEAN
  PROVE  RestOK'
<1>1. <<>> \in Seq(BOOLEAN) /\ <<>> \in Seq(Numbers) /\ Len(<<>>) = 0
  OBVIOUS
<1>2. /\ reads' = <<>> /\ queue' = <<>> /\ step' = 1 /\ RetryCount' = Retries
      /\ phase' = "off" /\ ButtonState' = None /\ locked' = Unlocked
      /\ early' = FALSE /\ late' = FALSE /\ policy' = TRUE /\ ready' = FALSE
      /\ MsBootNext' = FALSE /\ mResetRequired' = FALSE
      /\ slipped' = FALSE /\ UNCHANGED scope
  BY DEF TurnOff, Restarted
<1>3. /\ reads' \in Seq(BOOLEAN) /\ Len(reads') <= Len(Questions)
      /\ queue' \in Seq(Numbers)
  BY <1>1, <1>2, Constants
<1>4. /\ step' \in 1..(Len(Defaults) + Len(Questions))
      /\ RetryCount' \in 0..Retries
      /\ locked' \in [order : BOOLEAN, next : BOOLEAN, options : SUBSET Numbers]
  BY <1>2, Constants
<1>5. QED
  BY <1>2, <1>3, <1>4 DEF RestOK

LEMMA RebootTypes ==
  ASSUME RestOK, RebootToFrontPage
  PROVE  RestOK'
<1>1. OsIndications' \in BOOLEAN
  BY DEF RebootToFrontPage, RestOK
<1>2. QED
  BY <1>1, TurnOffTypes DEF RebootToFrontPage, RestOK

\* What BDS tries is the order, or one option before it.
LEMMA QueueType ==
  ASSUME NEW n \in Numbers, NEW list \in Seq(Numbers)
  PROVE  <<n>> \o list \in Seq(Numbers) /\ <<>> \o list \in Seq(Numbers)
OBVIOUS

LEMMA PreReadyTypes ==
  ASSUME RestOK, OrderInv, NEW next \in Numbers \union {None}, PreReadyToBoot(next)
  PROVE  /\ BootNext' \in Numbers \union {None} /\ slipped' \in BOOLEAN
         /\ locked' \in [order : BOOLEAN, next : BOOLEAN, options : SUBSET Numbers]
         /\ policy' \in BOOLEAN /\ ready' \in BOOLEAN
<1>1. Listed \subseteq Numbers
  BY DEF OrderInv, Listed, Range
<1>2. BootNext' \in {None, next}
  BY DEF PreReadyToBoot, AfterDelete
<1>3. \/ locked' = locked /\ slipped' = slipped
      \/ locked' \in Locks /\ slipped' = (locked' # AllLocked)
  BY DEF PreReadyToBoot
<1>4. locked' \in [order : BOOLEAN, next : BOOLEAN, options : SUBSET Numbers]
  <2>1. locked \in [order : BOOLEAN, next : BOOLEAN, options : SUBSET Numbers]
    BY DEF RestOK
  <2>2. Locks \subseteq [order : BOOLEAN, next : BOOLEAN, options : SUBSET Numbers]
    <3>1. AllLocked \in [order : BOOLEAN, next : BOOLEAN, options : SUBSET Numbers]
      BY <1>1 DEF AllLocked
    <3>2. [order : BOOLEAN, next : BOOLEAN, options : SUBSET Listed]
            \subseteq [order : BOOLEAN, next : BOOLEAN, options : SUBSET Numbers]
      BY <1>1
    <3>3. QED
      BY <3>1, <3>2 DEF Locks
  <2>3. QED
    BY <1>3, <2>1, <2>2
<1>5. policy' = policy /\ ready' = TRUE /\ slipped' \in BOOLEAN
  BY <1>3 DEF PreReadyToBoot, RestOK
<1>6. QED
  BY <1>2, <1>4, <1>5 DEF RestOK

LEMMA TypeStep ==
  ASSUME RestOK, KeyInv, KeyInv', OrderInv, [Next]_vars
  PROVE  RestOK'
<1> USE DEF RestOK
<1>1. CASE PowerOn
  BY <1>1 DEF PowerOn, select, protect, page
<1>2. CASE RegisterNext
  <2>1. step' \in 1..(Len(Defaults) + Len(Questions))
    BY <1>2, Constants DEF RegisterNext, OrderInv
  <2>2. QED
    BY <1>2, <2>1 DEF RegisterNext, select, page, protect
<1>3. CASE PreBootChecks
  <2>1. PICK power, thermal :
          \/ PreBootRound(power, thermal) \/ PreBootDone(power, thermal)
          \/ PreBootShutdown(power, thermal)
    BY <1>3 DEF PreBootChecks
  <2>2. CASE PreBootShutdown(power, thermal)
    BY <2>2, TurnOffTypes DEF PreBootShutdown, stored
  <2>3. CASE PreBootRound(power, thermal) \/ PreBootDone(power, thermal)
    BY <2>3, Constants
       DEF PreBootRound, PreBootDone, MoreRetries, stored, select, protect, page
  <2>4. QED
    BY <2>1, <2>2, <2>3
<1>4. ASSUME NEW key \in {"up", "down"}, KeyNotify(key)
      PROVE  RestOK'
  <2>1. /\ early' \in BOOLEAN /\ late' \in BOOLEAN
    BY <1>4 DEF KeyNotify
  <2>2. /\ ButtonState' = key
        /\ UNCHANGED <<scope, stored, phase, step, RetryCount, reads, queue,
                       protect, page>>
    BY <1>4 DEF KeyNotify
  <2>3. QED
    BY <2>1, <2>2 DEF stored, protect, page
<1>5. CASE AskButtons
  <2>1. phase = "select" /\ phase' = "select" /\ step' = step + 1
    BY <1>5 DEF AskButtons
  <2>2. /\ reads' \in Seq(BOOLEAN) /\ Len(reads') = step' - 1 /\ step' \in 1..5
    BY <2>1 DEF KeyInv
  <2>3. QED
    BY <1>5, <2>1, <2>2, Constants DEF AskButtons, stored, protect, page
<1>6. CASE PriorityBoot
  <2>1. BootOrder \in Seq(Numbers) /\ <<>> \in Seq(Numbers)
    BY DEF OrderInv
  <2>2. queue' \in Seq(Numbers)
    <3>1. \/ queue' \in {<<>>, BootOrder}
          \/ /\ BootNext # None /\ queue' = <<BootNext>> \o BootOrder
          \/ queue' = <<>> \o BootOrder
      BY <1>6 DEF PriorityBoot
    <3>2. CASE queue' \in {<<>>, BootOrder}
      BY <2>1, <3>2
    <3>3. CASE BootNext # None /\ queue' = <<BootNext>> \o BootOrder
      BY <2>1, <3>3, QueueType
    <3>4. CASE queue' = <<>> \o BootOrder
      BY <2>1, <3>4
    <3>5. QED
      BY <3>1, <3>2, <3>3, <3>4
  <2>3. /\ UNCHANGED <<scope, image, Settings, step, RetryCount, reads, early, late,
                       MsBootNext, mResetRequired>>
        /\ ButtonState' = None /\ phase' \in {"frontpage", "running", "boot"}
    BY <1>6 DEF PriorityBoot, page
  <2>4. OsIndications' \in BOOLEAN
    BY <1>6 DEF PriorityBoot
  <2>5. /\ BootNext' \in Numbers \union {None} /\ slipped' \in BOOLEAN
        /\ locked' \in [order : BOOLEAN, next : BOOLEAN, options : SUBSET Numbers]
        /\ policy' \in BOOLEAN /\ ready' \in BOOLEAN
    <3>1. \/ PreReadyToBoot(BootNext)
          \/ UNCHANGED protect /\ BootNext' \in {None, BootNext}
      BY <1>6 DEF PriorityBoot, AfterDelete
    <3>2. QED
      BY <3>1, PreReadyTypes DEF protect
  <2>6. QED
    BY <2>2, <2>3, <2>4, <2>5
<1>7. CASE TryNext
  <2>1. /\ queue' \in Seq(Numbers) /\ phase' \in {phase, "running"}
        /\ UNCHANGED <<scope, image, OsIndications, Settings, step, RetryCount,
                       select, page>>
    BY <1>7 DEF TryNext
  <2>2. PreReadyToBoot(BootNext) \/ UNCHANGED <<BootNext, protect>>
    BY <1>7 DEF TryNext
  <2>3. QED
    BY <2>1, <2>2, PreReadyTypes DEF protect, page, select
<1>8. CASE ProcessBootCompletion
  BY <1>8, RebootTypes
     DEF ProcessBootCompletion, stored, select, protect, page
<1>9. CASE UnableToBoot \/ BootNextReturns
  BY <1>9, RebootTypes DEF UnableToBoot, BootNextReturns
<1>10. CASE Reorder \/ Create
  BY <1>10 DEF Reorder, Create, Editing, select, protect, page
<1>11. ASSUME NEW n \in Numbers, Switch(n) \/ Delete(n)
       PROVE  RestOK'
  BY <1>11 DEF Switch, Delete, Editing, select, protect, page
<1>12. ASSUME NEW n \in Numbers, ChooseNext(n)
       PROVE  RestOK'
  BY <1>12 DEF ChooseNext, Editing, select, protect
<1>13. ASSUME NEW name \in {"lock", "alt"}, ChangeSetting(name)
       PROVE  RestOK'
  <2>1. Settings' \in [lock : BOOLEAN, alt : BOOLEAN]
    BY <1>13 DEF ChangeSetting
  <2>2. UNCHANGED <<scope, image, BootNext, OsIndications, phase, step, RetryCount,
                    select, queue, protect, page>>
    BY <1>13 DEF ChangeSetting
  <2>3. QED
    BY <2>1, <2>2 DEF select, protect, page
<1>14. CASE HandleSecureBootChange
  BY <1>14 DEF HandleSecureBootChange, ResetAfter, stored, select
<1>15. CASE HandleRebootToFrontPage
  <2>1. /\ OsIndications' \in BOOLEAN /\ mResetRequired' \in BOOLEAN
    BY <1>15 DEF HandleRebootToFrontPage
  <2>2. UNCHANGED <<scope, image, BootNext, Settings, phase, step, RetryCount,
                    select, queue, protect, MsBootNext>>
    BY <1>15 DEF HandleRebootToFrontPage
  <2>3. QED
    BY <2>1, <2>2 DEF select, protect
<1>16. CASE LeaveByReset \/ PowerOff
  BY <1>16, TurnOffTypes DEF LeaveByReset, PowerOff, stored
<1>17. CASE LeaveToBoot
  BY <1>17 DEF LeaveToBoot, stored, select, protect, page, OrderInv
<1>18. CASE BootNextNow
  <2>1. PICK next \in AfterDelete(BootNext) :
          \/ /\ phase' = "bootnow" /\ PreReadyToBoot(next)
             /\ UNCHANGED <<scope, image, OsIndications, Settings, step,
                            RetryCount, select, queue, page>>
          \/ /\ TurnOff /\ BootNext' = next /\ UNCHANGED <<image, Settings>>
             /\ OsIndications' \in {TRUE, OsIndications}
    BY <1>18 DEF BootNextNow
  <2>2. next \in Numbers \union {None}
    BY DEF AfterDelete
  <2>3. CASE TurnOff
    <3>1. BootNext' = next /\ UNCHANGED <<image, Settings>>
      BY <2>1, <2>3 DEF TurnOff
    <3>2. OsIndications' \in BOOLEAN
      BY <2>1, <2>3 DEF TurnOff
    <3>3. QED
      BY <2>2, <2>3, <3>1, <3>2, TurnOffTypes
  <2>4. CASE ~TurnOff
    BY <2>1, <2>2, <2>4, PreReadyTypes DEF select, page
  <2>5. QED
    BY <2>3, <2>4
<1>19. CASE UNCHANGED vars
  BY <1>19 DEF vars, stored, select, protect, page
<1>20. QED
  BY <1>1, <1>2, <1>3, <1>4, <1>5, <1>6, <1>7, <1>8, <1>9, <1>10, <1>11, <1>12,
     <1>13, <1>14, <1>15, <1>16, <1>17, <1>18, <1>19
     DEF Next

\* Every variable keeps its type; above all there is always a number for one
\* more option (EfiBootManagerAddLoadOptionVariable).
THEOREM BootTypeCorrect == Spec => []TypeOK
<1>1. Init => RestOK
  <2>1. <<>> \in Seq(BOOLEAN) /\ <<>> \in Seq(Numbers) /\ Len(<<>>) = 0
    OBVIOUS
  <2> SUFFICES ASSUME Init PROVE RestOK
    OBVIOUS
  <2>2. /\ reads \in Seq(BOOLEAN) /\ Len(reads) <= Len(Questions)
        /\ queue \in Seq(Numbers)
    BY <2>1, Constants DEF Init
  <2>3. /\ step \in 1..(Len(Defaults) + Len(Questions))
        /\ RetryCount \in 0..Retries
        /\ locked \in [order : BOOLEAN, next : BOOLEAN, options : SUBSET Numbers]
    BY Constants DEF Init
  <2>4. /\ scope \in Scopes /\ image \in Images /\ BootNext = None
        /\ OsIndications = FALSE /\ Settings \in [lock : BOOLEAN, alt : BOOLEAN]
        /\ phase = "off" /\ ButtonState = None /\ early = FALSE /\ late = FALSE
        /\ slipped = FALSE /\ policy = TRUE /\ ready = FALSE /\ MsBootNext = FALSE
        /\ mResetRequired = FALSE
    BY DEF Init
  <2>5. QED
    BY <2>2, <2>3, <2>4 DEF RestOK
<1>2. RestOK /\ KeyInv /\ KeyInv' /\ OrderInv /\ [Next]_vars => RestOK'
  BY TypeStep
<1>3. RestOK /\ OrderInv => TypeOK
  BY DEF RestOK, OrderInv, TypeOK
<1>4. QED
  BY <1>1, <1>2, <1>3, KeyInvariant, OrderInvariant, PTL DEF Spec
=============================================================================
