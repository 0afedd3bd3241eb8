--------------------------- MODULE AuthVariables ---------------------------
(***************************************************************************)
(* The authenticated variables of SurfaceDuoFamilyPkg's AuthVariableLib    *)
(* (AuthVariableLib.c and AuthService.c): the platform key, the signature  *)
(* lists it and the key exchange keys protect, the private variables whose *)
(* signers are kept in certdb and certdbv, and the mode variables that     *)
(* follow them.  A request is handled by one thread and cannot interleave  *)
(* with another; what the model explores is every write to the store       *)
(* failing and the power going at every write.                             *)
(***************************************************************************)
EXTENDS Naturals, Sequences, FiniteSets, Filtering

CONSTANTS
  Keys,      \* signers: a certificate chain and the key it signs with
  Priv,      \* names of private (common) authenticated variables
  Shapes,    \* for a name the attributes of its requests: nonvolatile,
             \* authenticated, append
  Payloads,  \* payloads: sequences of the keys a signature list holds
  Scopes,    \* what may happen in one behaviour
  MaxTime,   \* bound on time stamps
  MaxSigs,   \* bound on the keys of a list
  MaxCerts,  \* the entries that fit mMaxCertDbSize
  Pcds,      \* builds: PcdRequireSelfSignedPk, PcdEnforceSelfsignedPk
  MayFail,   \* may a write to the store fail?
  MayLose    \* may the power go?

ASSUME AuthAssumption ==
  /\ \A n \in {"PK", "KEK", "db"} \union Priv :
       Shapes[n] \subseteq [nv : BOOLEAN, at : BOOLEAN, append : BOOLEAN]
  /\ Payloads \subseteq Seq(Keys) /\ "none" \notin Keys
  /\ Priv \intersect {"PK", "KEK", "db"} = {}
  /\ MaxTime \in Nat /\ MaxSigs \in Nat /\ MaxCerts \in Nat
  /\ Pcds \subseteq [require : BOOLEAN, enforce : BOOLEAN]
  /\ MayFail \in BOOLEAN /\ MayLose \in BOOLEAN

None == "none"
Lists == {"KEK", "db"}           \* dbx and dbt are handled as db
Names == {"PK"} \union Lists \union Priv
Absent == [exists |-> FALSE, sigs |-> <<>>]

VARIABLES
  pcd,
  scope,     \* what happens in this behaviour: the names of its requests,
             \* "buttons" and "policy"
  phase,     \* "off", "clean" and "finish" (starting), "services",
             \* "runtime", or "dead" when the library did not start
  s,         \* the variable store and the library's globals
  present,   \* mUserPhysicalPresence: "assumed", or "no" or "yes"
  policy,    \* IsVariablePolicyEnabled
  last       \* history: the last answer, and the signer of what changed

vars == <<pcd, scope, phase, s, present, policy, last>>

\* A request for a variable that carries authentication data.
Request ==
  UNION {{[name |-> n, nv |-> a.nv, at |-> a.at, append |-> a.append,
           payload |-> d, time |-> i, signer |-> k] :
            a \in Shapes[n], d \in Payloads, i \in 0..MaxTime,
            k \in Keys \union {None}} : n \in scope \intersect Names}

\* What a stored variable keeps; by is a history field, its last signer.
Variable == [exists : {TRUE}, sigs : Seq(Keys), time : 0..MaxTime,
             nv : BOOLEAN, at : BOOLEAN, by : Keys \union {None}]

NoCerts == [n \in Priv |-> None]
Elems(list) == {list[i] : i \in DOMAIN list}

-----------------------------------------------------------------------------
(***************************************************************************)
(* Writes and their outcomes.  A write is done, or fails, or the power     *)
(* goes after it (before it is after the write before, or PowerOff).  Then *)
(* continues what was done.                                                *)
(***************************************************************************)
Done(t) == [st |-> t, status |-> "ok", del |-> FALSE]
Error(t) == [st |-> t, status |-> "error", del |-> FALSE]
Lost(t) == [st |-> t, status |-> "lost", del |-> FALSE]

Stored(t, new) ==
  {Done(new)} \union (IF MayFail THEN {Error(t)} ELSE {})
              \union (IF MayLose THEN {Lost(new)} ELSE {})

Then(R, Next1(_)) ==
  UNION {IF r.status = "ok" THEN Next1(r.st) ELSE {r} : r \in R}

\* FilterSignatureList, for an append to an existing signature list.
NewSigs(old, q) ==
  IF old.exists /\ q.append /\ q.name \in Lists
  THEN Without(q.payload, Elems(old.sigs))
  ELSE q.payload

MaxOf(a, b) == IF a > b THEN a ELSE b

\* The driver's UpdateVariable: the store after it, if it takes the write.
Updated(t, q) ==
  LET old == t.v[q.name]
      data == NewSigs(old, q)
      kept == IF q.name \in Priv THEN <<>> ELSE data
      new == [exists |-> TRUE, sigs |-> kept, time |-> q.time, nv |-> q.nv,
              at |-> q.at, by |-> IF q.name \in Priv THEN q.signer ELSE None]
  IN [t EXCEPT !.v[q.name] =
        CASE ~old.exists -> new
          [] old.exists /\ q.append ->
               [old EXCEPT !.sigs = @ \o kept, !.time = MaxOf(@, q.time)]
          [] old.exists /\ ~q.append /\ data = <<>> -> Absent
          [] OTHER -> new]

\* An existing variable keeps its attributes, and a new one needs data.
Takes(t, q) ==
  LET old == t.v[q.name]
  IN IF old.exists THEN old.nv = q.nv /\ old.at = q.at
                   ELSE q.payload # <<>>

Update(t, q) == IF Takes(t, q) THEN Stored(t, Updated(t, q)) ELSE {Error(t)}

-----------------------------------------------------------------------------
(***************************************************************************)
(* The signers of private variables: certdb, and certdbv for volatile ones *)
(***************************************************************************)
Certs(t, nv) == IF nv THEN t.certdb ELSE t.certdbv

WithCert(t, nv, n, k) ==
  IF nv THEN [t EXCEPT !.certdb[n] = k] ELSE [t EXCEPT !.certdbv[n] = k]

\* InsertCertsToDb.
InsertCerts(t, q) ==
  LET certs == Certs(t, q.nv)
  IN IF \/ certs[q.name] # None
        \/ Cardinality({n \in Priv : certs[n] # None}) >= MaxCerts
     THEN {Error(t)}
     ELSE Stored(t, WithCert(t, q.nv, q.name, q.signer))

\* DeleteCertsFromDb: an empty database needs no entry to be deleted.
DeleteCerts(t, n, nv) ==
  LET certs == Certs(t, nv)
  IN CASE certs = NoCerts -> {Done(t)}
       [] certs # NoCerts /\ certs[n] = None -> {Error(t)}
       [] OTHER -> Stored(t, WithCert(t, nv, n, None))

-----------------------------------------------------------------------------
(***************************************************************************)
(* Verification                                                            *)
(***************************************************************************)
\* AuthServiceInternalCompareTimeStamp in VerifyTimeBasedPayload.
Fresh(old, q) == old.exists /\ ~q.append => q.time > old.time

\* CheckSignatureListFormat: lists are well formed, a PK is a single key.
WellFormed(q) == q.name = "PK" => Len(q.payload) <= 1

\* The signer is the one of the current PK.
SignedByPk(t, q) == t.v["PK"].exists /\ q.signer = Head(t.v["PK"].sigs)

\* Some key exchange key verifies the signature.
SignedByKek(t, q) == t.v["KEK"].exists /\ q.signer \in Elems(t.v["KEK"].sigs)

\* Mutant of SignedByOwner: an existing private variable is not looked up.
SignedByOwner_New(t, q) == q.signer # None

\* The signer of a private variable is the one it was created by.
SignedByOwner(t, q) ==
  /\ q.signer # None
  /\ t.v[q.name].exists => Certs(t, q.nv)[q.name] = q.signer

\* The first key of the payload verifies the signature of the payload.
SignedByPayload(t, q) == q.payload # <<>> /\ q.signer = Head(q.payload)

\* Whom each AUTHVAR_TYPE trusts.
SignedFor(t, q, type) ==
  \/ type = "Pk" /\ SignedByPk(t, q)
  \/ type = "Kek" /\ SignedByKek(t, q)
  \/ type = "Priv" /\ SignedByOwner(t, q)
  \/ type = "Payload" /\ SignedByPayload(t, q)

\* VerifyTimeBasedPayload.  The signer of a new private variable goes into
\* the database before the variable is written.
Verify(t, q, type) ==
  LET old == t.v[q.name]
      unsigned == q.payload = <<>> /\ ~q.append /\ ~policy
      checked == CASE ~Fresh(old, q) -> {Error(t)}
                   [] Fresh(old, q) /\ unsigned -> {Done(t)}
                   [] Fresh(old, q) /\ ~unsigned /\ ~SignedFor(t, q, type) ->
                        {Error(t)}
                   [] OTHER -> IF type = "Priv" /\ ~old.exists /\ q.payload # <<>>
                               THEN InsertCerts(t, q) ELSE {Done(t)}
  IN Then(checked, LAMBDA u : IF WellFormed(q) THEN {Done(u)} ELSE {Error(u)})

\* VerifyTimeBasedPayloadAndUpdate.
VerifyAndUpdate(t, q, type) ==
  LET isDel == t.v[q.name].exists /\ q.payload = <<>> /\ ~q.append
      written == Then(Verify(t, q, type), LAMBDA u : Update(u, q))
      cleaned == IF isDel /\ type = "Priv"
                 THEN Then(written, LAMBDA u : DeleteCerts(u, q.name, q.nv))
                 ELSE written
  IN IF phase = "runtime" THEN {Error(t)}
     ELSE {[r EXCEPT !.del = isDel /\ r.status = "ok"] : r \in cleaned}

-----------------------------------------------------------------------------
(***************************************************************************)
(* Platform mode and vendor keys                                           *)
(***************************************************************************)
\* Mutant of UpdatePlatformMode: the mode stays as it was.
UpdatePlatformMode_Stay(t, mode) == {Done(t)}

\* UpdatePlatformMode.  At run time only the mode itself changes.
UpdatePlatformMode(t, mode) ==
  LET u == [t EXCEPT !.mode = mode]
      secure == IF mode = "user" THEN "on" ELSE "off"
      Enable(w) ==
        IF mode = "user" THEN Stored(w, [w EXCEPT !.SecureBootEnable = "on"])
        ELSE IF w.SecureBootEnable = "none" THEN {Done(w)}
             ELSE Stored(w, [w EXCEPT !.SecureBootEnable = "none"])
  IN IF phase = "runtime" THEN {Done(u)}
     ELSE Then(Stored(u, [u EXCEPT !.SecureBoot = secure]), Enable)

\* Mutant of VendorKeyIsModified: the volatile copy is written first.
VendorKeyIsModified_Swapped(t) ==
  LET u == [t EXCEPT !.vendor = "modified"]
  IN IF t.vendor = "modified" THEN {Done(t)}
     ELSE Then(Stored(u, [u EXCEPT !.VendorKeys = "modified"]),
               LAMBDA w : Stored(w, [w EXCEPT !.VendorKeysNv = "modified"]))

\* VendorKeyIsModified: the state in memory changes before the store does.
VendorKeyIsModified(t) ==
  LET u == [t EXCEPT !.vendor = "modified"]
  IN IF t.vendor = "modified" THEN {Done(t)}
     ELSE IF phase = "runtime" THEN {Error(u)}
     ELSE Then(Stored(u, [u EXCEPT !.VendorKeysNv = "modified"]),
               LAMBDA w : Stored(w, [w EXCEPT !.VendorKeys = "modified"]))

\* The driver does not find the variable at run time.
InCustomMode(t) == phase = "services" /\ t.CustomMode = "custom"

UserPhysicalPresent == present # "no"
ByUser(t) == InCustomMode(t) /\ UserPhysicalPresent

-----------------------------------------------------------------------------
(***************************************************************************)
(* The handlers of AuthVariableLibProcessVariable                          *)
(***************************************************************************)
\* A write that is not verified; Tell says whether vendor keys changed.
Unverified(t, q, tell) ==
  IF ~WellFormed(q) THEN {Error(t)}
  ELSE LET written == Update(t, q)
           told == IF tell THEN Then(written, VendorKeyIsModified) ELSE written
       IN {[r EXCEPT !.del = q.payload = <<>>] : r \in told}

\* The mode that an accepted change of the PK asks for.
ModeAfter(r) ==
  CASE r.st.mode = "setup" /\ ~r.del -> UpdatePlatformMode(r.st, "user")
    [] r.st.mode = "user" /\ r.del -> UpdatePlatformMode(r.st, "setup")
    [] OTHER -> {Done(r.st)}

\* Mutant of ProcessVarWithPk: in user mode nothing is verified.
ProcessVarWithPk_Open(t, q) ==
  LET written == Unverified(t, q, t.mode # "setup")
  IN IF q.name # "PK" THEN written
     ELSE UNION {IF r.status = "ok" THEN ModeAfter(r) ELSE {r} : r \in written}

\* ProcessVarWithPk.  The unsigned write of a PK leaves Del unset.
ProcessVarWithPk(t, q) ==
  LET isPk == q.name = "PK"
      open == \/ ByUser(t) \/ ~policy
              \/ t.mode = "setup" /\ ~(pcd.require /\ isPk)
      written ==
        IF ~q.nv \/ ~q.at THEN {Error(t)}
        ELSE IF open
             THEN Unverified(t, q, t.mode # "setup" \/ (pcd.require /\ isPk))
        ELSE IF t.mode = "user" THEN VerifyAndUpdate(t, q, "Pk")
        ELSE IF ~pcd.enforce /\ isPk THEN Update(t, q)
        ELSE VerifyAndUpdate(t, q, "Payload")
  IN IF ~isPk THEN written
     ELSE UNION {IF r.status = "ok" THEN ModeAfter(r) ELSE {r} : r \in written}

\* ProcessVarWithKek.
ProcessVarWithKek(t, q) ==
  IF ~q.nv \/ ~q.at THEN {Error(t)}
  ELSE IF t.mode = "user" /\ ~ByUser(t) THEN VerifyAndUpdate(t, q, "Kek")
  ELSE Unverified(t, q, t.mode # "setup")

\* A delete by a user who is present, or with the policy engine off.
DeletePrivate(t, q) ==
  Then(Stored(t, [t EXCEPT !.v[q.name] = Absent]),
       LAMBDA u : DeleteCerts(u, q.name, q.nv))

\* ProcessVariable, for private variables and for writes without
\* authentication.
ProcessVariable(t, q) ==
  LET old == t.v[q.name]
      isDelete == /\ old.exists /\ old.nv = q.nv /\ old.at = q.at /\ q.at
                  /\ q.payload = <<>> /\ ~q.append
  IN CASE isDelete /\ (UserPhysicalPresent \/ ~policy) -> DeletePrivate(t, q)
       [] ~(isDelete /\ (UserPhysicalPresent \/ ~policy)) /\ q.at ->
            VerifyAndUpdate(t, q, "Priv")
       [] ~q.at /\ old.exists /\ old.at -> {Error(t)}
       [] OTHER -> Update(t, q)

\* AuthVariableLibProcessVariable.
Process(t, q) ==
  CASE q.name \in {"PK", "KEK"} -> ProcessVarWithPk(t, q)
    [] q.name \in Lists \ {"KEK"} ->
         UNION {IF r.status = "error" THEN ProcessVarWithKek(r.st, q) ELSE {r} :
                r \in ProcessVarWithPk(t, q)}
    [] OTHER -> ProcessVariable(t, q)

-----------------------------------------------------------------------------
(***************************************************************************)
(* Starting                                                                *)
(***************************************************************************)
\* What only memory and volatile variables hold, as they are when off.
Cleared(t) ==
  [t EXCEPT !.mode = "setup", !.SecureBoot = "off", !.vendor = "valid",
            !.VendorKeys = "valid", !.certdbv = NoCerts,
            !.v = [n \in Names |-> IF t.v[n].exists /\ ~t.v[n].nv
                                   THEN Absent ELSE t.v[n]]]

Nothing == [signer |-> None, answer |-> "none"]

Init ==
  /\ pcd \in Pcds /\ scope \in Scopes
  /\ phase = "off"
  /\ s = [v |-> [n \in Names |-> Absent], certdb |-> NoCerts, made |-> FALSE,
          SecureBootEnable |-> "none", CustomMode |-> "none",
          VendorKeysNv |-> "none", mode |-> "setup", SecureBoot |-> "off",
          vendor |-> "valid", VendorKeys |-> "valid", certdbv |-> NoCerts]
  /\ present = "assumed" /\ policy = TRUE
  /\ last = Nothing

\* The phase after one of the steps of the start.
Reach(r, next) == CASE r.status = "ok" -> next
                    [] r.status = "error" -> "dead"
                    [] r.status = "lost" -> "off"

Become(r, next) ==
  /\ phase' = Reach(r, next)
  /\ s' = IF r.status = "ok" THEN r.st ELSE Cleared(r.st)
  /\ UNCHANGED <<pcd, scope>>

\* SetupMode, SecureBootEnable, SecureBoot and CustomMode.  In user mode
\* SecureBootEnable is made to say that secure boot is on.
ModeVariables(t) ==
  LET u == [t EXCEPT !.mode = IF t.v["PK"].exists THEN "user" ELSE "setup"]
      enabled == IF u.mode = "user" /\ u.SecureBootEnable # "on"
                 THEN Stored(u, [u EXCEPT !.SecureBootEnable = "on"])
                 ELSE {Done(u)}
      secure == IF u.mode = "user" THEN "on" ELSE "off"
  IN Then(Then(enabled, LAMBDA w : Stored(w, [w EXCEPT !.SecureBoot = secure])),
          LAMBDA w : Stored(w, [w EXCEPT !.CustomMode = "standard"]))

\* AuthVariableLibInitialize up to certdb, which is created or cleaned.
Initialize ==
  /\ phase = "off"
  /\ \E r \in Then(ModeVariables(s),
                   LAMBDA t : IF t.made THEN {Done(t)}
                              ELSE Stored(t, [t EXCEPT !.made = TRUE])) :
       Become(r, IF s.made THEN "clean" ELSE "finish")
  /\ present' = "assumed" /\ policy' = TRUE
  /\ last' = Nothing

\* Mutant of Orphans: the attributes of the variable are not looked at.
Orphans_Any(t) == {n \in Priv : t.certdb[n] # None /\ ~t.v[n].exists}

\* The entries of certdb that have no time based authenticated variable.
Orphans(t) ==
  {n \in Priv : /\ t.certdb[n] # None
                /\ ~t.v[n].exists \/ ~t.v[n].at}

\* One round of CleanCertsFromDb: it goes on until a round finds no orphan,
\* whether or not a round could delete the one it found.
CleanCertsFromDb ==
  /\ phase = "clean"
  /\ IF Orphans(s) = {} THEN Become(Done(s), "finish")
     ELSE \E n \in Orphans(s) : \E r \in DeleteCerts(s, n, TRUE) :
            Become(IF r.status = "error" THEN Done(r.st) ELSE r, "clean")
  /\ UNCHANGED <<present, policy, last>>

\* Mutant of VendorKeys: the nonvolatile copy is not made.
VendorKeys_Volatile(t) == Stored(t, [t EXCEPT !.VendorKeys = t.vendor])

\* VendorKeysNv, made when it is not there, and its copy VendorKeys.
VendorKeys(t) ==
  Then(IF t.VendorKeysNv = "none"
       THEN Stored(t, [t EXCEPT !.VendorKeysNv = "valid"])
       ELSE {Done([t EXCEPT !.vendor = t.VendorKeysNv])},
       LAMBDA w : Stored(w, [w EXCEPT !.VendorKeys = w.vendor]))

\* AuthVariableLibInitialize from certdbv on.
FinishInitialize ==
  /\ phase = "finish"
  /\ \E r \in Then(Stored(s, s), VendorKeys) : Become(r, "services")
  /\ UNCHANGED <<present, policy, last>>

-----------------------------------------------------------------------------
(***************************************************************************)
(* Requests                                                                *)
(***************************************************************************)
Running == phase \in {"services", "runtime"}

Answered(r) ==
  /\ r.status # "lost" => phase' = phase /\ s' = r.st /\ UNCHANGED <<pcd, scope>>
  /\ r.status = "lost" => Become(r, phase)

SetVariable(q) ==
  /\ Running
  /\ Len(s.v[q.name].sigs) + Len(q.payload) <= MaxSigs  \* bound
  /\ \E r \in Process(s, q) :
       /\ Answered(r)
       /\ last' = [signer |-> IF r.st.v = s.v THEN None ELSE q.signer,
                   answer |-> r.status]
  /\ UNCHANGED <<present, policy>>

\* ProcessVariable for the two variables that need a user to be present.
\* NeedPhysicallyPresent asks for one only while the policy engine is on.
SetMode(field, value) ==
  /\ phase = "services"
  /\ UserPhysicalPresent \/ ~policy
  /\ \E r \in Stored(s, [s EXCEPT ![field] = value]) :
       /\ Answered(r)
       /\ last' = [signer |-> None, answer |-> r.status]
  /\ UNCHANGED <<present, policy>>

\* UserPhysicalPresent: TRUE until the buttons can be asked, then only
\* after a volume key was pressed.
FindButtons ==
  /\ Running /\ present = "assumed" /\ "buttons" \in scope
  /\ present' = "no"
  /\ last' = Nothing
  /\ UNCHANGED <<pcd, scope, phase, s, policy>>

KeyNotify ==
  /\ Running /\ present = "no"
  /\ present' = "yes"
  /\ last' = Nothing
  /\ UNCHANGED <<pcd, scope, phase, s, policy>>

DisablePolicy ==
  /\ phase = "services" /\ policy /\ "policy" \in scope
  /\ policy' = FALSE
  /\ last' = Nothing
  /\ UNCHANGED <<pcd, scope, phase, s, present>>

ExitBootServices ==
  /\ phase = "services"
  /\ phase' = "runtime"
  /\ last' = Nothing
  /\ UNCHANGED <<pcd, scope, s, present, policy>>

PowerOff ==
  /\ phase # "off"
  /\ Become(Lost(s), phase)
  /\ last' = Nothing
  /\ present' = "assumed" /\ policy' = TRUE

Next ==
  \/ Initialize \/ CleanCertsFromDb \/ FinishInitialize
  \/ \E q \in Request : SetVariable(q)
  \/ /\ "SecureBootEnable" \in scope
     /\ \E value \in {"none", "on", "off"} : SetMode("SecureBootEnable", value)
  \/ /\ "CustomMode" \in scope
     /\ \E value \in {"none", "standard", "custom"} : SetMode("CustomMode", value)
  \/ FindButtons \/ KeyNotify \/ DisablePolicy \/ ExitBootServices \/ PowerOff

Spec == Init /\ [][Next]_vars

-----------------------------------------------------------------------------
(***************************************************************************)
(* Properties                                                              *)
(***************************************************************************)
State == [v : [Names -> {Absent} \union Variable],
          certdb : [Priv -> Keys \union {None}], made : BOOLEAN,
          SecureBootEnable : {"none", "on", "off"},
          CustomMode : {"none", "standard", "custom"},
          VendorKeysNv : {"none", "valid", "modified"},
          mode : {"setup", "user"}, SecureBoot : {"on", "off"},
          vendor : {"valid", "modified"}, VendorKeys : {"valid", "modified"},
          certdbv : [Priv -> Keys \union {None}]]

\* Every variable keeps its type, and the library's own variables are there
\* while requests are taken.
TypeOK ==
  /\ pcd \in Pcds /\ scope \in Scopes
  /\ phase \in {"off", "clean", "finish", "services", "runtime", "dead"}
  /\ s \in State
  /\ Running => s.made /\ s.VendorKeysNv # "none"
  /\ present \in {"assumed", "no", "yes"} /\ policy \in BOOLEAN
  /\ last \in [signer : Keys \union {None},
               answer : {"none", "ok", "error", "lost"}]

\* "VendorKeys" says modified only when the nonvolatile copy does, so that a
\* start never takes it back (VendorKeyIsModified).
VendorKeysKept == s.VendorKeys = "modified" => s.VendorKeysNv = "modified"

\* The database always holds the signer of the last accepted write of a
\* private variable, through failed writes, power loss and the cleaning of
\* the database (VerifyTimeBasedPayload, CleanCertsFromDb).
SignerRecorded ==
  \A n \in Priv :
    s.v[n].exists /\ s.v[n].at => Certs(s, s.v[n].nv)[n] = s.v[n].by

\* certdb keeps no signer of a variable that is gone, who would keep others
\* from creating it: a delete that was answered with success leaves none, and
\* neither does the cleaning at a start, whatever failed writes or a power
\* loss left there (DeleteCertsFromDb, CleanCertsFromDb).
OrphansCleared ==
  [][\A n \in Priv :
       /\ last'.answer = "ok" /\ s.v[n].exists /\ s.v[n].at /\ ~s'.v[n].exists
          => Certs(s', s.v[n].nv)[n] = None
       /\ phase = "clean" /\ phase' = "finish" /\ s'.certdb[n] # None
          => s'.v[n].exists /\ s'.v[n].at]_vars

InMode(t) == t.mode = IF t.v["PK"].exists THEN "user" ELSE "setup"

\* The platform key decides the mode and secure boot: a change that creates
\* or deletes it and is answered with success keeps the mode the one it asks
\* for, and after every start secure boot is on exactly when it is there,
\* whatever SecureBootEnable and CustomMode were left at
\* (UpdatePlatformMode, AuthVariableLibInitialize).
KeyGivesMode ==
  [][/\ (/\ last'.answer = "ok" /\ s.v["PK"].exists # s'.v["PK"].exists
         /\ InMode(s))
        => InMode(s')
     /\ phase = "finish" /\ phase' = "services" =>
          /\ s'.SecureBoot = IF s'.v["PK"].exists THEN "on" ELSE "off"
          /\ s'.CustomMode = "standard"]_vars

Guarded == s.mode = "user" /\ ~ByUser(s) /\ policy

\* In user mode the keys change only by the hand of their owner, the PK and
\* the KEK by that of the PK, db also by that of a KEK, and never back to an
\* earlier time stamp, whatever fails on the way (ProcessVarWithPk,
\* ProcessVarWithKek).
OwnerChanges ==
  [][Guarded /\ Running =>
       \A n \in Names \ Priv : s'.v[n] # s.v[n] =>
         /\ \/ /\ s.v["PK"].exists
               /\ last'.signer = Head(s.v["PK"].sigs)
            \/ n = "db" /\ last'.signer \in Elems(s.v["KEK"].sigs)
         /\ s.v[n].exists /\ s'.v[n].exists => s'.v[n].time >= s.v[n].time]_vars
=============================================================================
