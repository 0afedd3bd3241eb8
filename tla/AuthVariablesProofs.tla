------------------------ MODULE AuthVariablesProofs ------------------------
(***************************************************************************)
(* Proofs about AuthVariables, for all names, payloads, attributes, builds *)
(* and bounds, and with every write free to fail or to be the last before  *)
(* the power goes.                                                         *)
(*                                                                         *)
(* A handler is a chain of writes, and the model gives the set of its      *)
(* outcomes.  The lemmas are therefore of one form: from a store with some *)
(* property the outcomes of an operation lie in Outcomes(X, Y), which says *)
(* that every store it may leave is in X, and in Y where it succeeded.     *)
(***************************************************************************)
EXTENDS AuthVariables, FilteringProofs

-----------------------------------------------------------------------------
(***************************************************************************)
(* The inductive invariant                                                 *)
(***************************************************************************)
\* The outcomes that leave a store of X, and of Y when all was done.
Outcomes(X, Y) ==
  {r \in [st : X, status : {"ok", "error", "lost"}, del : BOOLEAN] :
     r.status = "ok" => r.st \in Y}

\* What VendorKeysKept and SignerRecorded say, of any store.
VendorKept(t) == t.VendorKeys = "modified" => t.VendorKeysNv = "modified"

SignerKept(t) ==
  \A n \in Priv :
    t.v[n].exists /\ t.v[n].at => Certs(t, t.v[n].nv)[n] = t.v[n].by

\* The keys do not go with the power.
KeysLast(t) == \A n \in Names \ Priv : t.v[n].exists => t.v[n].nv

Good == {t \in State : VendorKept(t) /\ SignerKept(t) /\ KeysLast(t)}

\* Where requests are taken the library's own variables are there.
Ready == {t \in Good : t.made /\ t.VendorKeysNv # "none"}

\* The start begins with nothing in memory, and the keys decide the mode
\* variables in its first step.
AuthInv ==
  /\ TypeOK /\ s \in Good
  /\ phase \in {"off", "clean", "finish"} => s.vendor = "valid"
  /\ phase \in {"clean", "finish"} =>
       /\ s.made /\ last = Nothing /\ s.CustomMode = "standard"
       /\ s.SecureBoot = IF s.v["PK"].exists THEN "on" ELSE "off"

-----------------------------------------------------------------------------
(***************************************************************************)
(* Outcomes of one write                                                   *)
(***************************************************************************)
\* What was not written is as before, what was is new.
LEMMA StoredOutcomes ==
  ASSUME NEW X, NEW Y, NEW t \in X, NEW new \in X, new \in Y
  PROVE  Stored(t, new) \subseteq Outcomes(X, Y)
PROOF
  <1>1. Stored(t, new) \subseteq {Done(new), Error(t), Lost(new)}
    BY DEF Stored
  <1>2. {Done(new), Error(t), Lost(new)} \subseteq Outcomes(X, Y)
    BY DEF Outcomes, Done, Error, Lost
  <1> QED BY <1>1, <1>2

LEMMA DoneOutcome ==
  ASSUME NEW X, NEW Y, NEW t \in X, t \in Y
  PROVE  {Done(t)} \subseteq Outcomes(X, Y)
PROOF
  BY DEF Outcomes, Done

LEMMA ErrorOutcome ==
  ASSUME NEW X, NEW Y, NEW t \in X
  PROVE  {Error(t)} \subseteq Outcomes(X, Y)
PROOF
  BY DEF Outcomes, Error

-----------------------------------------------------------------------------
(***************************************************************************)
(* Requests and the variables they make                                    *)
(***************************************************************************)
Requests ==
  [name : Names, nv : BOOLEAN, at : BOOLEAN, append : BOOLEAN,
   payload : Seq(Keys), time : 0..MaxTime, signer : Keys \union {None}]

LEMMA RequestType == Request \subseteq Requests
PROOF
  <1>1. SUFFICES ASSUME NEW n \in scope \intersect Names, NEW a \in Shapes[n],
                        NEW d \in Payloads, NEW i \in 0..MaxTime,
                        NEW k \in Keys \union {None}
                 PROVE  [name |-> n, nv |-> a.nv, at |-> a.at,
                         append |-> a.append, payload |-> d, time |-> i,
                         signer |-> k] \in Requests
    BY DEF Request
  <1>2. a \in [nv : BOOLEAN, at : BOOLEAN, append : BOOLEAN]
    BY AuthAssumption DEF Names, Lists
  <1> QED BY <1>2, AuthAssumption DEF Requests

\* The signatures an append adds are of the payload.
LEMMA NewSigsType ==
  ASSUME NEW q \in Requests, NEW old
  PROVE  NewSigs(old, q) \in Seq(Keys)
PROOF
  <1>1. q.payload \in Seq(Keys)
    BY DEF Requests
  <1>2. Without(q.payload, Elems(old.sigs)) \in Seq(Keys)
    BY <1>1, WithoutKeeps
  <1> QED BY <1>1, <1>2 DEF NewSigs

\* What UpdateVariable makes of the variable it is asked for.
Successor(t, q) == Updated(t, q).v[q.name]

LEMMA UpdatedStore ==
  ASSUME NEW t \in State, NEW q \in Requests
  PROVE  /\ Successor(t, q) \in {Absent} \union Variable
         /\ Updated(t, q) = [t EXCEPT !.v[q.name] = Successor(t, q)]
         /\ Updated(t, q).v = [t.v EXCEPT ![q.name] = Successor(t, q)]
         /\ Updated(t, q) \in State
PROOF
  <1> DEFINE old == t.v[q.name]
             data == NewSigs(old, q)
             kept == IF q.name \in Priv THEN <<>> ELSE data
             new == [exists |-> TRUE, sigs |-> kept, time |-> q.time,
                     nv |-> q.nv, at |-> q.at,
                     by |-> IF q.name \in Priv THEN q.signer ELSE None]
             longer == [old EXCEPT !.sigs = @ \o kept, !.time = MaxOf(@, q.time)]
             x == CASE ~old.exists -> new
                    [] old.exists /\ q.append -> longer
                    [] old.exists /\ ~q.append /\ data = <<>> -> Absent
                    [] OTHER -> new
  <1>1. Updated(t, q) = [t EXCEPT !.v[q.name] = x]
    BY DEF Updated
  <1>2. old \in {Absent} \union Variable
    BY DEF State, Requests
  <1>3. kept \in Seq(Keys)
    BY NewSigsType
  <1>4. new \in Variable
    <2> HIDE DEF kept
    <2> QED BY <1>3 DEF Variable, Requests
  <1>5. old.exists => longer \in Variable
    <2>1. SUFFICES ASSUME old.exists PROVE longer \in Variable
      OBVIOUS
    <2>2. old \in Variable
      BY <1>2, <2>1 DEF Absent
    <2>3. MaxOf(old.time, q.time) \in 0..MaxTime
      BY <2>2 DEF MaxOf, Variable, Requests
    <2>4. old.sigs \o kept \in Seq(Keys)
      <3>1. old.sigs \in Seq(Keys)
        BY <2>2 DEF Variable
      <3> HIDE DEF old, kept
      <3> QED BY <1>3, <3>1
    <2> HIDE DEF old, kept
    <2> QED BY <2>2, <2>3, <2>4 DEF Variable
  <1>6. x \in {Absent} \union Variable
    <2>1. CASE ~old.exists
      BY <1>4, <2>1
    <2>2. CASE old.exists /\ q.append
      BY <1>5, <2>2
    <2>3. CASE old.exists /\ ~q.append
      BY <1>4, <2>3
    <2> HIDE DEF old, new, longer, x
    <2> QED BY <2>1, <2>2, <2>3 DEF Requests
  <1> HIDE DEF x
  <1>7. q.name \in Names /\ t.v \in [Names -> {Absent} \union Variable]
    BY DEF State, Requests
  <1>8. Updated(t, q).v = [t.v EXCEPT ![q.name] = x]
    BY <1>1 DEF State
  <1>9. Successor(t, q) = x
    BY <1>7, <1>8 DEF Successor
  <1>10. [t.v EXCEPT ![q.name] = x] \in [Names -> {Absent} \union Variable]
    BY <1>6, <1>7
  <1>11. Updated(t, q) \in State
    BY <1>1, <1>10 DEF State
  <1> QED BY <1>1, <1>6, <1>8, <1>9, <1>11

-----------------------------------------------------------------------------
(***************************************************************************)
(* Writes of a variable                                                    *)
(***************************************************************************)
LEMMA Weaker ==
  ASSUME NEW X, NEW Y, NEW X1, NEW Y1, X1 \subseteq X, Y1 \subseteq Y
  PROVE  Outcomes(X1, Y1) \subseteq Outcomes(X, Y)
PROOF
  BY DEF Outcomes

\* A write changes one variable and nothing else.
LEMMA UpdatedFields ==
  ASSUME NEW t \in State, NEW q \in Requests
  PROVE  LET u == Updated(t, q)
         IN /\ u.v[q.name] = Successor(t, q)
            /\ \A n \in Names \ {q.name} : u.v[n] = t.v[n]
            /\ u.certdb = t.certdb /\ u.certdbv = t.certdbv
            /\ u.made = t.made /\ u.mode = t.mode
            /\ u.SecureBootEnable = t.SecureBootEnable
            /\ u.CustomMode = t.CustomMode /\ u.SecureBoot = t.SecureBoot
            /\ u.VendorKeysNv = t.VendorKeysNv /\ u.VendorKeys = t.VendorKeys
            /\ u.vendor = t.vendor
PROOF
  <1> DEFINE x == Successor(t, q)
  <1>1. /\ Updated(t, q) = [t EXCEPT !.v[q.name] = x]
        /\ Updated(t, q).v = [t.v EXCEPT ![q.name] = x]
    BY UpdatedStore
  <1>2. q.name \in Names /\ t.v \in [Names -> {Absent} \union Variable]
    BY DEF State, Requests
  <1> HIDE DEF x
  <1>3. /\ Updated(t, q).v[q.name] = x
        /\ \A n \in Names \ {q.name} : Updated(t, q).v[n] = t.v[n]
    BY <1>1, <1>2
  <1> QED BY <1>1, <1>3 DEF State, x

\* What a write that is taken makes of a variable that is not a key.
LEMMA PrivateSuccessor ==
  ASSUME NEW t \in State, NEW q \in Requests, q.name \in Priv, Takes(t, q)
  PROVE  LET old == t.v[q.name]
             new == Successor(t, q)
         IN /\ new.exists => /\ new.nv = q.nv /\ new.at = q.at
                             /\ new.by = IF old.exists /\ q.append THEN old.by
                                         ELSE q.signer
            /\ new.exists <=> ~(old.exists /\ ~q.append /\ q.payload = <<>>)
PROOF
  <1>1. NewSigs(t.v[q.name], q) = q.payload
    BY AuthAssumption DEF NewSigs, Lists
  <1>2. t.v[q.name] \in {Absent} \union Variable
    BY DEF State, Requests
  <1>3. Absent.exists = FALSE
    BY DEF Absent
  <1>4. q.name \in Names /\ t.v \in [Names -> {Absent} \union Variable]
    BY DEF State, Requests
  <1> QED BY <1>1, <1>2, <1>3, <1>4 DEF Successor, Updated, Takes, State, Variable

\* A key that is written lasts when its request does.
LEMMA KeySuccessor ==
  ASSUME NEW t \in State, NEW q \in Requests, q.name \notin Priv, Takes(t, q)
  PROVE  Successor(t, q).exists => Successor(t, q).nv = q.nv
PROOF
  <1>1. t.v[q.name] \in {Absent} \union Variable
    BY DEF State, Requests
  <1>2. Absent.exists = FALSE
    BY DEF Absent
  <1>3. q.name \in Names /\ t.v \in [Names -> {Absent} \union Variable]
    BY DEF State, Requests
  <1> QED BY <1>1, <1>2, <1>3 DEF Successor, Updated, Takes, State, Variable

\* Whom a request about a private variable that asks for authentication has
\* to be signed by, unless it writes no variable.
Owned(t, q) ==
  q.name \in Priv /\ q.at =>
    \/ Certs(t, q.nv)[q.name] = q.signer
    \/ q.payload = <<>> /\ ~(t.v[q.name].exists /\ q.append)

LEMMA UpdatedReady ==
  ASSUME NEW t \in Ready, NEW q \in Requests, Takes(t, q),
         q.name \notin Priv => q.nv, Owned(t, q)
  PROVE  Updated(t, q) \in Ready
PROOF
  <1> DEFINE u == Updated(t, q)
  <1>1. t \in State /\ VendorKept(t) /\ SignerKept(t) /\ KeysLast(t)
    BY DEF Ready, Good
  <1>2. u \in State
    BY <1>1, UpdatedStore
  <1>3. VendorKept(u)
    BY <1>1, UpdatedFields DEF VendorKept
  <1>4. KeysLast(u)
    <2>1. ASSUME NEW n \in Names \ Priv, u.v[n].exists PROVE u.v[n].nv
      <3>1. CASE n = q.name
        BY <1>1, <2>1, <3>1, KeySuccessor, UpdatedFields
      <3>2. CASE n # q.name
        BY <1>1, <2>1, <3>2, UpdatedFields DEF KeysLast
      <3> QED BY <3>1, <3>2
    <2> QED BY <2>1 DEF KeysLast
  <1>5. SignerKept(u)
    <2>1. ASSUME NEW n \in Priv, u.v[n].exists, u.v[n].at
          PROVE  Certs(u, u.v[n].nv)[n] = u.v[n].by
      <3>1. u.certdb = t.certdb /\ u.certdbv = t.certdbv /\ n \in Names
        BY <1>1, UpdatedFields DEF Names
      <3>2. CASE n # q.name
        <4>1. u.v[n] = t.v[n]
          BY <1>1, <3>1, <3>2, UpdatedFields
        <4> QED BY <1>1, <2>1, <3>1, <4>1 DEF SignerKept, Certs
      <3>3. CASE n = q.name
        <4>1. u.v[n] = Successor(t, q)
          BY <1>1, <3>3, UpdatedFields
        <4>2. /\ u.v[n].nv = q.nv /\ u.v[n].at = q.at
              /\ u.v[n].by = IF t.v[n].exists /\ q.append THEN t.v[n].by
                             ELSE q.signer
              /\ ~(t.v[n].exists /\ ~q.append /\ q.payload = <<>>)
          <5>1. q.name \in Priv /\ Successor(t, q).exists
            BY <2>1, <3>3, <4>1
          <5>2. LET old == t.v[q.name]
                    new == Successor(t, q)
                IN /\ new.nv = q.nv /\ new.at = q.at
                   /\ new.by = IF old.exists /\ q.append THEN old.by
                               ELSE q.signer
                   /\ ~(old.exists /\ ~q.append /\ q.payload = <<>>)
            BY <1>1, <5>1, PrivateSuccessor
          <5> QED BY <3>3, <4>1, <5>2
        <4>3. Certs(t, q.nv)[n] = q.signer \/ (t.v[n].exists /\ q.append)
          BY <2>1, <3>3, <4>2 DEF Owned, Takes
        <4>4. CASE t.v[n].exists /\ q.append
          <5>1. t.v[n].nv = q.nv /\ t.v[n].at = q.at
            BY <3>3, <4>4 DEF Takes
          <5> QED BY <1>1, <2>1, <3>1, <4>2, <4>4, <5>1 DEF SignerKept, Certs
        <4>5. CASE ~(t.v[n].exists /\ q.append)
          BY <3>1, <4>2, <4>3, <4>5 DEF Certs
        <4> QED BY <4>4, <4>5
      <3> QED BY <3>2, <3>3
    <2> QED BY <2>1 DEF SignerKept
  <1>6. u.made /\ u.VendorKeysNv # "none"
    BY <1>1, UpdatedFields DEF Ready
  <1> QED BY <1>2, <1>3, <1>4, <1>5, <1>6 DEF Ready, Good

\* What a write that was taken leaves.
Written(t, q) == {u \in Ready : u = Updated(t, q) /\ Takes(t, q)}

LEMMA UpdateOutcomes ==
  ASSUME NEW t \in Ready, NEW q \in Requests,
         q.name \notin Priv => q.nv, Owned(t, q)
  PROVE  Update(t, q) \subseteq Outcomes({t} \union Written(t, q), Written(t, q))
PROOF
  <1>1. CASE Takes(t, q)
    <2>1. Updated(t, q) \in Written(t, q)
      BY <1>1, UpdatedReady DEF Written
    <2> QED BY <1>1, <2>1, StoredOutcomes DEF Update
  <1>2. CASE ~Takes(t, q)
    BY <1>2, ErrorOutcome DEF Update
  <1> QED BY <1>1, <1>2

-----------------------------------------------------------------------------
(***************************************************************************)
(* Writes of the database of signers                                       *)
(***************************************************************************)
\* The stores that differ from t in certdb and certdbv only.
Beside(t) ==
  {u \in Good :
     /\ u.v = t.v /\ u.made = t.made /\ u.mode = t.mode
     /\ u.SecureBootEnable = t.SecureBootEnable
     /\ u.CustomMode = t.CustomMode /\ u.SecureBoot = t.SecureBoot
     /\ u.VendorKeysNv = t.VendorKeysNv /\ u.VendorKeys = t.VendorKeys
     /\ u.vendor = t.vendor}

LEMMA BesideReady == ASSUME NEW t \in Ready PROVE Beside(t) \subseteq Ready
PROOF
  BY DEF Ready, Beside

\* An entry may change while no variable is there that it is for.
LEMMA WithCertBeside ==
  ASSUME NEW t \in Good, NEW nv \in BOOLEAN, NEW n \in Priv,
         NEW k \in Keys \union {None},
         ~(t.v[n].exists /\ t.v[n].at /\ t.v[n].nv = nv)
  PROVE  /\ WithCert(t, nv, n, k) \in Beside(t)
         /\ Certs(WithCert(t, nv, n, k), nv)[n] = k
PROOF
  <1> DEFINE u == WithCert(t, nv, n, k)
  <1>1. t \in State /\ VendorKept(t) /\ SignerKept(t) /\ KeysLast(t)
    BY DEF Good
  <1>2. /\ u \in State /\ Certs(u, nv)[n] = k
        /\ u.v = t.v /\ u.made = t.made /\ u.mode = t.mode
        /\ u.SecureBootEnable = t.SecureBootEnable
        /\ u.CustomMode = t.CustomMode /\ u.SecureBoot = t.SecureBoot
        /\ u.VendorKeysNv = t.VendorKeysNv /\ u.VendorKeys = t.VendorKeys
        /\ u.vendor = t.vendor
        /\ Certs(u, ~nv) = Certs(t, ~nv)
        /\ \A m \in Priv \ {n} : Certs(u, nv)[m] = Certs(t, nv)[m]
    <2>1. CASE nv
      BY <1>1, <2>1 DEF WithCert, Certs, State
    <2>2. CASE ~nv
      BY <1>1, <2>2 DEF WithCert, Certs, State
    <2> QED BY <2>1, <2>2
  <1> HIDE DEF u
  <1>3. SignerKept(u)
    <2>1. ASSUME NEW m \in Priv, t.v[m].exists, t.v[m].at
          PROVE  Certs(u, t.v[m].nv)[m] = Certs(t, t.v[m].nv)[m]
      <3>1. t.v[m].nv \in BOOLEAN
        <4>1. t.v[m] \in {Absent} \union Variable
          BY <1>1 DEF State, Names
        <4>2. Absent.exists = FALSE
          BY DEF Absent
        <4> QED BY <2>1, <4>1, <4>2 DEF Variable
      <3>2. CASE t.v[m].nv = nv
        BY <1>2, <2>1, <3>2
      <3>3. CASE t.v[m].nv # nv
        <4>1. t.v[m].nv = ~nv
          BY <3>1, <3>3
        <4> QED BY <1>2, <4>1
      <3> QED BY <3>2, <3>3
    <2> QED BY <1>1, <1>2, <2>1 DEF SignerKept
  <1>4. VendorKept(u) /\ KeysLast(u)
    BY <1>1, <1>2 DEF VendorKept, KeysLast
  <1>5. u \in Beside(t) /\ Certs(u, nv)[n] = k
    BY <1>2, <1>3, <1>4 DEF Beside, Good
  <1> QED BY <1>5 DEF u

LEMMA DeleteCertsOutcomes ==
  ASSUME NEW t \in Good, NEW nv \in BOOLEAN, NEW n \in Priv,
         ~(t.v[n].exists /\ t.v[n].at /\ t.v[n].nv = nv)
  PROVE  DeleteCerts(t, n, nv) \subseteq
           Outcomes(Beside(t), {u \in Beside(t) : Certs(u, nv)[n] = None})
PROOF
  <1> DEFINE Y == {u \in Beside(t) : Certs(u, nv)[n] = None}
  <1>1. t \in Beside(t)
    BY DEF Beside
  <1>2. CASE Certs(t, nv) = NoCerts
    <2>1. t \in Y
      BY <1>1, <1>2 DEF NoCerts
    <2>2. {Done(t)} \subseteq Outcomes(Beside(t), Y)
      BY <1>1, <2>1, DoneOutcome
    <2> QED BY <1>2, <2>2 DEF DeleteCerts
  <1>3. CASE Certs(t, nv) # NoCerts /\ Certs(t, nv)[n] = None
    <2>1. {Error(t)} \subseteq Outcomes(Beside(t), Y)
      BY <1>1, ErrorOutcome
    <2> QED BY <1>3, <2>1 DEF DeleteCerts
  <1>4. CASE Certs(t, nv) # NoCerts /\ Certs(t, nv)[n] # None
    <2>1. WithCert(t, nv, n, None) \in Y
      BY WithCertBeside
    <2>2. Stored(t, WithCert(t, nv, n, None)) \subseteq Outcomes(Beside(t), Y)
      BY <1>1, <2>1, StoredOutcomes
    <2> QED BY <1>4, <2>2 DEF DeleteCerts
  <1> QED BY <1>2, <1>3, <1>4

\* A signer is recorded before there is a variable of his.
LEMMA InsertCertsOutcomes ==
  ASSUME NEW t \in Good, NEW q \in Requests, q.name \in Priv,
         ~t.v[q.name].exists
  PROVE  InsertCerts(t, q) \subseteq
           Outcomes(Beside(t),
                    {u \in Beside(t) : Certs(u, q.nv)[q.name] = q.signer})
PROOF
  <1> DEFINE Y == {u \in Beside(t) : Certs(u, q.nv)[q.name] = q.signer}
             new == WithCert(t, q.nv, q.name, q.signer)
  <1>1. t \in Beside(t)
    BY DEF Beside
  <1>2. q.nv \in BOOLEAN /\ q.signer \in Keys \union {None}
    BY DEF Requests
  <1>3. new \in Beside(t) /\ Certs(new, q.nv)[q.name] = q.signer
    BY <1>2, WithCertBeside
  <1>4. Stored(t, new) \subseteq Outcomes(Beside(t), Y)
    <2> HIDE DEF new
    <2> QED BY <1>1, <1>3, StoredOutcomes
  <1>5. {Error(t)} \subseteq Outcomes(Beside(t), Y)
    BY <1>1, ErrorOutcome
  <1> QED BY <1>4, <1>5 DEF InsertCerts

-----------------------------------------------------------------------------
(***************************************************************************)
(* Verification                                                            *)
(***************************************************************************)
\* What stops stays what it is.
LEMMA StoppedOutcome ==
  ASSUME NEW X, NEW Y, NEW Z, NEW r \in Outcomes(X, Y), r.status # "ok"
  PROVE  r \in Outcomes(X, Z)
PROOF
  BY DEF Outcomes

\* What succeeds leaves a store in Y.
LEMMA WorkedOutcome ==
  ASSUME NEW X, NEW Y, NEW r \in Outcomes(X, Y), r.status = "ok"
  PROVE  r.st \in Y
PROOF
  BY DEF Outcomes

\* The variable is not touched before its writer is found to own it.
LEMMA VerifyOutcomes ==
  ASSUME NEW t \in Ready, NEW q \in Requests, NEW type,
         type = "Priv" <=> q.name \in Priv
  PROVE  Verify(t, q, type) \subseteq
           Outcomes(Beside(t), {u \in Beside(t) : Owned(u, q)})
PROOF
  <1> DEFINE Y == {u \in Beside(t) : Owned(u, q)}
             old == t.v[q.name]
             unsigned == q.payload = <<>> /\ ~q.append /\ ~policy
             checked == CASE ~Fresh(old, q) -> {Error(t)}
                          [] Fresh(old, q) /\ unsigned -> {Done(t)}
                          [] Fresh(old, q) /\ ~unsigned /\ ~SignedFor(t, q, type) ->
                               {Error(t)}
                          [] OTHER ->
                               IF type = "Priv" /\ ~old.exists /\ q.payload # <<>>
                               THEN InsertCerts(t, q) ELSE {Done(t)}
  <1>1. t \in Beside(t) /\ t \in Good
    BY DEF Ready, Beside
  <1>2. {Error(t)} \subseteq Outcomes(Beside(t), Y)
    BY <1>1, ErrorOutcome
  <1>3. ASSUME Owned(t, q) PROVE {Done(t)} \subseteq Outcomes(Beside(t), Y)
    <2>1. t \in Y
      BY <1>1, <1>3
    <2> HIDE DEF Y
    <2> QED BY <1>1, <2>1, DoneOutcome
  <1>4. checked \subseteq Outcomes(Beside(t), Y)
    <2>1. CASE ~Fresh(old, q)
      BY <1>2, <2>1
    <2>2. CASE Fresh(old, q) /\ unsigned
      <3>1. Owned(t, q)
        BY <2>2 DEF Owned
      <3> HIDE DEF Y
      <3> QED BY <1>3, <2>2, <3>1
    <2>3. CASE Fresh(old, q) /\ ~unsigned /\ ~SignedFor(t, q, type)
      <3> HIDE DEF Y
      <3> QED BY <1>2, <2>3
    <2>4. CASE /\ Fresh(old, q) /\ ~unsigned /\ SignedFor(t, q, type)
               /\ type = "Priv" /\ ~old.exists /\ q.payload # <<>>
      <3>1. \A u : Certs(u, q.nv)[q.name] = q.signer => Owned(u, q)
        BY DEF Owned
      <3>2. {u \in Beside(t) : Certs(u, q.nv)[q.name] = q.signer} \subseteq Y
        BY <3>1
      <3>3. InsertCerts(t, q) \subseteq Outcomes(Beside(t), Y)
        <4> HIDE DEF Y
        <4> QED BY <1>1, <2>4, <3>2, InsertCertsOutcomes, Weaker
      <3> HIDE DEF Y
      <3> QED BY <2>4, <3>3
    <2>5. CASE /\ Fresh(old, q) /\ ~unsigned /\ SignedFor(t, q, type)
               /\ ~(type = "Priv" /\ ~old.exists /\ q.payload # <<>>)
      <3>1. Owned(t, q)
        BY <2>5 DEF Owned, SignedFor, SignedByOwner
      <3> HIDE DEF Y
      <3> QED BY <1>3, <2>5, <3>1
    <2> HIDE DEF checked, Y, unsigned, old
    <2> QED BY <2>1, <2>2, <2>3, <2>4, <2>5
  <1>5. ASSUME NEW r \in checked,
               NEW o \in IF r.status = "ok"
                         THEN IF WellFormed(q) THEN {Done(r.st)} ELSE {Error(r.st)}
                         ELSE {r}
        PROVE  o \in Outcomes(Beside(t), Y)
    <2> HIDE DEF checked
    <2>1. r \in Outcomes(Beside(t), Y)
      BY <1>4
    <2>2. CASE r.status = "ok"
      <3>1. r.st \in Y /\ r.st \in Beside(t)
        BY <2>1, <2>2, WorkedOutcome
      <3> HIDE DEF Y
      <3> QED BY <1>5, <2>2, <3>1, DoneOutcome, ErrorOutcome
    <2>3. CASE r.status # "ok"
      BY <1>5, <2>1, <2>3
    <2> QED BY <2>2, <2>3
  <1>6. Verify(t, q, type) =
          UNION {IF r.status = "ok"
                 THEN IF WellFormed(q) THEN {Done(r.st)} ELSE {Error(r.st)}
                 ELSE {r} : r \in checked}
    BY DEF Verify, Then
  <1> HIDE DEF checked, Y
  <1>7. Verify(t, q, type) \subseteq Outcomes(Beside(t), Y)
    BY <1>5, <1>6
  <1> QED BY <1>7 DEF Y

-----------------------------------------------------------------------------
(***************************************************************************)
(* Platform mode and vendor keys                                           *)
(***************************************************************************)
\* The invariant of a store asks nothing of its mode variables.
LEMMA SameVariables ==
  ASSUME NEW t \in Ready, NEW u \in State,
         u.v = t.v, u.certdb = t.certdb, u.certdbv = t.certdbv,
         u.made = t.made, u.VendorKeysNv # "none", VendorKept(u)
  PROVE  u \in Ready
PROOF
  BY DEF Ready, Good, SignerKept, KeysLast, Certs

\* The stores a change of the mode may leave.
Alike(t) == {u \in Ready : u.v = t.v}
InTheMode(t, mode) == {u \in Alike(t) : u.mode = mode}

LEMMA AnyMode ==
  ASSUME NEW t \in Ready, NEW m \in {"setup", "user"},
         NEW b \in {"on", "off"}, NEW e \in {"none", "on", "off"}
  PROVE  /\ [t EXCEPT !.mode = m] \in InTheMode(t, m)
         /\ [t EXCEPT !.SecureBoot = b] \in InTheMode(t, t.mode)
         /\ [t EXCEPT !.SecureBootEnable = e] \in InTheMode(t, t.mode)
PROOF
  <1> DEFINE u == [t EXCEPT !.mode = m]
             v == [t EXCEPT !.SecureBoot = b]
             w == [t EXCEPT !.SecureBootEnable = e]
  <1>1. t \in State /\ t.made /\ t.VendorKeysNv # "none" /\ VendorKept(t)
    BY DEF Ready, Good
  <1>2. /\ u \in State /\ u.v = t.v /\ u.mode = m
        /\ u.certdb = t.certdb /\ u.certdbv = t.certdbv
        /\ u.made = t.made /\ u.VendorKeysNv # "none" /\ VendorKept(u)
    BY <1>1 DEF State, VendorKept
  <1>3. /\ v \in State /\ v.v = t.v /\ v.mode = t.mode
        /\ v.certdb = t.certdb /\ v.certdbv = t.certdbv
        /\ v.made = t.made /\ v.VendorKeysNv # "none" /\ VendorKept(v)
    BY <1>1 DEF State, VendorKept
  <1>4. /\ w \in State /\ w.v = t.v /\ w.mode = t.mode
        /\ w.certdb = t.certdb /\ w.certdbv = t.certdbv
        /\ w.made = t.made /\ w.VendorKeysNv # "none" /\ VendorKept(w)
    BY <1>1 DEF State, VendorKept
  <1> HIDE DEF u, v, w
  <1>5. u \in Ready /\ v \in Ready /\ w \in Ready
    BY <1>2, <1>3, <1>4, SameVariables
  <1>6. /\ u \in InTheMode(t, m) /\ v \in InTheMode(t, t.mode)
        /\ w \in InTheMode(t, t.mode)
    BY <1>2, <1>3, <1>4, <1>5 DEF InTheMode, Alike
  <1> QED BY <1>6 DEF u, v, w

\* A change of the mode that succeeds makes it what was asked for, and
\* touches no variable.
LEMMA UpdatePlatformModeOutcomes ==
  ASSUME NEW t \in Ready, NEW m \in {"setup", "user"}
  PROVE  UpdatePlatformMode(t, m) \subseteq Outcomes(Alike(t), InTheMode(t, m))
PROOF
  <1> DEFINE u == [t EXCEPT !.mode = m]
             secure == IF m = "user" THEN "on" ELSE "off"
             b == [u EXCEPT !.SecureBoot = secure]
             On(w) == [w EXCEPT !.SecureBootEnable = "on"]
             Off(w) == [w EXCEPT !.SecureBootEnable = "none"]
             Enable(w) ==
               IF m = "user" THEN Stored(w, On(w))
               ELSE IF w.SecureBootEnable = "none" THEN {Done(w)}
                    ELSE Stored(w, Off(w))
             X == Alike(t)
             Y == InTheMode(t, m)
  <1>1. Y \subseteq X /\ \A w \in Y : w \in Ready /\ InTheMode(w, w.mode) \subseteq Y
    BY DEF InTheMode, Alike
  <1>2. u \in Y
    BY AnyMode
  <1>3. b \in Y
    <2>1. secure \in {"on", "off"}
      OBVIOUS
    <2> HIDE DEF u, secure, Y
    <2>2. b \in InTheMode(u, u.mode)
      BY <1>1, <1>2, <2>1, AnyMode
    <2> QED BY <1>1, <1>2, <2>2
  <1>4. ASSUME NEW w \in Y PROVE Enable(w) \subseteq Outcomes(X, Y)
    <2> HIDE DEF X, Y
    <2>1. On(w) \in Y /\ Off(w) \in Y
      BY <1>1, AnyMode
    <2> HIDE DEF On, Off
    <2>2. /\ Stored(w, On(w)) \subseteq Outcomes(X, Y)
          /\ Stored(w, Off(w)) \subseteq Outcomes(X, Y)
          /\ {Done(w)} \subseteq Outcomes(X, Y)
      BY <1>1, <2>1, StoredOutcomes, DoneOutcome
    <2> QED BY <2>2
  <1>5. Stored(u, b) \subseteq Outcomes(X, Y)
    <2> HIDE DEF u, b, X, Y
    <2> QED BY <1>1, <1>2, <1>3, StoredOutcomes
  <1>6. {Done(u)} \subseteq Outcomes(X, Y)
    <2> HIDE DEF u, X, Y
    <2> QED BY <1>1, <1>2, DoneOutcome
  <1>7. CASE phase = "runtime"
    <2>1. UpdatePlatformMode(t, m) = {Done(u)}
      BY <1>7 DEF UpdatePlatformMode
    <2> QED BY <1>6, <2>1
  <1>8. CASE phase # "runtime"
    <2>1. UpdatePlatformMode(t, m) =
            UNION {IF r.status = "ok" THEN Enable(r.st) ELSE {r} : r \in Stored(u, b)}
      BY <1>8 DEF UpdatePlatformMode, Then
    <2> HIDE DEF u, b, Enable, X, Y
    <2>2. \A r \in Stored(u, b) : r.status = "ok" => Enable(r.st) \subseteq Outcomes(X, Y)
      BY <1>4, <1>5, WorkedOutcome
    <2>3. UpdatePlatformMode(t, m) \subseteq Outcomes(X, Y)
      BY <1>5, <2>1, <2>2
    <2> QED BY <2>3 DEF X, Y
  <1> QED BY <1>7, <1>8

\* The flag in the store is written before the one that is read, so that no
\* failure leaves the second without the first.
LEMMA VendorKeyIsModifiedOutcomes ==
  ASSUME NEW t \in Ready
  PROVE  VendorKeyIsModified(t) \subseteq
           Outcomes(InTheMode(t, t.mode), InTheMode(t, t.mode))
PROOF
  <1> DEFINE u == [t EXCEPT !.vendor = "modified"]
             b == [u EXCEPT !.VendorKeysNv = "modified"]
             Copy(w) == [w EXCEPT !.VendorKeys = "modified"]
             Y == InTheMode(t, t.mode)
             Z == {w \in Y : w.VendorKeysNv = "modified"}
  <1>1. t \in State /\ t.made /\ t.VendorKeysNv # "none" /\ VendorKept(t)
    BY DEF Ready, Good
  <1>2. /\ u \in State /\ u.v = t.v /\ u.mode = t.mode
        /\ u.certdb = t.certdb /\ u.certdbv = t.certdbv
        /\ u.made = t.made /\ u.VendorKeysNv # "none" /\ VendorKept(u)
    BY <1>1 DEF State, VendorKept
  <1>3. /\ b \in State /\ b.v = t.v /\ b.mode = t.mode
        /\ b.certdb = t.certdb /\ b.certdbv = t.certdbv
        /\ b.made = t.made /\ b.VendorKeysNv = "modified"
    BY <1>2 DEF State
  <1>4. t \in Y
    BY DEF InTheMode, Alike
  <1>5. u \in Y
    <2> HIDE DEF u
    <2>1. u \in Ready
      BY <1>2, SameVariables
    <2> QED BY <1>2, <2>1 DEF InTheMode, Alike
  <1>6. b \in Z
    <2> HIDE DEF b
    <2>1. VendorKept(b)
      BY <1>3 DEF VendorKept
    <2>2. b \in Ready
      BY <1>3, <2>1, SameVariables
    <2> QED BY <1>3, <2>2 DEF InTheMode, Alike
  <1>7. ASSUME NEW w \in Z PROVE Copy(w) \in Z
    <2>1. /\ w \in Ready /\ w \in State /\ w.v = t.v /\ w.mode = t.mode
          /\ w.VendorKeysNv = "modified"
      BY DEF InTheMode, Alike, Ready, Good
    <2>2. /\ Copy(w) \in State /\ Copy(w).v = w.v /\ Copy(w).mode = w.mode
          /\ Copy(w).certdb = w.certdb /\ Copy(w).certdbv = w.certdbv
          /\ Copy(w).made = w.made /\ Copy(w).VendorKeysNv = "modified"
      BY <2>1 DEF State
    <2> HIDE DEF Copy
    <2>3. Copy(w) \in Ready
      BY <2>1, <2>2, SameVariables DEF VendorKept
    <2> QED BY <2>1, <2>2, <2>3 DEF InTheMode, Alike
  <1>8. CASE t.vendor = "modified"
    <2>1. {Done(t)} \subseteq Outcomes(Y, Y)
      BY <1>4, DoneOutcome
    <2> QED BY <1>8, <2>1 DEF VendorKeyIsModified
  <1>9. CASE t.vendor # "modified" /\ phase = "runtime"
    <2>1. VendorKeyIsModified(t) = {Error(u)}
      BY <1>9 DEF VendorKeyIsModified
    <2> HIDE DEF u
    <2> QED BY <1>5, <2>1, ErrorOutcome
  <1>10. CASE t.vendor # "modified" /\ phase # "runtime"
    <2>1. VendorKeyIsModified(t) =
            UNION {IF r.status = "ok" THEN Stored(r.st, Copy(r.st)) ELSE {r} :
                   r \in Stored(u, b)}
      BY <1>10 DEF VendorKeyIsModified, Then
    <2> HIDE DEF u, b, Copy
    <2>2. Stored(u, b) \subseteq Outcomes(Y, Z)
      <3>1. Z \subseteq Y
        OBVIOUS
      <3> HIDE DEF Y, Z
      <3> QED BY <1>5, <1>6, <3>1, StoredOutcomes
    <2>3. ASSUME NEW r \in Stored(u, b), r.status = "ok"
          PROVE  Stored(r.st, Copy(r.st)) \subseteq Outcomes(Y, Y)
      <3>1. r.st \in Z
        <4> HIDE DEF Y, Z
        <4> QED BY <2>2, <2>3, WorkedOutcome
      <3>2. r.st \in Y /\ Copy(r.st) \in Y
        BY <1>7, <3>1
      <3> HIDE DEF Y, Z
      <3> QED BY <3>2, StoredOutcomes
    <2>4. ASSUME NEW r \in Stored(u, b), r.status # "ok" PROVE r \in Outcomes(Y, Y)
      <3> HIDE DEF Y, Z
      <3> QED BY <2>2, <2>4, StoppedOutcome
    <2>5. VendorKeyIsModified(t) \subseteq Outcomes(Y, Y)
      <3> HIDE DEF Y, Z
      <3> QED BY <2>1, <2>3, <2>4
    <2> QED BY <2>5
  <1> QED BY <1>8, <1>9, <1>10

-----------------------------------------------------------------------------
(***************************************************************************)
(* Requests about the keys                                                 *)
(***************************************************************************)
\* The stores a request may leave and, when it was granted, leaves.
Changed(t, q) ==
  {u \in Ready : u.mode = t.mode /\ Takes(t, q) /\ u.v = Updated(t, q).v}
Touched(t, q) == {u \in Ready : u.mode = t.mode /\ u.v = t.v} \union Changed(t, q)

LEMMA KeyUpdate ==
  ASSUME NEW t \in Ready, NEW q \in Requests, q.name \notin Priv, q.nv
  PROVE  /\ Update(t, q) \subseteq Outcomes(Touched(t, q), Changed(t, q))
         /\ \A r \in Update(t, q) : /\ r.del = FALSE
                                    /\ r.status = "error" => r.st = t
                                    /\ r.st \in {t} \union Written(t, q)
PROOF
  <1>1. Update(t, q) \subseteq Outcomes({t} \union Written(t, q), Written(t, q))
    BY UpdateOutcomes DEF Owned
  <1>2. t \in State
    BY DEF Ready, Good
  <1>3. Written(t, q) \subseteq Changed(t, q)
    BY <1>2, UpdatedFields DEF Written, Changed
  <1>4. t \in Touched(t, q)
    BY DEF Touched
  <1>5. Update(t, q) \subseteq Outcomes(Touched(t, q), Changed(t, q))
    <2>1. {t} \union Written(t, q) \subseteq Touched(t, q)
      BY <1>3, <1>4 DEF Touched
    <2> QED BY <1>1, <1>3, <2>1, Weaker
  <1>6. ASSUME NEW r \in Update(t, q)
        PROVE  r.del = FALSE /\ (r.status = "error" => r.st = t)
    <2>1. r \in {Done(Updated(t, q)), Error(t), Lost(Updated(t, q))}
      BY <1>6 DEF Update, Stored
    <2> QED BY <2>1 DEF Done, Error, Lost
  <1>7. \A r \in Update(t, q) : r.st \in {t} \union Written(t, q)
    BY <1>1 DEF Outcomes
  <1> QED BY <1>5, <1>6, <1>7

\* Only Del is set in an outcome.
LEMMA DelOutcome ==
  ASSUME NEW X, NEW Y, NEW r \in Outcomes(X, Y), NEW d \in BOOLEAN
  PROVE  LET o == [r EXCEPT !.del = d]
         IN /\ o \in Outcomes(X, Y) /\ o.del = d
            /\ o.st = r.st /\ o.status = r.status
PROOF
  BY DEF Outcomes

LEMMA UnverifiedOutcomes ==
  ASSUME NEW t \in Ready, NEW q \in Requests, q.name \notin Priv, q.nv,
         NEW tell \in BOOLEAN
  PROVE  /\ Unverified(t, q, tell) \subseteq Outcomes(Touched(t, q), Changed(t, q))
         /\ \A r \in Unverified(t, q, tell) :
              r.status = "ok" => r.del = (q.payload = <<>>)
PROOF
  <1> DEFINE X == Touched(t, q)
             Y == Changed(t, q)
             written == Update(t, q)
             told == IF tell THEN Then(written, VendorKeyIsModified) ELSE written
  <1>1. Y \subseteq X /\ X \subseteq Ready /\ t \in X
    BY DEF Touched, Changed
  <1>2. written \subseteq Outcomes(X, Y)
    BY KeyUpdate
  <1>3. ASSUME NEW w \in Y
        PROVE  VendorKeyIsModified(w) \subseteq Outcomes(X, Y)
    <2>1. w \in Ready
      BY <1>1
    <2>2. InTheMode(w, w.mode) \subseteq Y
      BY DEF InTheMode, Alike, Changed
    <2> HIDE DEF X, Y
    <2> QED BY <1>1, <2>1, <2>2, VendorKeyIsModifiedOutcomes, Weaker
  <1>4. told \subseteq Outcomes(X, Y)
    <2>1. CASE ~tell
      BY <1>2, <2>1
    <2>2. CASE tell
      <3>1. told = UNION {IF r.status = "ok" THEN VendorKeyIsModified(r.st) ELSE {r} :
                          r \in written}
        BY <2>2 DEF Then
      <3> HIDE DEF X, Y, written, told
      <3>2. \A r \in written : r.status = "ok" =>
              VendorKeyIsModified(r.st) \subseteq Outcomes(X, Y)
        BY <1>2, <1>3, WorkedOutcome
      <3> QED BY <1>2, <3>1, <3>2
    <2> QED BY <2>1, <2>2
  <1>5. CASE ~WellFormed(q)
    <2>1. Unverified(t, q, tell) = {Error(t)}
      BY <1>5 DEF Unverified
    <2>2. Error(t) \in Outcomes(X, Y) /\ Error(t).status = "error"
      <3> HIDE DEF X, Y
      <3> QED BY <1>1, ErrorOutcome DEF Error
    <2> QED BY <2>1, <2>2
  <1>6. CASE WellFormed(q)
    <2>1. Unverified(t, q, tell) = {[r EXCEPT !.del = q.payload = <<>>] : r \in told}
      BY <1>6 DEF Unverified
    <2>2. (q.payload = <<>>) \in BOOLEAN
      OBVIOUS
    <2> HIDE DEF X, Y, told
    <2>3. ASSUME NEW o \in Unverified(t, q, tell)
          PROVE  o \in Outcomes(X, Y) /\ o.del = (q.payload = <<>>)
      <3>1. PICK r \in told : o = [r EXCEPT !.del = q.payload = <<>>]
        BY <2>1
      <3>2. r \in Outcomes(X, Y)
        BY <1>4
      <3> QED BY <2>2, <3>1, <3>2, DelOutcome
    <2> QED BY <2>3 DEF X, Y
  <1> QED BY <1>5, <1>6

\* Whom the change of a key has to be signed by.
Trusted(t, q, type) ==
  /\ Fresh(t.v[q.name], q)
  /\ \/ SignedFor(t, q, type)
     \/ q.payload = <<>> /\ ~q.append /\ ~policy

LEMMA KeyVerify ==
  ASSUME NEW t, NEW q, NEW type, type # "Priv"
  PROVE  \A r \in Verify(t, q, type) :
           r = Error(t) \/ (r = Done(t) /\ Trusted(t, q, type))
PROOF
  <1> DEFINE old == t.v[q.name]
             unsigned == q.payload = <<>> /\ ~q.append /\ ~policy
             checked == CASE ~Fresh(old, q) -> {Error(t)}
                          [] Fresh(old, q) /\ unsigned -> {Done(t)}
                          [] Fresh(old, q) /\ ~unsigned /\ ~SignedFor(t, q, type) ->
                               {Error(t)}
                          [] OTHER ->
                               IF type = "Priv" /\ ~old.exists /\ q.payload # <<>>
                               THEN InsertCerts(t, q) ELSE {Done(t)}
  <1>1. checked = IF Trusted(t, q, type) THEN {Done(t)} ELSE {Error(t)}
    <2>1. CASE ~Fresh(old, q)
      BY <2>1 DEF Trusted
    <2>2. CASE Fresh(old, q) /\ unsigned
      BY <2>2 DEF Trusted
    <2>3. CASE Fresh(old, q) /\ ~unsigned /\ ~SignedFor(t, q, type)
      BY <2>3 DEF Trusted
    <2>4. CASE Fresh(old, q) /\ ~unsigned /\ SignedFor(t, q, type)
      BY <2>4 DEF Trusted
    <2> QED BY <2>1, <2>2, <2>3, <2>4
  <1>2. Verify(t, q, type) =
          UNION {IF r.status = "ok"
                 THEN IF WellFormed(q) THEN {Done(r.st)} ELSE {Error(r.st)}
                 ELSE {r} : r \in checked}
    BY DEF Verify, Then
  <1>3. /\ Done(t).status = "ok" /\ Done(t).st = t
        /\ Error(t).status = "error" /\ Error(t).st = t
    BY DEF Done, Error
  <1> HIDE DEF checked
  <1>4. CASE Trusted(t, q, type)
    <2>1. checked = {Done(t)}
      BY <1>1, <1>4
    <2>2. Verify(t, q, type) = IF WellFormed(q) THEN {Done(t)} ELSE {Error(t)}
      BY <1>2, <1>3, <2>1
    <2> QED BY <1>4, <2>2
  <1>5. CASE ~Trusted(t, q, type)
    <2>1. checked = {Error(t)}
      BY <1>1, <1>5
    <2>2. Verify(t, q, type) = {Error(t)}
      BY <1>2, <1>3, <2>1
    <2> QED BY <2>2
  <1> QED BY <1>4, <1>5

\* A verified change of a key is all that a request that is trusted does, and
\* one that is refused does nothing.
LEMMA KeyVerifyAndUpdate ==
  ASSUME NEW t \in Ready, NEW q \in Requests, q.name \notin Priv, q.nv,
         NEW type, type # "Priv"
  PROVE  \A r \in VerifyAndUpdate(t, q, type) :
           /\ r \in Outcomes(Touched(t, q), Changed(t, q))
           /\ r.st.v # t.v => Trusted(t, q, type)
           /\ r.status = "error" => r.st = t
           /\ r.status = "ok" =>
                r.del = (t.v[q.name].exists /\ q.payload = <<>> /\ ~q.append)
PROOF
  <1> DEFINE isDel == t.v[q.name].exists /\ q.payload = <<>> /\ ~q.append
             written == Then(Verify(t, q, type), LAMBDA u : Update(u, q))
  <1>1. t \in Touched(t, q)
    BY DEF Touched
  <1>2. isDel \in BOOLEAN
    OBVIOUS
  <1>3. ASSUME NEW r \in written
        PROVE  /\ r \in Outcomes(Touched(t, q), Changed(t, q))
               /\ r.st.v # t.v => Trusted(t, q, type)
               /\ r.status = "error" => r.st = t
    <2>1. written = UNION {IF w.status = "ok" THEN Update(w.st, q) ELSE {w} :
                           w \in Verify(t, q, type)}
      BY DEF Then
    <2> HIDE DEF written
    <2>2. PICK w \in Verify(t, q, type) :
            r \in IF w.status = "ok" THEN Update(w.st, q) ELSE {w}
      BY <1>3, <2>1
    <2>3. CASE w = Error(t)
      <3>1. r = Error(t)
        BY <2>2, <2>3 DEF Error
      <3> QED BY <1>1, <3>1, ErrorOutcome DEF Error
    <2>4. CASE w = Done(t) /\ Trusted(t, q, type)
      <3>1. r \in Update(t, q)
        BY <2>2, <2>4 DEF Done
      <3> QED BY <2>4, <3>1, KeyUpdate
    <2> QED BY <2>2, <2>3, <2>4, KeyVerify
  <1>4. CASE phase = "runtime"
    <2>1. VerifyAndUpdate(t, q, type) = {Error(t)}
      BY <1>4 DEF VerifyAndUpdate
    <2> QED BY <1>1, <2>1, ErrorOutcome DEF Error
  <1>5. CASE phase # "runtime"
    <2>1. VerifyAndUpdate(t, q, type) =
            {[r EXCEPT !.del = isDel /\ r.status = "ok"] : r \in written}
      BY <1>5 DEF VerifyAndUpdate
    <2> HIDE DEF written, isDel
    <2>2. ASSUME NEW o \in VerifyAndUpdate(t, q, type)
          PROVE  /\ o \in Outcomes(Touched(t, q), Changed(t, q))
                 /\ o.st.v # t.v => Trusted(t, q, type)
                 /\ o.status = "error" => o.st = t
                 /\ o.status = "ok" => o.del = isDel
      <3>1. PICK r \in written : o = [r EXCEPT !.del = isDel /\ r.status = "ok"]
        BY <2>1
      <3> DEFINE d == isDel /\ r.status = "ok"
      <3>2. /\ d \in BOOLEAN /\ o = [r EXCEPT !.del = d]
            /\ r \in Outcomes(Touched(t, q), Changed(t, q))
        BY <1>3, <3>1
      <3> HIDE DEF d
      <3>3. /\ o \in Outcomes(Touched(t, q), Changed(t, q)) /\ o.del = d
            /\ o.st = r.st /\ o.status = r.status
        BY <3>2, DelOutcome
      <3>4. r.status = "ok" => d = isDel
        BY <1>2 DEF d
      <3> QED BY <1>3, <3>3, <3>4
    <2> QED BY <2>2 DEF isDel
  <1> QED BY <1>4, <1>5

\* The write of ProcessVarWithPk before the mode follows it.
PkWritten(t, q) ==
  LET isPk == q.name = "PK"
      open == \/ ByUser(t) \/ ~policy
              \/ t.mode = "setup" /\ ~(pcd.require /\ isPk)
  IN IF ~q.nv \/ ~q.at THEN {Error(t)}
     ELSE IF open
          THEN Unverified(t, q, t.mode # "setup" \/ (pcd.require /\ isPk))
     ELSE IF t.mode = "user" THEN VerifyAndUpdate(t, q, "Pk")
     ELSE IF ~pcd.enforce /\ isPk THEN Update(t, q)
     ELSE VerifyAndUpdate(t, q, "Payload")

LEMMA PkWrites ==
  ASSUME NEW t, NEW q
  PROVE  ProcessVarWithPk(t, q) =
           IF q.name # "PK" THEN PkWritten(t, q)
           ELSE UNION {IF r.status = "ok" THEN ModeAfter(r) ELSE {r} :
                       r \in PkWritten(t, q)}
PROOF
  BY DEF ProcessVarWithPk, PkWritten

\* Where the keys are guarded.
IsGuarded(t) == t.mode = "user" /\ ~ByUser(t) /\ policy

LEMMA PkWrittenOutcomes ==
  ASSUME NEW t \in Ready, NEW q \in Requests, q.name \notin Priv,
         pcd \in [require : BOOLEAN, enforce : BOOLEAN]
  PROVE  \A r \in PkWritten(t, q) :
           /\ r \in Outcomes(Touched(t, q), Changed(t, q))
           /\ IsGuarded(t) => /\ r.st.v # t.v => Trusted(t, q, "Pk")
                              /\ r.status = "error" => r.st = t
           /\ r.status = "ok" =>
                /\ r.del => q.payload = <<>>
                /\ t.mode = "user" /\ t.v[q.name].exists /\ q.payload = <<>>
                     /\ ~q.append => r.del
PROOF
  <1>1. t \in Touched(t, q)
    BY DEF Touched
  <1>2. CASE ~q.nv \/ ~q.at
    <2>1. PkWritten(t, q) = {Error(t)}
      BY <1>2 DEF PkWritten
    <2> QED BY <1>1, <2>1, ErrorOutcome DEF Error
  <1> DEFINE open == \/ ByUser(t) \/ ~policy
                     \/ t.mode = "setup" /\ ~(pcd.require /\ q.name = "PK")
             tell == t.mode # "setup" \/ (pcd.require /\ q.name = "PK")
  <1>3. CASE q.nv /\ q.at /\ open
    <2>1. PkWritten(t, q) = Unverified(t, q, tell)
      BY <1>3 DEF PkWritten
    <2>2. ~IsGuarded(t)
      BY <1>3 DEF IsGuarded
    <2>3. tell \in BOOLEAN
      OBVIOUS
    <2> HIDE DEF tell
    <2>4. \A r \in PkWritten(t, q) :
            /\ r \in Outcomes(Touched(t, q), Changed(t, q))
            /\ r.status = "ok" => r.del = (q.payload = <<>>)
      BY <1>3, <2>1, <2>3, UnverifiedOutcomes
    <2> QED BY <2>2, <2>4
  <1>4. CASE q.nv /\ q.at /\ ~open /\ t.mode = "user"
    <2>1. PkWritten(t, q) = VerifyAndUpdate(t, q, "Pk")
      BY <1>4 DEF PkWritten
    <2> HIDE DEF open
    <2>3. ASSUME NEW r \in PkWritten(t, q)
          PROVE  /\ r \in Outcomes(Touched(t, q), Changed(t, q))
                 /\ r.st.v # t.v => Trusted(t, q, "Pk")
                 /\ r.status = "error" => r.st = t
                 /\ r.status = "ok" =>
                      r.del = (t.v[q.name].exists /\ q.payload = <<>> /\ ~q.append)
      <3>1. "Pk" # "Priv"
        OBVIOUS
      <3> QED BY <1>4, <2>1, <2>3, <3>1, KeyVerifyAndUpdate
    <2> QED BY <2>3
  <1>5. CASE q.nv /\ q.at /\ ~open /\ t.mode # "user" /\ ~pcd.enforce /\ q.name = "PK"
    <2>1. PkWritten(t, q) = Update(t, q)
      BY <1>5 DEF PkWritten
    <2>2. ~IsGuarded(t)
      BY <1>5 DEF IsGuarded
    <2> HIDE DEF open
    <2>3. \A r \in PkWritten(t, q) :
            r \in Outcomes(Touched(t, q), Changed(t, q)) /\ r.del = FALSE
      <3>1. q.nv
        BY <1>5
      <3>2. /\ Update(t, q) \subseteq Outcomes(Touched(t, q), Changed(t, q))
            /\ \A r \in Update(t, q) : r.del = FALSE
        BY <3>1, KeyUpdate
      <3> QED BY <2>1, <3>2
    <2> QED BY <1>5, <2>2, <2>3
  <1>6. CASE /\ q.nv /\ q.at /\ ~open /\ t.mode # "user"
             /\ ~(~pcd.enforce /\ q.name = "PK")
    <2>1. PkWritten(t, q) = VerifyAndUpdate(t, q, "Payload")
      BY <1>6 DEF PkWritten
    <2>2. ~IsGuarded(t)
      BY <1>6 DEF IsGuarded
    <2> HIDE DEF open
    <2>3. ASSUME NEW r \in PkWritten(t, q)
          PROVE  /\ r \in Outcomes(Touched(t, q), Changed(t, q))
                 /\ r.st.v # t.v => Trusted(t, q, "Payload")
                 /\ r.status = "error" => r.st = t
                 /\ r.status = "ok" =>
                      r.del = (t.v[q.name].exists /\ q.payload = <<>> /\ ~q.append)
      <3>1. "Payload" # "Priv"
        OBVIOUS
      <3> QED BY <1>6, <2>1, <2>3, <3>1, KeyVerifyAndUpdate
    <2> QED BY <2>2, <2>3
  <1> HIDE DEF open
  <1> QED BY <1>2, <1>3, <1>4, <1>5, <1>6 DEF Requests

LEMMA KekOutcomes ==
  ASSUME NEW t \in Ready, NEW q \in Requests, q.name \notin Priv
  PROVE  \A r \in ProcessVarWithKek(t, q) :
           /\ r \in Outcomes(Touched(t, q), Changed(t, q))
           /\ IsGuarded(t) => (r.st.v # t.v => Trusted(t, q, "Kek"))
PROOF
  <1>1. t \in Touched(t, q)
    BY DEF Touched
  <1>2. CASE ~q.nv \/ ~q.at
    <2>1. ProcessVarWithKek(t, q) = {Error(t)}
      BY <1>2 DEF ProcessVarWithKek
    <2> QED BY <1>1, <2>1, ErrorOutcome DEF Error
  <1>3. CASE q.nv /\ q.at /\ t.mode = "user" /\ ~ByUser(t)
    <2>1. ProcessVarWithKek(t, q) = VerifyAndUpdate(t, q, "Kek")
      BY <1>3 DEF ProcessVarWithKek
    <2> QED BY <1>3, <2>1, KeyVerifyAndUpdate
  <1>4. CASE q.nv /\ q.at /\ ~(t.mode = "user" /\ ~ByUser(t))
    <2> DEFINE tell == t.mode # "setup"
    <2>1. ProcessVarWithKek(t, q) = Unverified(t, q, tell)
      BY <1>4 DEF ProcessVarWithKek
    <2>2. ~IsGuarded(t)
      BY <1>4 DEF IsGuarded
    <2>3. tell \in BOOLEAN
      OBVIOUS
    <2> HIDE DEF tell
    <2> QED BY <1>4, <2>1, <2>2, <2>3, UnverifiedOutcomes
  <1> QED BY <1>2, <1>3, <1>4

\* What follows the write of a PK changes no variable; where it is asked to
\* change the mode, success means that it did.
LEMMA ModeAfterOutcomes ==
  ASSUME NEW r, r.st \in Ready
  PROVE  \A o \in ModeAfter(r) :
           /\ o \in Outcomes(Alike(r.st), Alike(r.st))
           /\ o.status = "ok" =>
                o.st.mode = CASE r.st.mode = "setup" /\ ~r.del -> "user"
                              [] r.st.mode = "user" /\ r.del -> "setup"
                              [] OTHER -> r.st.mode
PROOF
  <1> DEFINE t == r.st
  <1>1. t \in Alike(t) /\ t.mode \in {"setup", "user"}
    BY DEF Alike, Ready, Good, State
  <1>2. ASSUME NEW m \in {"setup", "user"}, NEW o \in UpdatePlatformMode(t, m)
        PROVE  /\ o \in Outcomes(Alike(t), Alike(t))
               /\ o.status = "ok" => o.st.mode = m
    <2> HIDE DEF t
    <2>1. o \in Outcomes(Alike(t), InTheMode(t, m))
      BY <1>2, UpdatePlatformModeOutcomes DEF t
    <2>2. InTheMode(t, m) \subseteq Alike(t)
      BY DEF InTheMode
    <2>3. o \in Outcomes(Alike(t), Alike(t))
      BY <2>1, <2>2, Weaker
    <2>4. o.status = "ok" => o.st \in InTheMode(t, m)
      BY <2>1, WorkedOutcome
    <2> QED BY <2>3, <2>4 DEF InTheMode
  <1>3. CASE t.mode = "setup" /\ ~r.del
    <2>1. ModeAfter(r) = UpdatePlatformMode(t, "user")
      BY <1>3 DEF ModeAfter
    <2> QED BY <1>2, <1>3, <2>1
  <1>4. CASE t.mode = "user" /\ r.del
    <2>1. ModeAfter(r) = UpdatePlatformMode(t, "setup")
      BY <1>4 DEF ModeAfter
    <2> QED BY <1>2, <1>4, <2>1
  <1>5. CASE ~(t.mode = "setup" /\ ~r.del) /\ ~(t.mode = "user" /\ r.del)
    <2>1. ModeAfter(r) = {Done(t)}
      BY <1>5 DEF ModeAfter
    <2>2. Done(t) \in Outcomes(Alike(t), Alike(t)) /\ Done(t).st = t
      BY <1>1, DoneOutcome DEF Done
    <2> QED BY <1>5, <2>1, <2>2
  <1> QED BY <1>3, <1>4, <1>5

\* A request about a key changes nothing but that key.
LEMMA TouchedOthers ==
  ASSUME NEW t \in Ready, NEW q \in Requests, NEW u \in Touched(t, q)
  PROVE  /\ u \in Ready
         /\ \A n \in Names \ {q.name} : u.v[n] = t.v[n]
PROOF
  <1>1. t \in State
    BY DEF Ready, Good
  <1> QED BY <1>1, UpdatedFields DEF Touched, Changed

LEMMA PkOutcomes ==
  ASSUME NEW t \in Ready, NEW q \in Requests, q.name \notin Priv,
         pcd \in [require : BOOLEAN, enforce : BOOLEAN],
         NEW r \in ProcessVarWithPk(t, q)
  PROVE  /\ r \in Outcomes(Ready, Ready)
         /\ \A n \in Names \ {q.name} : r.st.v[n] = t.v[n]
         /\ IsGuarded(t) /\ r.st.v # t.v =>
              Trusted(t, q, "Pk") /\ Takes(t, q) /\ r.st.v = Updated(t, q).v
         /\ IsGuarded(t) /\ q.name # "PK" /\ r.status = "error" => r.st = t
PROOF
  <1> DEFINE Fine(o) ==
        /\ o \in Outcomes(Ready, Ready)
        /\ \A n \in Names \ {q.name} : o.st.v[n] = t.v[n]
        /\ IsGuarded(t) /\ o.st.v # t.v =>
             Trusted(t, q, "Pk") /\ Takes(t, q) /\ o.st.v = Updated(t, q).v
  <1>1. ASSUME NEW w \in PkWritten(t, q)
        PROVE  /\ w.st \in Touched(t, q) /\ Fine(w)
               /\ IsGuarded(t) /\ w.status = "error" => w.st = t
    <2>1. /\ w \in Outcomes(Touched(t, q), Changed(t, q))
          /\ IsGuarded(t) => /\ w.st.v # t.v => Trusted(t, q, "Pk")
                             /\ w.status = "error" => w.st = t
      BY PkWrittenOutcomes
    <2>2. w.st \in Touched(t, q)
      BY <2>1 DEF Outcomes
    <2>3. w.st.v = t.v \/ (Takes(t, q) /\ w.st.v = Updated(t, q).v)
      BY <2>2 DEF Touched, Changed
    <2>4. Touched(t, q) \subseteq Ready /\ Changed(t, q) \subseteq Ready
      BY DEF Touched, Changed
    <2>5. w \in Outcomes(Ready, Ready)
      BY <2>1, <2>4, Weaker
    <2> QED BY <2>1, <2>2, <2>3, <2>5, TouchedOthers
  <1>2. CASE q.name # "PK"
    <2>1. r \in PkWritten(t, q)
      BY <1>2, PkWrites
    <2> QED BY <1>1, <2>1
  <1>3. CASE q.name = "PK"
    <2>1. PICK w \in PkWritten(t, q) :
            r \in IF w.status = "ok" THEN ModeAfter(w) ELSE {w}
      BY <1>3, PkWrites
    <2>2. CASE w.status # "ok"
      BY <1>1, <1>3, <2>1, <2>2
    <2>3. CASE w.status = "ok"
      <3>1. w.st \in Ready
        BY <1>1, TouchedOthers
      <3>2. r \in Outcomes(Alike(w.st), Alike(w.st))
        BY <2>1, <2>3, <3>1, ModeAfterOutcomes
      <3>3. Alike(w.st) \subseteq Ready
        BY DEF Alike
      <3>4. r \in Outcomes(Ready, Ready)
        BY <3>2, <3>3, Weaker
      <3>5. r.st.v = w.st.v
        BY <3>2 DEF Outcomes, Alike
      <3> QED BY <1>1, <1>3, <3>4, <3>5
    <2> QED BY <2>2, <2>3
  <1> QED BY <1>2, <1>3

\* A PK that is written or deleted takes the mode with it.
LEMMA PkMode ==
  ASSUME NEW t \in Ready, NEW q \in Requests, q.name = "PK", InMode(t),
         pcd \in [require : BOOLEAN, enforce : BOOLEAN],
         NEW r \in ProcessVarWithPk(t, q), r.status = "ok",
         t.v["PK"].exists # r.st.v["PK"].exists
  PROVE  InMode(r.st)
PROOF
  <1>1. "PK" \notin Priv /\ t \in State /\ "PK" \in Names
    BY AuthAssumption DEF Ready, Good, Names
  <1>2. PICK w \in PkWritten(t, q) :
          r \in IF w.status = "ok" THEN ModeAfter(w) ELSE {w}
    BY PkWrites
  <1>3. /\ w \in Outcomes(Touched(t, q), Changed(t, q))
        /\ w.status = "ok" =>
             /\ w.del => q.payload = <<>>
             /\ t.mode = "user" /\ t.v[q.name].exists /\ q.payload = <<>>
                  /\ ~q.append => w.del
    BY <1>1, PkWrittenOutcomes
  <1>4. w.status = "ok" /\ r \in ModeAfter(w)
    BY <1>2
  <1>5. /\ w.st \in Ready /\ w.st.mode = t.mode /\ Takes(t, q)
        /\ w.st.v = Updated(t, q).v
    BY <1>3, <1>4 DEF Outcomes, Changed
  <1>6. /\ r.st.v = w.st.v
        /\ r.st.mode = CASE t.mode = "setup" /\ ~w.del -> "user"
                         [] t.mode = "user" /\ w.del -> "setup"
                         [] OTHER -> t.mode
    <2>1. r \in Outcomes(Alike(w.st), Alike(w.st))
      BY <1>4, <1>5, ModeAfterOutcomes
    <2>2. r.st.v = w.st.v
      BY <2>1 DEF Outcomes, Alike
    <2> QED BY <1>4, <1>5, <2>2, ModeAfterOutcomes
  <1>7. r.st.v["PK"] = Successor(t, q)
    BY <1>1, <1>5, <1>6, UpdatedFields
  <1>8. NewSigs(t.v[q.name], q) = q.payload
    BY DEF NewSigs, Lists
  <1>9. Successor(t, q).exists <=>
          ~(t.v["PK"].exists /\ ~q.append /\ q.payload = <<>>)
    <2>1. t.v["PK"] \in {Absent} \union Variable
      BY <1>1 DEF State
    <2>2. Absent.exists = FALSE
      BY DEF Absent
    <2>3. q.name \in Names /\ t.v \in [Names -> {Absent} \union Variable]
      BY <1>1 DEF State
    <2> QED BY <1>1, <1>8, <2>1, <2>2, <2>3 DEF Successor, Updated, State, Variable
  <1>10. CASE t.v["PK"].exists
    <2>1. t.mode = "user"
      BY <1>10 DEF InMode
    <2>2. ~r.st.v["PK"].exists /\ q.payload = <<>> /\ ~q.append
      BY <1>7, <1>9, <1>10
    <2>3. w.del
      BY <1>3, <1>4, <1>10, <2>1, <2>2
    <2>4. r.st.mode = "setup"
      BY <1>6, <2>1, <2>3
    <2> QED BY <2>2, <2>4 DEF InMode
  <1>11. CASE ~t.v["PK"].exists
    <2>1. t.mode = "setup"
      BY <1>11 DEF InMode
    <2>2. r.st.v["PK"].exists
      BY <1>7, <1>9, <1>11
    <2>3. q.payload # <<>>
      BY <1>5, <1>11 DEF Takes
    <2>4. r.st.mode = "user"
      BY <1>3, <1>4, <1>6, <2>1, <2>3
    <2> QED BY <2>2, <2>4 DEF InMode
  <1> QED BY <1>10, <1>11

\* Any request about a key.
LEMMA KeyOutcomes ==
  ASSUME NEW t \in Ready, NEW q \in Requests, q.name \notin Priv,
         pcd \in [require : BOOLEAN, enforce : BOOLEAN],
         NEW r \in Process(t, q)
  PROVE  /\ r \in Outcomes(Ready, Ready)
         /\ \A n \in Names \ {q.name} : r.st.v[n] = t.v[n]
         /\ IsGuarded(t) /\ r.st.v # t.v =>
              /\ \/ Trusted(t, q, "Pk")
                 \/ q.name = "db" /\ Trusted(t, q, "Kek")
              /\ Takes(t, q) /\ r.st.v = Updated(t, q).v
PROOF
  <1>1. q.name \in {"PK", "KEK", "db"}
    BY DEF Requests, Names, Lists
  <1>2. CASE q.name \in {"PK", "KEK"}
    <2>1. r \in ProcessVarWithPk(t, q)
      BY <1>2 DEF Process, Lists
    <2> QED BY <2>1, PkOutcomes
  <1>3. CASE q.name = "db"
    <2>1. PICK w \in ProcessVarWithPk(t, q) :
            r \in IF w.status = "error" THEN ProcessVarWithKek(w.st, q) ELSE {w}
      BY <1>3 DEF Process, Lists
    <2>2. CASE w.status # "error"
      BY <2>1, <2>2, PkOutcomes
    <2>3. CASE w.status = "error"
      <3>1. /\ w.st \in Ready /\ \A n \in Names \ {q.name} : w.st.v[n] = t.v[n]
            /\ IsGuarded(t) => w.st = t
        BY <1>3, <2>3, PkOutcomes DEF Outcomes
      <3>2. /\ r \in Outcomes(Touched(w.st, q), Changed(w.st, q))
            /\ IsGuarded(w.st) => (r.st.v # w.st.v => Trusted(w.st, q, "Kek"))
        BY <2>1, <2>3, <3>1, KekOutcomes
      <3>3. r.st \in Touched(w.st, q)
        BY <3>2 DEF Outcomes
      <3>4. r.st.v = w.st.v \/ (Takes(w.st, q) /\ r.st.v = Updated(w.st, q).v)
        BY <3>3 DEF Touched, Changed
      <3>5. \A n \in Names \ {q.name} : r.st.v[n] = t.v[n]
        BY <3>1, <3>3, TouchedOthers
      <3>6. /\ Touched(w.st, q) \subseteq Ready
            /\ Changed(w.st, q) \subseteq Ready
        BY DEF Touched, Changed
      <3>7. r \in Outcomes(Ready, Ready)
        BY <3>2, <3>6, Weaker
      <3> QED BY <1>3, <3>1, <3>2, <3>4, <3>5, <3>7
    <2> QED BY <2>2, <2>3
  <1> QED BY <1>1, <1>2, <1>3

-----------------------------------------------------------------------------
(***************************************************************************)
(* Requests about private variables                                        *)
(***************************************************************************)
\* The stores in which no private variable of t is gone and its signer is not.
Tidy(t) ==
  {u \in Ready :
     \A n \in Priv : t.v[n].exists /\ t.v[n].at /\ ~u.v[n].exists =>
       Certs(u, t.v[n].nv)[n] = None}

\* The stores that differ from t in the variable of the request only.
Elsewhere(t, q) ==
  {u \in Ready : \A n \in Names \ {q.name} : u.v[n] = t.v[n]}

LEMMA BesideElsewhere ==
  ASSUME NEW t \in Ready, NEW q \in Requests, NEW u \in Elsewhere(t, q)
  PROVE  Beside(u) \subseteq Elsewhere(t, q)
PROOF
  <1>1. u \in Ready
    BY DEF Elsewhere
  <1>2. Beside(u) \subseteq Ready
    BY <1>1, BesideReady
  <1> QED BY <1>2 DEF Elsewhere, Beside

\* The one variable of a request is the one to look at.
LEMMA TidyOthers ==
  ASSUME NEW t \in Ready, NEW q \in Requests, NEW u \in Ready,
         \A n \in Names \ {q.name} : u.v[n] = t.v[n],
         q.name \in Priv /\ t.v[q.name].exists /\ t.v[q.name].at
           /\ ~u.v[q.name].exists => Certs(u, t.v[q.name].nv)[q.name] = None
  PROVE  u \in Tidy(t)
PROOF
  BY DEF Tidy, Names

LEMMA DeletePrivateOutcomes ==
  ASSUME NEW t \in Ready, NEW q \in Requests, q.name \in Priv,
         t.v[q.name].nv = q.nv
  PROVE  DeletePrivate(t, q) \subseteq Outcomes(Elsewhere(t, q), Tidy(t))
PROOF
  <1> DEFINE u == [t EXCEPT !.v[q.name] = Absent]
             n == q.name
  <1>1. t \in State /\ VendorKept(t) /\ SignerKept(t) /\ KeysLast(t)
    BY DEF Ready, Good
  <1>2. n \in Names /\ t.v \in [Names -> {Absent} \union Variable]
    BY <1>1 DEF State, Requests
  <1>3. u.v = [t.v EXCEPT ![n] = Absent] /\ u \in State
    BY <1>1, <1>2 DEF State
  <1>4. /\ u.certdb = t.certdb /\ u.certdbv = t.certdbv /\ u.made = t.made
        /\ u.VendorKeysNv = t.VendorKeysNv /\ u.VendorKeys = t.VendorKeys
    BY <1>1 DEF State
  <1> HIDE DEF u
  <1>5. u.v[n].exists = FALSE /\ \A m \in Names \ {n} : u.v[m] = t.v[m]
    BY <1>2, <1>3 DEF Absent
  <1>6. SignerKept(u)
    <2>1. ASSUME NEW m \in Priv, u.v[m].exists, u.v[m].at
          PROVE  Certs(u, u.v[m].nv)[m] = u.v[m].by
      <3>1. m # n /\ m \in Names /\ u.v[m] = t.v[m]
        BY <1>5, <2>1 DEF Names
      <3> QED BY <1>1, <1>4, <2>1, <3>1 DEF SignerKept, Certs
    <2> QED BY <2>1 DEF SignerKept
  <1>7. VendorKept(u) /\ KeysLast(u)
    <2>1. KeysLast(u)
      BY <1>1, <1>5 DEF KeysLast
    <2> QED BY <1>1, <1>4, <2>1 DEF VendorKept
  <1>8. u \in Ready
    BY <1>3, <1>4, <1>6, <1>7 DEF Ready, Good
  <1>9. DeletePrivate(t, q) =
          UNION {IF r.status = "ok" THEN DeleteCerts(r.st, n, q.nv) ELSE {r} :
                 r \in Stored(t, u)}
    BY DEF DeletePrivate, Then, u
  <1>10. Stored(t, u) \subseteq Outcomes(Elsewhere(t, q), {u})
    <2>1. t \in Elsewhere(t, q) /\ u \in Elsewhere(t, q)
      BY <1>5, <1>8 DEF Elsewhere
    <2> QED BY <2>1, StoredOutcomes
  <1>11. DeleteCerts(u, n, q.nv) \subseteq Outcomes(Elsewhere(t, q), Tidy(t))
    <2>1. q.nv \in BOOLEAN /\ u \in Good
      BY <1>8 DEF Requests, Ready
    <2>2. DeleteCerts(u, n, q.nv) \subseteq
            Outcomes(Beside(u), {w \in Beside(u) : Certs(w, q.nv)[n] = None})
      BY <1>5, <2>1, DeleteCertsOutcomes
    <2>3. ASSUME NEW w \in Beside(u), Certs(w, q.nv)[n] = None
          PROVE  w \in Tidy(t)
      <3>1. w \in Ready /\ w.v = u.v
        BY <1>8, BesideReady DEF Beside
      <3>2. \A m \in Names \ {q.name} : w.v[m] = t.v[m]
        BY <1>5, <3>1
      <3> QED BY <2>3, <3>1, <3>2, TidyOthers
    <2>4. Beside(u) \subseteq Elsewhere(t, q)
      <3>1. u \in Elsewhere(t, q)
        BY <1>5, <1>8 DEF Elsewhere
      <3> QED BY <3>1, BesideElsewhere
    <2> QED BY <2>2, <2>3, <2>4, Weaker
  <1> HIDE DEF n
  <1>12. ASSUME NEW r \in Stored(t, u)
         PROVE  (IF r.status = "ok" THEN DeleteCerts(r.st, n, q.nv) ELSE {r})
                  \subseteq Outcomes(Elsewhere(t, q), Tidy(t))
    <2>1. r \in Outcomes(Elsewhere(t, q), {u})
      BY <1>10
    <2>2. CASE r.status = "ok"
      <3>1. r.st = u
        BY <2>1, <2>2, WorkedOutcome
      <3> QED BY <1>11, <2>2, <3>1
    <2>3. CASE r.status # "ok"
      BY <2>1, <2>3, StoppedOutcome
    <2> QED BY <2>2, <2>3
  <1> QED BY <1>9, <1>12

LEMMA PrivateVerifyAndUpdate ==
  ASSUME NEW t \in Ready, NEW q \in Requests, q.name \in Priv
  PROVE  VerifyAndUpdate(t, q, "Priv") \subseteq Outcomes(Elsewhere(t, q), Tidy(t))
PROOF
  <1> DEFINE n == q.name
             isDel == t.v[n].exists /\ q.payload = <<>> /\ ~q.append
             verified == Verify(t, q, "Priv")
             written == Then(verified, LAMBDA u : Update(u, q))
             cleaned == IF isDel
                        THEN Then(written, LAMBDA u : DeleteCerts(u, n, q.nv))
                        ELSE written
             Y == {w \in Ready : /\ \A m \in Names \ {n} : w.v[m] = t.v[m]
                                 /\ w.v[n].exists <=> ~isDel
                                 /\ isDel => t.v[n].nv = q.nv}
  <1>1. t \in State /\ n \in Names /\ q.nv \in BOOLEAN
    BY DEF Ready, Good, Requests
  <1>2. verified \subseteq Outcomes(Elsewhere(t, q), {u \in Beside(t) : Owned(u, q)})
    <2>1. verified \subseteq Outcomes(Beside(t), {u \in Beside(t) : Owned(u, q)})
      BY VerifyOutcomes
    <2>2. Beside(t) \subseteq Elsewhere(t, q)
      <3>1. t \in Elsewhere(t, q)
        BY DEF Elsewhere
      <3> QED BY <3>1, BesideElsewhere
    <2> QED BY <2>1, <2>2, Weaker
  <1>3. ASSUME NEW u \in Beside(t), Owned(u, q)
        PROVE  Update(u, q) \subseteq Outcomes(Elsewhere(t, q), Y)
    <2>1. u \in Ready /\ u \in State /\ u.v = t.v
      BY BesideReady DEF Beside, Ready, Good
    <2>2. Update(u, q) \subseteq Outcomes({u} \union Written(u, q), Written(u, q))
      BY <1>3, <2>1, UpdateOutcomes
    <2>3. ASSUME NEW w \in Written(u, q) PROVE w \in Y
      <3>1. w \in Ready /\ w = Updated(u, q) /\ Takes(u, q)
        BY DEF Written
      <3>2. \A m \in Names \ {n} : w.v[m] = t.v[m]
        BY <2>1, <3>1, UpdatedFields
      <3>3. w.v[n].exists <=> ~isDel
        <4>1. w.v[n] = Successor(u, q)
          BY <2>1, <3>1, UpdatedFields
        <4>2. Successor(u, q).exists <=>
                ~(u.v[n].exists /\ ~q.append /\ q.payload = <<>>)
          BY <2>1, <3>1, PrivateSuccessor
        <4> QED BY <2>1, <4>1, <4>2
      <3>4. isDel => t.v[n].nv = q.nv
        BY <2>1, <3>1 DEF Takes
      <3> HIDE DEF isDel
      <3> QED BY <3>1, <3>2, <3>3, <3>4
    <2>4. {u} \union Written(u, q) \subseteq Elsewhere(t, q)
      BY <2>1, <2>3 DEF Elsewhere
    <2> HIDE DEF Y
    <2> QED BY <2>2, <2>3, <2>4, Weaker
  <1>4. written \subseteq Outcomes(Elsewhere(t, q), Y)
    <2>1. written = UNION {IF r.status = "ok" THEN Update(r.st, q) ELSE {r} :
                           r \in verified}
      BY DEF Then
    <2> HIDE DEF written, verified, Y
    <2>2. ASSUME NEW r \in verified
          PROVE  (IF r.status = "ok" THEN Update(r.st, q) ELSE {r})
                   \subseteq Outcomes(Elsewhere(t, q), Y)
      <3>1. r \in Outcomes(Elsewhere(t, q), {u \in Beside(t) : Owned(u, q)})
        BY <1>2
      <3>2. CASE r.status = "ok"
        <4>1. r.st \in {u \in Beside(t) : Owned(u, q)}
          BY <3>1, <3>2, WorkedOutcome
        <4> QED BY <1>3, <3>2, <4>1
      <3>3. CASE r.status # "ok"
        BY <3>1, <3>3, StoppedOutcome
      <3> QED BY <3>2, <3>3
    <2> QED BY <2>1, <2>2
  <1>5. cleaned \subseteq Outcomes(Elsewhere(t, q), Tidy(t))
    <2> HIDE DEF written
    <2>1. CASE ~isDel
      <3>1. Y \subseteq Tidy(t)
        <4>1. ASSUME NEW w \in Y PROVE w \in Tidy(t)
          <5>1. /\ w \in Ready /\ w.v[q.name].exists
                /\ \A m \in Names \ {q.name} : w.v[m] = t.v[m]
            BY <2>1
          <5> QED BY <5>1, TidyOthers
        <4> QED BY <4>1
      <3>2. cleaned = written
        BY <2>1
      <3> HIDE DEF Y, cleaned
      <3> QED BY <1>4, <3>1, <3>2, Weaker
    <2>2. CASE isDel
      <3>1. cleaned = UNION {IF r.status = "ok" THEN DeleteCerts(r.st, n, q.nv)
                             ELSE {r} : r \in written}
        BY <2>2 DEF Then
      <3>2. ASSUME NEW w \in Y
            PROVE  DeleteCerts(w, n, q.nv) \subseteq Outcomes(Elsewhere(t, q), Tidy(t))
        <4>1. /\ w \in Ready /\ ~w.v[n].exists /\ t.v[n].nv = q.nv
              /\ \A m \in Names \ {q.name} : w.v[m] = t.v[m]
          BY <2>2
        <4>2. w \in Good
          BY <4>1 DEF Ready
        <4>3. DeleteCerts(w, n, q.nv) \subseteq
                Outcomes(Beside(w), {x \in Beside(w) : Certs(x, q.nv)[n] = None})
          BY <1>1, <4>1, <4>2, DeleteCertsOutcomes
        <4>4. ASSUME NEW x \in Beside(w), Certs(x, q.nv)[n] = None
              PROVE  x \in Tidy(t)
          <5>1. x \in Ready /\ x.v = w.v
            BY <4>1, BesideReady DEF Beside
          <5>2. \A m \in Names \ {q.name} : x.v[m] = t.v[m]
            BY <4>1, <5>1
          <5> QED BY <4>1, <4>4, <5>1, <5>2, TidyOthers
        <4>5. Beside(w) \subseteq Elsewhere(t, q)
          <5>1. w \in Elsewhere(t, q)
            BY <4>1 DEF Elsewhere
          <5> QED BY <5>1, BesideElsewhere
        <4> QED BY <4>3, <4>4, <4>5, Weaker
      <3> HIDE DEF cleaned, Y, n
      <3>3. ASSUME NEW r \in written
            PROVE  (IF r.status = "ok" THEN DeleteCerts(r.st, n, q.nv) ELSE {r})
                     \subseteq Outcomes(Elsewhere(t, q), Tidy(t))
        <4>1. r \in Outcomes(Elsewhere(t, q), Y)
          BY <1>4
        <4>2. CASE r.status = "ok"
          <5>1. r.st \in Y
            BY <4>1, <4>2, WorkedOutcome
          <5> QED BY <3>2, <4>2, <5>1
        <4>3. CASE r.status # "ok"
          BY <4>1, <4>3, StoppedOutcome
        <4> QED BY <4>2, <4>3
      <3> QED BY <3>1, <3>3
    <2> HIDE DEF cleaned, isDel
    <2> QED BY <2>1, <2>2
  <1>6. CASE phase = "runtime"
    <2>1. VerifyAndUpdate(t, q, "Priv") = {Error(t)}
      BY <1>6 DEF VerifyAndUpdate
    <2>2. t \in Elsewhere(t, q)
      BY DEF Elsewhere
    <2> QED BY <2>1, <2>2, ErrorOutcome
  <1>7. CASE phase # "runtime"
    <2>1. VerifyAndUpdate(t, q, "Priv") =
            {[r EXCEPT !.del = isDel /\ r.status = "ok"] : r \in cleaned}
      BY <1>7 DEF VerifyAndUpdate
    <2> HIDE DEF cleaned, isDel
    <2>2. ASSUME NEW o \in VerifyAndUpdate(t, q, "Priv")
          PROVE  o \in Outcomes(Elsewhere(t, q), Tidy(t))
      <3>1. PICK r \in cleaned : o = [r EXCEPT !.del = isDel /\ r.status = "ok"]
        BY <2>1
      <3> DEFINE d == isDel /\ r.status = "ok"
      <3>2. /\ d \in BOOLEAN /\ o = [r EXCEPT !.del = d]
            /\ r \in Outcomes(Elsewhere(t, q), Tidy(t))
        BY <1>5, <3>1
      <3> HIDE DEF d
      <3> QED BY <3>2, DelOutcome
    <2> QED BY <2>2
  <1> QED BY <1>6, <1>7

\* Any request about a private variable.
LEMMA PrivateOutcomes ==
  ASSUME NEW t \in Ready, NEW q \in Requests, q.name \in Priv
  PROVE  Process(t, q) \subseteq Outcomes(Elsewhere(t, q), Tidy(t))
PROOF
  <1> DEFINE old == t.v[q.name]
             isDelete == /\ old.exists /\ old.nv = q.nv /\ old.at = q.at /\ q.at
                         /\ q.payload = <<>> /\ ~q.append
             deletes == isDelete /\ (UserPhysicalPresent \/ ~policy)
  <1>1. Process(t, q) = ProcessVariable(t, q)
    BY AuthAssumption DEF Process, Lists
  <1>2. t \in State /\ t \in Elsewhere(t, q)
    BY DEF Ready, Good, Elsewhere
  <1>3. CASE deletes
    <2>1. ProcessVariable(t, q) = DeletePrivate(t, q)
      BY <1>3 DEF ProcessVariable
    <2> QED BY <1>1, <1>3, <2>1, DeletePrivateOutcomes
  <1>4. CASE ~deletes /\ q.at
    <2>1. ProcessVariable(t, q) = VerifyAndUpdate(t, q, "Priv")
      BY <1>4 DEF ProcessVariable
    <2> QED BY <1>1, <2>1, PrivateVerifyAndUpdate
  <1>5. CASE ~q.at /\ old.exists /\ old.at
    <2>1. ProcessVariable(t, q) = {Error(t)}
      BY <1>5 DEF ProcessVariable
    <2> QED BY <1>1, <1>2, <2>1, ErrorOutcome
  <1>6. CASE ~q.at /\ ~(old.exists /\ old.at)
    <2>1. ProcessVariable(t, q) = Update(t, q)
      BY <1>6 DEF ProcessVariable
    <2>2. Update(t, q) \subseteq Outcomes({t} \union Written(t, q), Written(t, q))
      BY <1>6, UpdateOutcomes DEF Owned
    <2>3. ASSUME NEW w \in Written(t, q)
          PROVE  w \in Elsewhere(t, q) /\ w \in Tidy(t)
      <3>1. w \in Ready /\ \A m \in Names \ {q.name} : w.v[m] = t.v[m]
        BY <1>2, UpdatedFields DEF Written
      <3> QED BY <1>6, <3>1, TidyOthers DEF Elsewhere
    <2>4. {t} \union Written(t, q) \subseteq Elsewhere(t, q)
      BY <1>2, <2>3
    <2> QED BY <1>1, <2>1, <2>2, <2>3, <2>4, Weaker
  <1> HIDE DEF old, deletes
  <1> QED BY <1>3, <1>4, <1>5, <1>6

\* No request leaves a store that is not sound.
LEMMA RequestOutcomes ==
  ASSUME NEW t \in Ready, NEW q \in Requests,
         pcd \in [require : BOOLEAN, enforce : BOOLEAN],
         NEW r \in Process(t, q)
  PROVE  /\ r \in Outcomes(Ready, Tidy(t))
         /\ \A n \in Names \ {q.name} : r.st.v[n] = t.v[n]
PROOF
  <1>1. CASE q.name \in Priv
    <2>1. r \in Outcomes(Elsewhere(t, q), Tidy(t))
      BY <1>1, PrivateOutcomes
    <2>2. r.st \in Elsewhere(t, q) /\ Elsewhere(t, q) \subseteq Ready
      BY <2>1 DEF Outcomes, Elsewhere
    <2> QED BY <2>1, <2>2, Weaker DEF Elsewhere
  <1>2. CASE q.name \notin Priv
    <2>1. /\ r \in Outcomes(Ready, Ready)
          /\ \A n \in Names \ {q.name} : r.st.v[n] = t.v[n]
      BY <1>2, KeyOutcomes
    <2>2. r.st \in Ready
      BY <2>1 DEF Outcomes
    <2>3. r.st \in Tidy(t)
      BY <1>2, <2>1, <2>2, TidyOthers
    <2> QED BY <2>1, <2>3 DEF Outcomes
  <1> QED BY <1>1, <1>2

-----------------------------------------------------------------------------
(***************************************************************************)
(* Starting                                                                *)
(***************************************************************************)
\* What a sound store asks of the fields the start writes.
LEMMA SameSigners ==
  ASSUME NEW t \in Good, NEW u \in State,
         u.v = t.v, u.certdb = t.certdb, u.certdbv = t.certdbv, VendorKept(u)
  PROVE  u \in Good
PROOF
  BY DEF Good, SignerKept, KeysLast, Certs

\* The power takes volatile variables together with their signers, and no key.
LEMMA ClearedGood ==
  ASSUME NEW t \in Good
  PROVE  /\ Cleared(t) \in Good /\ Cleared(t).vendor = "valid"
         /\ \A n \in Names \ Priv : Cleared(t).v[n] = t.v[n]
PROOF
  <1> DEFINE left == [n \in Names |-> IF t.v[n].exists /\ ~t.v[n].nv
                                      THEN Absent ELSE t.v[n]]
             u == Cleared(t)
  <1>1. t \in State /\ SignerKept(t) /\ KeysLast(t)
    BY DEF Good
  <1>2. left \in [Names -> {Absent} \union Variable]
    BY <1>1 DEF State
  <1>3. NoCerts \in [Priv -> Keys \union {None}]
    BY DEF NoCerts
  <1> HIDE DEF left
  <1>4. u = [t EXCEPT !.mode = "setup", !.SecureBoot = "off",
                      !.vendor = "valid", !.VendorKeys = "valid",
                      !.certdbv = NoCerts, !.v = left]
    BY DEF Cleared, left
  <1>5. /\ u \in State /\ u.v = left /\ u.certdb = t.certdb
        /\ u.vendor = "valid" /\ u.VendorKeys = "valid"
    BY <1>1, <1>2, <1>3, <1>4 DEF State
  <1> HIDE DEF u
  <1>6. \A n \in Names : left[n] = IF t.v[n].exists /\ ~t.v[n].nv
                                   THEN Absent ELSE t.v[n]
    BY DEF left
  <1>7. Absent.exists = FALSE
    BY DEF Absent
  <1>8. \A n \in Names \ Priv : u.v[n] = t.v[n]
    BY <1>1, <1>5, <1>6 DEF KeysLast
  <1>9. SignerKept(u)
    <2>1. ASSUME NEW n \in Priv, u.v[n].exists, u.v[n].at
          PROVE  Certs(u, u.v[n].nv)[n] = u.v[n].by
      <3>1. n \in Names
        BY DEF Names
      <3>2. u.v[n] = t.v[n] /\ t.v[n].nv
        <4>1. u.v[n] = IF t.v[n].exists /\ ~t.v[n].nv THEN Absent ELSE t.v[n]
          BY <1>5, <1>6, <3>1
        <4>2. ~(t.v[n].exists /\ ~t.v[n].nv)
          BY <1>7, <2>1, <4>1
        <4>3. u.v[n] = t.v[n]
          BY <4>1, <4>2
        <4> QED BY <2>1, <4>2, <4>3
      <3> QED BY <1>1, <1>5, <2>1, <3>2 DEF SignerKept, Certs
    <2> QED BY <2>1 DEF SignerKept
  <1>10. VendorKept(u) /\ KeysLast(u)
    <2>1. KeysLast(u)
      BY <1>1, <1>8 DEF KeysLast
    <2> QED BY <1>5, <2>1 DEF VendorKept
  <1> QED BY <1>5, <1>8, <1>9, <1>10 DEF Good, u

\* The stores of the start: nothing is in memory; the mode variables are
\* there; certdb is too.
Begun == {u \in Good : u.vendor = "valid"}
Moded == {u \in Begun :
            /\ u.CustomMode = "standard"
            /\ u.SecureBoot = IF u.v["PK"].exists THEN "on" ELSE "off"}
Made == {u \in Moded : u.made}

\* The fields the start sets one after another.
LEMMA BegunSame ==
  ASSUME NEW t \in Begun, NEW u \in State,
         u.v = t.v, u.certdb = t.certdb, u.certdbv = t.certdbv,
         u.vendor = t.vendor, u.VendorKeys = t.VendorKeys,
         u.VendorKeysNv = t.VendorKeysNv
  PROVE  u \in Begun
PROOF
  <1>1. t \in Good /\ t.vendor = "valid" /\ VendorKept(t)
    BY DEF Begun, Good
  <1>2. VendorKept(u)
    BY <1>1 DEF VendorKept
  <1>3. u \in Good
    BY <1>1, <1>2, SameSigners
  <1> QED BY <1>1, <1>3 DEF Begun

LEMMA BegunMode ==
  ASSUME NEW t \in Begun, NEW m \in {"setup", "user"},
         NEW u, u = [t EXCEPT !.mode = m]
  PROVE  /\ u \in Begun /\ u.v = t.v /\ u.mode = m
PROOF
  <1>1. t \in State
    BY DEF Begun, Good
  <1>2. /\ u \in State /\ u.v = t.v /\ u.mode = m
        /\ u.certdb = t.certdb /\ u.certdbv = t.certdbv
        /\ u.vendor = t.vendor /\ u.VendorKeys = t.VendorKeys
        /\ u.VendorKeysNv = t.VendorKeysNv
    BY <1>1 DEF State
  <1> QED BY <1>2, BegunSame

LEMMA BegunEnable ==
  ASSUME NEW t \in Begun,
         NEW u, u = [t EXCEPT !.SecureBootEnable = "on"]
  PROVE  /\ u \in Begun /\ u.v = t.v /\ u.SecureBootEnable = "on"
PROOF
  <1>1. t \in State
    BY DEF Begun, Good
  <1>2. /\ u \in State /\ u.v = t.v /\ u.SecureBootEnable = "on"
        /\ u.certdb = t.certdb /\ u.certdbv = t.certdbv
        /\ u.vendor = t.vendor /\ u.VendorKeys = t.VendorKeys
        /\ u.VendorKeysNv = t.VendorKeysNv
    BY <1>1 DEF State
  <1> QED BY <1>2, BegunSame

LEMMA BegunSecure ==
  ASSUME NEW t \in Begun, NEW b \in {"on", "off"},
         NEW u, u = [t EXCEPT !.SecureBoot = b]
  PROVE  /\ u \in Begun /\ u.v = t.v /\ u.SecureBoot = b
PROOF
  <1>1. t \in State
    BY DEF Begun, Good
  <1>2. /\ u \in State /\ u.v = t.v /\ u.SecureBoot = b
        /\ u.certdb = t.certdb /\ u.certdbv = t.certdbv
        /\ u.vendor = t.vendor /\ u.VendorKeys = t.VendorKeys
        /\ u.VendorKeysNv = t.VendorKeysNv
    BY <1>1 DEF State
  <1> QED BY <1>2, BegunSame

LEMMA BegunCustom ==
  ASSUME NEW t \in Begun,
         NEW u, u = [t EXCEPT !.CustomMode = "standard"]
  PROVE  /\ u \in Begun /\ u.v = t.v /\ u.CustomMode = "standard"
         /\ u.SecureBoot = t.SecureBoot
PROOF
  <1>1. t \in State
    BY DEF Begun, Good
  <1>2. /\ u \in State /\ u.v = t.v /\ u.CustomMode = "standard"
        /\ u.certdb = t.certdb /\ u.certdbv = t.certdbv
        /\ u.vendor = t.vendor /\ u.VendorKeys = t.VendorKeys
        /\ u.VendorKeysNv = t.VendorKeysNv
        /\ u.SecureBoot = t.SecureBoot
    BY <1>1 DEF State
  <1> QED BY <1>2, BegunSame

LEMMA BegunMade ==
  ASSUME NEW t \in Begun,
         NEW u, u = [t EXCEPT !.made = TRUE]
  PROVE  /\ u \in Begun /\ u.v = t.v /\ u.made = TRUE
         /\ u.SecureBoot = t.SecureBoot /\ u.CustomMode = t.CustomMode
PROOF
  <1>1. t \in State
    BY DEF Begun, Good
  <1>2. /\ u \in State /\ u.v = t.v /\ u.made = TRUE
        /\ u.certdb = t.certdb /\ u.certdbv = t.certdbv
        /\ u.vendor = t.vendor /\ u.VendorKeys = t.VendorKeys
        /\ u.VendorKeysNv = t.VendorKeysNv
        /\ u.SecureBoot = t.SecureBoot /\ u.CustomMode = t.CustomMode
    BY <1>1 DEF State
  <1> QED BY <1>2, BegunSame

\* The mode variables are what the platform key says once they are written.
LEMMA ModeVariablesOutcomes ==
  ASSUME NEW t \in Begun
  PROVE  ModeVariables(t) \subseteq Outcomes(Begun, Moded)
PROOF
  <1> DEFINE m == IF t.v["PK"].exists THEN "user" ELSE "setup"
             u == [t EXCEPT !.mode = m]
             On(w) == [w EXCEPT !.SecureBootEnable = "on"]
             enabled == IF u.mode = "user" /\ u.SecureBootEnable # "on"
                        THEN Stored(u, On(u)) ELSE {Done(u)}
             secure == IF u.mode = "user" THEN "on" ELSE "off"
             Secure(w) == [w EXCEPT !.SecureBoot = secure]
             Custom(w) == [w EXCEPT !.CustomMode = "standard"]
             A == {w \in Begun : w.v = t.v}
             B == {w \in A : w.SecureBoot = secure}
             secured == Then(enabled, LAMBDA w : Stored(w, Secure(w)))
  <1>1. m \in {"setup", "user"} /\ "on" \in {"on", "off"}
    OBVIOUS
  <1>2. u \in Begun /\ u.v = t.v /\ u.mode = m
    <2> HIDE DEF m
    <2> QED BY <1>1, BegunMode
  <1>3. secure = (IF t.v["PK"].exists THEN "on" ELSE "off")
        /\ secure \in {"on", "off"}
    <2> HIDE DEF u
    <2> QED BY <1>2
  <1>4. enabled \subseteq Outcomes(Begun, A)
    <2> HIDE DEF u
    <2>1. u \in A
      BY <1>2
    <2>2. On(u) \in A
      BY <1>2, BegunEnable
    <2> HIDE DEF A, On
    <2>3. /\ Stored(u, On(u)) \subseteq Outcomes(Begun, A)
          /\ {Done(u)} \subseteq Outcomes(Begun, A)
      <3>1. A \subseteq Begun
        BY DEF A
      <3> QED BY <2>1, <2>2, <3>1, StoredOutcomes, DoneOutcome
    <2> QED BY <2>3
  <1> HIDE DEF secure, enabled
  <1>5. secured \subseteq Outcomes(Begun, B)
    <2>1. secured = UNION {IF r.status = "ok" THEN Stored(r.st, Secure(r.st))
                           ELSE {r} : r \in enabled}
      BY DEF Then
    <2>2. ASSUME NEW w \in A
          PROVE  Stored(w, Secure(w)) \subseteq Outcomes(Begun, B)
      <3>1. Secure(w) \in B /\ Secure(w) \in Begun
        <4>1. w \in Begun /\ w.v = t.v /\ secure \in {"on", "off"}
          BY <1>3
        <4>2. /\ Secure(w) \in Begun /\ Secure(w).v = w.v
              /\ Secure(w).SecureBoot = secure
          BY <4>1, BegunSecure
        <4> HIDE DEF Secure
        <4> QED BY <4>1, <4>2
      <3> HIDE DEF B, Secure
      <3> QED BY <3>1, StoredOutcomes
    <2> HIDE DEF secured, A, B, Secure
    <2>3. ASSUME NEW r \in enabled
          PROVE  (IF r.status = "ok" THEN Stored(r.st, Secure(r.st)) ELSE {r})
                   \subseteq Outcomes(Begun, B)
      <3>1. r \in Outcomes(Begun, A)
        BY <1>4
      <3>2. CASE r.status = "ok"
        <4>1. r.st \in A
          BY <3>1, <3>2, WorkedOutcome
        <4> QED BY <2>2, <3>2, <4>1
      <3>3. CASE r.status # "ok"
        BY <3>1, <3>3, StoppedOutcome
      <3> QED BY <3>2, <3>3
    <2> QED BY <2>1, <2>3
  <1>6. ModeVariables(t) =
          UNION {IF r.status = "ok" THEN Stored(r.st, Custom(r.st)) ELSE {r} :
                 r \in secured}
    BY DEF ModeVariables, Then, enabled, secure
  <1>7. ASSUME NEW w \in B
        PROVE  Stored(w, Custom(w)) \subseteq Outcomes(Begun, Moded)
    <2>1. /\ Custom(w) \in Begun /\ Custom(w).v = t.v
          /\ Custom(w).SecureBoot = secure /\ Custom(w).CustomMode = "standard"
      BY BegunCustom
    <2> HIDE DEF Custom
    <2>2. Custom(w) \in Moded
      BY <1>3, <2>1 DEF Moded
    <2> QED BY <2>1, <2>2, StoredOutcomes
  <1> HIDE DEF secured, B, Custom
  <1>8. ASSUME NEW r \in secured
        PROVE  (IF r.status = "ok" THEN Stored(r.st, Custom(r.st)) ELSE {r})
                 \subseteq Outcomes(Begun, Moded)
    <2>1. r \in Outcomes(Begun, B)
      BY <1>5
    <2>2. CASE r.status = "ok"
      <3>1. r.st \in B
        BY <2>1, <2>2, WorkedOutcome
      <3> QED BY <1>7, <2>2, <3>1
    <2>3. CASE r.status # "ok"
      BY <2>1, <2>3, StoppedOutcome
    <2> QED BY <2>2, <2>3
  <1> QED BY <1>6, <1>8

LEMMA InitializeOutcomes ==
  ASSUME NEW t \in Begun,
         NEW r \in Then(ModeVariables(t),
                        LAMBDA w : IF w.made THEN {Done(w)}
                                   ELSE Stored(w, [w EXCEPT !.made = TRUE]))
  PROVE  r \in Outcomes(Begun, Made)
PROOF
  <1> DEFINE Make(w) == [w EXCEPT !.made = TRUE]
             Next1(w) == IF w.made THEN {Done(w)} ELSE Stored(w, Make(w))
  <1>1. PICK w \in ModeVariables(t) :
          r \in IF w.status = "ok" THEN Next1(w.st) ELSE {w}
    BY DEF Then
  <1>2. w \in Outcomes(Begun, Moded)
    BY ModeVariablesOutcomes
  <1>3. CASE w.status # "ok"
    BY <1>1, <1>2, <1>3, StoppedOutcome
  <1>4. CASE w.status = "ok"
    <2>1. w.st \in Moded /\ w.st \in Begun
      BY <1>2, <1>4, WorkedOutcome DEF Moded
    <2>2. Make(w.st) \in Made /\ Make(w.st) \in Begun
      <3>1. /\ Make(w.st) \in Begun /\ Make(w.st).v = w.st.v
            /\ Make(w.st).SecureBoot = w.st.SecureBoot
            /\ Make(w.st).CustomMode = w.st.CustomMode
            /\ Make(w.st).made
        BY <2>1, BegunMade
      <3> HIDE DEF Make
      <3> QED BY <2>1, <3>1 DEF Made, Moded
    <2> HIDE DEF Make
    <2>3. Stored(w.st, Make(w.st)) \subseteq Outcomes(Begun, Made)
      BY <2>1, <2>2, StoredOutcomes
    <2>4. w.st.made => {Done(w.st)} \subseteq Outcomes(Begun, Made)
      BY <2>1, DoneOutcome DEF Made
    <2> QED BY <1>1, <1>4, <2>3, <2>4
  <1> QED BY <1>3, <1>4

\* The last step of a start ends with a store that requests may be made of.
LEMMA VendorKeysOutcomes ==
  ASSUME NEW t \in Made
  PROVE  VendorKeys(t) \subseteq
           Outcomes(Good, {u \in Ready : /\ u.v = t.v
                                         /\ u.SecureBoot = t.SecureBoot
                                         /\ u.CustomMode = t.CustomMode})
PROOF
  <1> DEFINE Like(u) == /\ u \in State /\ u.v = t.v /\ u.certdb = t.certdb
                        /\ u.certdbv = t.certdbv /\ u.made
                        /\ u.SecureBoot = t.SecureBoot
                        /\ u.CustomMode = t.CustomMode
                        /\ u.VendorKeysNv # "none" /\ VendorKept(u)
             A == {u \in State : /\ Like(u)
                                 /\ u.vendor = "modified" =>
                                      u.VendorKeysNv = "modified"}
             Y == {u \in Ready : /\ u.v = t.v /\ u.SecureBoot = t.SecureBoot
                                 /\ u.CustomMode = t.CustomMode}
             nv == [t EXCEPT !.VendorKeysNv = "valid"]
             taken == [t EXCEPT !.vendor = t.VendorKeysNv]
             first == IF t.VendorKeysNv = "none" THEN Stored(t, nv)
                      ELSE {Done(taken)}
             Copy(w) == [w EXCEPT !.VendorKeys = w.vendor]
  <1>1. t \in Good /\ t \in State /\ t.vendor = "valid" /\ t.made /\ VendorKept(t)
    BY DEF Made, Moded, Begun, Good
  <1>2. ASSUME NEW u, Like(u) PROVE u \in Good /\ u \in Y
    <2>1. u \in Good
      BY <1>1, <1>2, SameSigners
    <2> QED BY <1>2, <2>1 DEF Ready
  <1>3. t.VendorKeysNv = "none" => nv \in A
    BY <1>1 DEF State, VendorKept
  <1>4. t.VendorKeysNv # "none" => taken \in A
    BY <1>1 DEF State, VendorKept
  <1>5. ASSUME NEW w \in A PROVE Like(Copy(w))
    BY <1>5 DEF State, VendorKept
  <1>6. A \subseteq Good
    BY <1>2
  <1>7. first \subseteq Outcomes(Good, A)
    <2> HIDE DEF A, nv, taken
    <2>1. CASE t.VendorKeysNv = "none"
      BY <1>1, <1>3, <1>6, <2>1, StoredOutcomes
    <2>2. CASE t.VendorKeysNv # "none"
      <3>1. taken \in A /\ taken \in Good
        BY <1>4, <1>6, <2>2
      <3> QED BY <2>2, <3>1, DoneOutcome
    <2> QED BY <2>1, <2>2
  <1>8. VendorKeys(t) =
          UNION {IF r.status = "ok" THEN Stored(r.st, Copy(r.st)) ELSE {r} :
                 r \in first}
    BY DEF VendorKeys, Then
  <1> HIDE DEF first, Like, Copy
  <1>9. ASSUME NEW r \in first
        PROVE  (IF r.status = "ok" THEN Stored(r.st, Copy(r.st)) ELSE {r})
                 \subseteq Outcomes(Good, Y)
    <2> HIDE DEF A, Y
    <2>1. r \in Outcomes(Good, A)
      BY <1>7
    <2>2. CASE r.status = "ok"
      <3>1. r.st \in A /\ r.st \in Good
        BY <1>6, <2>1, <2>2, WorkedOutcome
      <3>2. Copy(r.st) \in Good /\ Copy(r.st) \in Y
        BY <1>2, <1>5, <3>1
      <3>3. Stored(r.st, Copy(r.st)) \subseteq Outcomes(Good, Y)
        BY <3>1, <3>2, StoredOutcomes
      <3> QED BY <2>2, <3>3
    <2>3. CASE r.status # "ok"
      BY <2>1, <2>3, StoppedOutcome
    <2> QED BY <2>2, <2>3
  <1>10. VendorKeys(t) \subseteq Outcomes(Good, Y)
    <2> HIDE DEF Y
    <2> QED BY <1>8, <1>9
  <1> QED BY <1>10

LEMMA FinishOutcomes ==
  ASSUME NEW t \in Made, NEW r \in Then(Stored(t, t), VendorKeys)
  PROVE  r \in Outcomes(Good, {u \in Ready : /\ u.v = t.v
                                             /\ u.SecureBoot = t.SecureBoot
                                             /\ u.CustomMode = t.CustomMode})
PROOF
  <1>1. PICK w \in Stored(t, t) :
          r \in IF w.status = "ok" THEN VendorKeys(w.st) ELSE {w}
    BY DEF Then
  <1>2. w \in Outcomes(Good, {t})
    <2>1. t \in Good
      BY DEF Made, Moded, Begun
    <2> QED BY <2>1, StoredOutcomes
  <1>3. CASE w.status = "ok"
    <2>1. w.st = t
      BY <1>2, <1>3, WorkedOutcome
    <2> QED BY <1>1, <1>3, <2>1, VendorKeysOutcomes
  <1>4. CASE w.status # "ok"
    BY <1>1, <1>2, <1>4, StoppedOutcome
  <1> QED BY <1>3, <1>4

-----------------------------------------------------------------------------
(***************************************************************************)
(* The invariant                                                           *)
(***************************************************************************)
\* What AuthInv says of the variables a step may leave alone.
Around ==
  /\ pcd \in Pcds /\ scope \in Scopes
  /\ present \in {"assumed", "no", "yes"} /\ policy \in BOOLEAN
  /\ last \in [signer : Keys \union {None},
               answer : {"none", "ok", "error", "lost"}]

\* What it says of the store and the phase.
StoreInv ==
  /\ phase \in {"off", "clean", "finish", "services", "runtime", "dead"}
  /\ s \in Good
  /\ Running => s.made /\ s.VendorKeysNv # "none"
  /\ phase \in {"off", "clean", "finish"} => s.vendor = "valid"
  /\ phase \in {"clean", "finish"} => s \in Made

LEMMA AuthInvParts ==
  AuthInv <=> /\ Around /\ StoreInv
              /\ phase \in {"clean", "finish"} => last = Nothing
PROOF
  BY DEF AuthInv, TypeOK, Around, StoreInv, Good, Made, Moded, Begun

LEMMA AuthInvNext ==
  ASSUME Around', StoreInv', phase' \in {"clean", "finish"} => last' = Nothing
  PROVE  AuthInv'
PROOF
  BY DEF AuthInv, TypeOK, Around, StoreInv, Good, Made, Moded, Begun

LEMMA NothingTyped ==
  Nothing \in [signer : Keys \union {None},
               answer : {"none", "ok", "error", "lost"}]
PROOF
  BY DEF Nothing

LEMMA AuthInit == Init => AuthInv
PROOF
  <1> SUFFICES ASSUME Init PROVE AuthInv
    OBVIOUS
  <1>1. Around
    BY NothingTyped DEF Init, Around
  <1>2. phase = "off" /\ s.vendor = "valid"
    BY DEF Init
  <1>3. s \in State
    <2>1. [n \in Names |-> Absent] \in [Names -> {Absent} \union Variable]
      OBVIOUS
    <2>2. NoCerts \in [Priv -> Keys \union {None}]
      BY DEF NoCerts
    <2> QED BY <2>1, <2>2 DEF Init, State
  <1>4. s \in Good
    <2>1. \A n \in Names : s.v[n].exists = FALSE
      BY DEF Init, Absent
    <2>2. Priv \subseteq Names
      BY DEF Names
    <2>3. s.VendorKeys = "valid"
      BY DEF Init
    <2> QED BY <1>3, <2>1, <2>2, <2>3 DEF Good, VendorKept, SignerKept, KeysLast
  <1> QED BY <1>1, <1>2, <1>4, AuthInvParts DEF StoreInv, Running

\* A step that failed, or lost its power.
LEMMA BecomeStopped ==
  ASSUME NEW r, NEW next, Become(r, next), r.st \in Good,
         r.status \in {"error", "lost"}
  PROVE  /\ StoreInv' /\ phase' \in {"off", "dead"}
         /\ UNCHANGED <<pcd, scope>>
PROOF
  <1>1. s' = Cleared(r.st) /\ phase' \in {"off", "dead"}
    BY DEF Become, Reach
  <1>2. s' \in Good /\ s'.vendor = "valid"
    BY <1>1, ClearedGood
  <1> QED BY <1>1, <1>2 DEF StoreInv, Running, Become

LEMMA BecomeReached ==
  ASSUME NEW r, NEW next, Become(r, next), r.status = "ok"
  PROVE  s' = r.st /\ phase' = next /\ UNCHANGED <<pcd, scope>>
PROOF
  BY DEF Become, Reach

LEMMA InitializeInv ==
  ASSUME AuthInv, Initialize
  PROVE  AuthInv'
PROOF
  <1>1. s \in Begun /\ Around
    BY AuthInvParts DEF Initialize, StoreInv, Begun
  <1>2. PICK r \in Then(ModeVariables(s),
                        LAMBDA t : IF t.made THEN {Done(t)}
                                   ELSE Stored(t, [t EXCEPT !.made = TRUE])) :
          Become(r, IF s.made THEN "clean" ELSE "finish")
    BY DEF Initialize
  <1>3. r \in Outcomes(Begun, Made)
    BY <1>1, <1>2, InitializeOutcomes
  <1>4. r.st \in Good /\ r.status \in {"ok", "error", "lost"}
    BY <1>3 DEF Outcomes, Begun
  <1>5. StoreInv' /\ UNCHANGED <<pcd, scope>>
    <2>1. CASE r.status = "ok"
      <3>1. r.st \in Made
        BY <1>3, <2>1, WorkedOutcome
      <3>2. /\ s' = r.st /\ phase' \in {"clean", "finish"}
            /\ UNCHANGED <<pcd, scope>>
        BY <1>2, <2>1, BecomeReached
      <3>3. s' \in Good /\ s'.vendor = "valid"
        BY <3>1, <3>2 DEF Made, Moded, Begun
      <3> QED BY <3>1, <3>2, <3>3 DEF StoreInv, Running
    <2>2. CASE r.status # "ok"
      BY <1>2, <1>4, <2>2, BecomeStopped
    <2> QED BY <2>1, <2>2
  <1>6. present' = "assumed" /\ policy' = TRUE /\ last' = Nothing
    BY DEF Initialize
  <1>7. Around'
    BY <1>1, <1>5, <1>6, NothingTyped DEF Around
  <1> QED BY <1>5, <1>6, <1>7, AuthInvNext

LEMMA CleanInv ==
  ASSUME AuthInv, CleanCertsFromDb
  PROVE  AuthInv'
PROOF
  <1>1. s \in Made /\ s \in Good /\ Around /\ last = Nothing
    BY AuthInvParts DEF CleanCertsFromDb, StoreInv
  <1>2. PICK r, next :
          /\ Become(r, next) /\ next \in {"clean", "finish"}
          /\ r \in Outcomes(Beside(s), Beside(s))
    <2>1. s \in Beside(s)
      BY <1>1 DEF Beside
    <2>2. CASE Orphans(s) = {}
      <3>1. Done(s) \in Outcomes(Beside(s), Beside(s))
        BY <2>1, DoneOutcome
      <3> QED BY <2>2, <3>1 DEF CleanCertsFromDb
    <2>3. CASE Orphans(s) # {}
      <3>1. PICK n \in Orphans(s) : \E r \in DeleteCerts(s, n, TRUE) :
              Become(IF r.status = "error" THEN Done(r.st) ELSE r, "clean")
        BY <2>3 DEF CleanCertsFromDb
      <3>2. PICK r \in DeleteCerts(s, n, TRUE) :
              Become(IF r.status = "error" THEN Done(r.st) ELSE r, "clean")
        BY <3>1
      <3>3. n \in Priv /\ ~(s.v[n].exists /\ s.v[n].at /\ s.v[n].nv = TRUE)
        BY DEF Orphans
      <3>4. r \in Outcomes(Beside(s), {u \in Beside(s) : Certs(u, TRUE)[n] = None})
        BY <1>1, <3>3, DeleteCertsOutcomes
      <3>5. r \in Outcomes(Beside(s), Beside(s)) /\ r.st \in Beside(s)
        BY <3>4 DEF Outcomes
      <3>6. Done(r.st) \in Outcomes(Beside(s), Beside(s))
        BY <3>5, DoneOutcome
      <3> QED BY <3>2, <3>5, <3>6
    <2> QED BY <2>2, <2>3
  <1>3. r.st \in Beside(s) /\ r.st \in Good /\ r.status \in {"ok", "error", "lost"}
    BY <1>2 DEF Outcomes, Beside
  <1>4. StoreInv' /\ UNCHANGED <<pcd, scope>>
    <2>1. CASE r.status = "ok"
      <3>1. s' = r.st /\ phase' \in {"clean", "finish"} /\ UNCHANGED <<pcd, scope>>
        BY <1>2, <2>1, BecomeReached
      <3>2. s' \in Made
        BY <1>1, <1>3, <3>1 DEF Beside, Made, Moded, Begun
      <3>3. s' \in Good /\ s'.vendor = "valid"
        BY <3>2 DEF Made, Moded, Begun
      <3> QED BY <3>1, <3>2, <3>3 DEF StoreInv, Running
    <2>2. CASE r.status # "ok"
      BY <1>2, <1>3, <2>2, BecomeStopped
    <2> QED BY <2>1, <2>2
  <1>5. UNCHANGED <<present, policy, last>>
    BY DEF CleanCertsFromDb
  <1>6. Around'
    BY <1>1, <1>4, <1>5 DEF Around
  <1> QED BY <1>1, <1>4, <1>5, <1>6, AuthInvNext

LEMMA FinishInv ==
  ASSUME AuthInv, FinishInitialize
  PROVE  AuthInv'
PROOF
  <1>1. s \in Made /\ Around /\ last = Nothing
    BY AuthInvParts DEF FinishInitialize, StoreInv
  <1>2. PICK r \in Then(Stored(s, s), VendorKeys) : Become(r, "services")
    BY DEF FinishInitialize
  <1>3. r \in Outcomes(Good, {u \in Ready : /\ u.v = s.v
                                            /\ u.SecureBoot = s.SecureBoot
                                            /\ u.CustomMode = s.CustomMode})
    BY <1>1, <1>2, FinishOutcomes
  <1>4. r.st \in Good /\ r.status \in {"ok", "error", "lost"}
    BY <1>3 DEF Outcomes
  <1>5. StoreInv' /\ UNCHANGED <<pcd, scope>>
    <2>1. CASE r.status = "ok"
      <3>1. r.st \in Ready
        BY <1>3, <2>1, WorkedOutcome
      <3>2. s' = r.st /\ phase' = "services" /\ UNCHANGED <<pcd, scope>>
        BY <1>2, <2>1, BecomeReached
      <3> QED BY <3>1, <3>2 DEF StoreInv, Running, Ready
    <2>2. CASE r.status # "ok"
      BY <1>2, <1>4, <2>2, BecomeStopped
    <2> QED BY <2>1, <2>2
  <1>6. UNCHANGED <<present, policy, last>>
    BY DEF FinishInitialize
  <1>7. Around'
    BY <1>1, <1>5, <1>6 DEF Around
  <1> QED BY <1>1, <1>5, <1>6, <1>7, AuthInvNext

\* The answer to a request, from a store where requests are taken.
LEMMA AnsweredInv ==
  ASSUME AuthInv, Running, NEW r, Answered(r), r \in Outcomes(Ready, Ready),
         UNCHANGED <<present, policy>>,
         last' \in [signer : Keys \union {None},
                    answer : {"none", "ok", "error", "lost"}]
  PROVE  AuthInv'
PROOF
  <1>1. Around /\ StoreInv
    BY AuthInvParts
  <1>2. r.st \in Ready /\ r.st \in Good /\ r.status \in {"ok", "error", "lost"}
    BY DEF Outcomes, Ready
  <1>3. StoreInv' /\ UNCHANGED <<pcd, scope>> /\ phase' \notin {"clean", "finish"}
    <2>1. CASE r.status = "lost"
      <3>1. Become(r, phase)
        BY <2>1 DEF Answered
      <3> QED BY <1>2, <2>1, <3>1, BecomeStopped
    <2>2. CASE r.status # "lost"
      <3>1. phase' = phase /\ s' = r.st /\ UNCHANGED <<pcd, scope>>
        BY <2>2 DEF Answered
      <3> QED BY <1>1, <1>2, <3>1 DEF StoreInv, Running, Ready
    <2> QED BY <2>1, <2>2
  <1>4. Around'
    BY <1>1, <1>3 DEF Around
  <1> QED BY <1>3, <1>4, AuthInvNext

LEMMA RunningReady == AuthInv /\ Running => s \in Ready
PROOF
  BY DEF AuthInv, TypeOK, Ready

LEMMA PcdType == AuthInv => pcd \in [require : BOOLEAN, enforce : BOOLEAN]
PROOF
  BY AuthAssumption DEF AuthInv, TypeOK

LEMMA SetVariableInv ==
  ASSUME AuthInv, NEW q \in Request, SetVariable(q)
  PROVE  AuthInv'
PROOF
  <1>1. s \in Ready /\ Running /\ q \in Requests
    BY RunningReady, RequestType DEF SetVariable
  <1>2. PICK r \in Process(s, q) :
          /\ Answered(r)
          /\ last' = [signer |-> IF r.st.v = s.v THEN None ELSE q.signer,
                      answer |-> r.status]
    BY DEF SetVariable
  <1>3. r \in Outcomes(Ready, Tidy(s))
    BY <1>1, <1>2, PcdType, RequestOutcomes
  <1>4. r \in Outcomes(Ready, Ready)
    BY <1>3 DEF Outcomes
  <1>5. last' \in [signer : Keys \union {None},
                   answer : {"none", "ok", "error", "lost"}]
    <2>1. r.status \in {"ok", "error", "lost"}
      BY <1>3 DEF Outcomes
    <2>2. q.signer \in Keys \union {None}
      BY <1>1 DEF Requests
    <2> QED BY <1>2, <2>1, <2>2
  <1>6. UNCHANGED <<present, policy>>
    BY DEF SetVariable
  <1> QED BY <1>1, <1>2, <1>4, <1>5, <1>6, AnsweredInv

LEMMA SetModeInv ==
  ASSUME AuthInv, NEW field, NEW value, SetMode(field, value),
         \/ field = "SecureBootEnable" /\ value \in {"none", "on", "off"}
         \/ field = "CustomMode" /\ value \in {"none", "standard", "custom"}
  PROVE  /\ AuthInv'
         /\ last'.answer = "ok" => s'.v = s.v
         /\ \A n \in Names \ Priv : s'.v[n] = s.v[n]
PROOF
  <1> DEFINE new == [s EXCEPT ![field] = value]
  <1>1. s \in Ready /\ Running /\ s \in State
    BY RunningReady DEF SetMode, Running, Ready, Good
  <1>2. PICK r \in Stored(s, new) :
          /\ Answered(r)
          /\ last' = [signer |-> None, answer |-> r.status]
    BY DEF SetMode
  <1>3. /\ new \in State /\ new.v = s.v /\ new.certdb = s.certdb
        /\ new.certdbv = s.certdbv /\ new.made = s.made
        /\ new.VendorKeysNv = s.VendorKeysNv /\ new.VendorKeys = s.VendorKeys
    <2>1. CASE field = "SecureBootEnable" /\ value \in {"none", "on", "off"}
      BY <1>1, <2>1 DEF State
    <2>2. CASE field = "CustomMode" /\ value \in {"none", "standard", "custom"}
      BY <1>1, <2>2 DEF State
    <2> QED BY <2>1, <2>2
  <1> HIDE DEF new
  <1>4. new \in Ready
    BY <1>1, <1>3, SameVariables DEF Ready, Good, VendorKept
  <1>5. r \in Outcomes(Ready, Ready)
    BY <1>1, <1>2, <1>4, StoredOutcomes
  <1>6. last' \in [signer : Keys \union {None},
                   answer : {"none", "ok", "error", "lost"}]
    BY <1>2, <1>5 DEF Outcomes
  <1>7. UNCHANGED <<present, policy>>
    BY DEF SetMode
  <1>8. AuthInv'
    BY <1>1, <1>2, <1>5, <1>6, <1>7, AnsweredInv
  <1>9. /\ last'.answer = "ok" => s'.v = s.v
        /\ \A n \in Names \ Priv : s'.v[n] = s.v[n]
    <2>1. r \in {Done(new), Error(s), Lost(new)} /\ last'.answer = r.status
      BY <1>2 DEF Stored
    <2>2. r.st.v = s.v /\ r.st \in Good
      <3>1. s \in Good /\ new \in Good
        BY <1>1, <1>4 DEF Ready
      <3> QED BY <1>3, <2>1, <3>1 DEF Done, Error, Lost
    <2>3. CASE r.status # "lost"
      <3>1. s' = r.st
        BY <1>2, <2>3 DEF Answered
      <3> QED BY <2>2, <3>1
    <2>4. CASE r.status = "lost"
      <3>1. s' = Cleared(r.st)
        BY <1>2, <2>4 DEF Answered, Become
      <3> QED BY <2>1, <2>2, <2>4, <3>1, ClearedGood
    <2> QED BY <2>3, <2>4
  <1> QED BY <1>8, <1>9

LEMMA PowerOffInv ==
  ASSUME AuthInv, PowerOff
  PROVE  AuthInv'
PROOF
  <1>1. Become(Lost(s), phase) /\ Lost(s).st = s /\ Lost(s).status = "lost"
    BY DEF PowerOff, Lost
  <1>2. s \in Good /\ Around
    BY AuthInvParts DEF StoreInv
  <1>3. StoreInv' /\ phase' \in {"off", "dead"} /\ UNCHANGED <<pcd, scope>>
    BY <1>1, <1>2, BecomeStopped
  <1>4. last' = Nothing /\ present' = "assumed" /\ policy' = TRUE
    BY DEF PowerOff
  <1>5. Around'
    BY <1>2, <1>3, <1>4, NothingTyped DEF Around
  <1> QED BY <1>3, <1>4, <1>5, AuthInvNext

\* Steps that write nothing.
LEMMA QuietInv ==
  ASSUME AuthInv, FindButtons \/ KeyNotify \/ DisablePolicy \/ ExitBootServices
  PROVE  AuthInv'
PROOF
  <1>1. Around /\ StoreInv
    BY AuthInvParts
  <1>2. /\ s' = s /\ UNCHANGED <<pcd, scope>> /\ last' = Nothing
        /\ Running /\ phase' \in {"services", "runtime"}
    BY DEF FindButtons, KeyNotify, DisablePolicy, ExitBootServices, Running
  <1>3. present' \in {"assumed", "no", "yes"} /\ policy' \in BOOLEAN
    BY <1>1 DEF FindButtons, KeyNotify, DisablePolicy, ExitBootServices, Around
  <1>4. Around'
    BY <1>1, <1>2, <1>3, NothingTyped DEF Around
  <1>5. StoreInv'
    BY <1>1, <1>2 DEF StoreInv, Running
  <1> QED BY <1>2, <1>4, <1>5, AuthInvNext

LEMMA AuthStep == AuthInv /\ [Next]_vars => AuthInv'
PROOF
  <1> SUFFICES ASSUME AuthInv, [Next]_vars PROVE AuthInv'
    OBVIOUS
  <1>1. CASE Initialize
    BY <1>1, InitializeInv
  <1>2. CASE CleanCertsFromDb
    BY <1>2, CleanInv
  <1>3. CASE FinishInitialize
    BY <1>3, FinishInv
  <1>4. CASE \E q \in Request : SetVariable(q)
    BY <1>4, SetVariableInv
  <1>5. CASE \E value \in {"none", "on", "off"} : SetMode("SecureBootEnable", value)
    BY <1>5, SetModeInv
  <1>6. CASE \E value \in {"none", "standard", "custom"} : SetMode("CustomMode", value)
    BY <1>6, SetModeInv
  <1>7. CASE FindButtons \/ KeyNotify \/ DisablePolicy \/ ExitBootServices
    BY <1>7, QuietInv
  <1>8. CASE PowerOff
    BY <1>8, PowerOffInv
  <1>9. CASE UNCHANGED vars
    BY <1>9 DEF vars, AuthInv, TypeOK, Running
  <1> QED BY <1>1, <1>2, <1>3, <1>4, <1>5, <1>6, <1>7, <1>8, <1>9 DEF Next

LEMMA AuthInvHolds == Spec => []AuthInv
PROOF
  BY AuthInit, AuthStep, PTL DEF Spec

\* Every variable keeps its type, and the library's own variables are there
\* while requests are taken, whatever was lost (AuthVariableLibInitialize).
THEOREM AuthTypeCorrect == Spec => []TypeOK
PROOF
  <1>1. AuthInv => TypeOK
    BY DEF AuthInv
  <1> QED BY <1>1, AuthInvHolds, PTL

\* A start never takes back that vendor keys were modified: the copy that is
\* read never says so alone, whichever write fails (VendorKeyIsModified).
THEOREM VendorKeysAlwaysKept == Spec => []VendorKeysKept
PROOF
  <1>1. AuthInv => VendorKeysKept
    BY DEF AuthInv, Good, VendorKept, VendorKeysKept
  <1> QED BY <1>1, AuthInvHolds, PTL

\* The database holds the signer of every authenticated private variable
\* through failed writes, power loss and cleaning (VerifyTimeBasedPayload,
\* CleanCertsFromDb).
THEOREM SignerAlwaysRecorded == Spec => []SignerRecorded
PROOF
  <1>1. AuthInv => SignerRecorded
    BY DEF AuthInv, Good, SignerKept, SignerRecorded
  <1> QED BY <1>1, AuthInvHolds, PTL

-----------------------------------------------------------------------------
(***************************************************************************)
(* What a step may do                                                      *)
(***************************************************************************)
Request1 == \E q \in Request : SetVariable(q)
Mode1 ==
  \/ \E value \in {"none", "on", "off"} : SetMode("SecureBootEnable", value)
  \/ \E value \in {"none", "standard", "custom"} : SetMode("CustomMode", value)

\* Only a request is answered.
LEMMA OnlyRequestsAnswered ==
  ASSUME AuthInv, Next, last'.answer = "ok"
  PROVE  Request1 \/ Mode1
PROOF
  <1>1. Nothing.answer # "ok"
    BY DEF Nothing
  <1>2. last' # Nothing
    BY <1>1
  <1>3. ~Initialize /\ ~FindButtons /\ ~KeyNotify /\ ~DisablePolicy
        /\ ~ExitBootServices /\ ~PowerOff
    BY <1>2 DEF Initialize, FindButtons, KeyNotify, DisablePolicy,
                ExitBootServices, PowerOff
  <1>4. ~CleanCertsFromDb /\ ~FinishInitialize
    BY <1>2 DEF AuthInv, CleanCertsFromDb, FinishInitialize
  <1> QED BY <1>3, <1>4 DEF Next, Request1, Mode1

\* What a request was answered, and what it left.
LEMMA RequestStep ==
  ASSUME AuthInv, NEW q \in Request, SetVariable(q)
  PROVE  \E r \in Process(s, q) :
           /\ last'.answer = r.status /\ q \in Requests
           /\ last'.signer = IF r.st.v = s.v THEN None ELSE q.signer
           /\ r.status = "ok" => s' = r.st
           /\ r.st \in Ready
           /\ \A n \in Names \ Priv : s'.v[n] = r.st.v[n]
PROOF
  <1>1. s \in Ready /\ q \in Requests
    BY RunningReady, RequestType DEF SetVariable
  <1>2. PICK r \in Process(s, q) :
          /\ Answered(r)
          /\ last' = [signer |-> IF r.st.v = s.v THEN None ELSE q.signer,
                      answer |-> r.status]
    BY DEF SetVariable
  <1>3. r.st \in Ready /\ r.st \in Good
    BY <1>1, <1>2, PcdType, RequestOutcomes DEF Outcomes, Ready
  <1>4. r.status # "lost" => s' = r.st
    BY <1>2 DEF Answered
  <1>5. r.status = "lost" => s' = Cleared(r.st)
    BY <1>2 DEF Answered, Become
  <1>6. \A n \in Names \ Priv : s'.v[n] = r.st.v[n]
    BY <1>3, <1>4, <1>5, ClearedGood
  <1> QED BY <1>1, <1>2, <1>3, <1>4, <1>6

\* A delete that was answered with success, and the cleaning of a start,
\* leave no signer of a variable that is gone (DeleteCertsFromDb,
\* CleanCertsFromDb).
THEOREM OrphansAlwaysCleared == Spec => OrphansCleared
PROOF
  <1> DEFINE Deleted(n) ==
        last'.answer = "ok" /\ s.v[n].exists /\ s.v[n].at /\ ~s'.v[n].exists
          => Certs(s', s.v[n].nv)[n] = None
             Cleaned(n) ==
        phase = "clean" /\ phase' = "finish" /\ s'.certdb[n] # None
          => s'.v[n].exists /\ s'.v[n].at
  <1>1. ASSUME AuthInv, Next, NEW n \in Priv PROVE Deleted(n)
    <2> SUFFICES ASSUME last'.answer = "ok", s.v[n].exists, s.v[n].at,
                        ~s'.v[n].exists
                 PROVE  Certs(s', s.v[n].nv)[n] = None
      OBVIOUS
    <2>1. ~Mode1
      BY <1>1, SetModeInv DEF Mode1
    <2>2. PICK q \in Request : SetVariable(q)
      BY <1>1, <2>1, OnlyRequestsAnswered DEF Request1
    <2>3. PICK r \in Process(s, q) :
            /\ last'.answer = r.status /\ q \in Requests
            /\ r.status = "ok" => s' = r.st
      BY <1>1, <2>2, RequestStep
    <2>4. s \in Ready
      BY <1>1, <2>2, RunningReady DEF SetVariable
    <2>5. r \in Outcomes(Ready, Tidy(s))
      BY <1>1, <2>3, <2>4, PcdType, RequestOutcomes
    <2>6. s' \in Tidy(s)
      BY <2>3, <2>5 DEF Outcomes
    <2> QED BY <2>6 DEF Tidy
  <1>2. ASSUME AuthInv, Next, NEW n \in Priv PROVE Cleaned(n)
    <2> SUFFICES ASSUME phase = "clean", phase' = "finish", s'.certdb[n] # None
                 PROVE  s'.v[n].exists /\ s'.v[n].at
      OBVIOUS
    <2>1. CleanCertsFromDb
      BY <1>2 DEF Next, Initialize, FinishInitialize, SetVariable, SetMode, Running,
                  FindButtons, KeyNotify, DisablePolicy, ExitBootServices,
                  PowerOff, Become, Reach, Lost
    <2>2. CASE Orphans(s) = {}
      <3>1. s' = s
        BY <2>1, <2>2 DEF CleanCertsFromDb, Become, Done
      <3> QED BY <2>2, <3>1 DEF Orphans
    <2>3. Orphans(s) = {}
      <3> SUFFICES ASSUME Orphans(s) # {} PROVE FALSE
        OBVIOUS
      <3>1. PICK m \in Orphans(s) : \E r \in DeleteCerts(s, m, TRUE) :
              Become(IF r.status = "error" THEN Done(r.st) ELSE r, "clean")
        BY <2>1 DEF CleanCertsFromDb
      <3>2. PICK r \in DeleteCerts(s, m, TRUE) :
              Become(IF r.status = "error" THEN Done(r.st) ELSE r, "clean")
        BY <3>1
      <3>3. m \in Priv /\ ~(s.v[m].exists /\ s.v[m].at /\ s.v[m].nv = TRUE)
        BY DEF Orphans
      <3>4. s \in Good
        BY <1>2 DEF AuthInv
      <3>5. r \in Outcomes(Beside(s), {u \in Beside(s) : Certs(u, TRUE)[m] = None})
        BY <3>3, <3>4, DeleteCertsOutcomes
      <3>6. r.status \in {"ok", "error", "lost"}
        BY <3>5 DEF Outcomes
      <3>7. Done(r.st).status = "ok"
        BY DEF Done
      <3>8. phase' \in {"clean", "off"}
        BY <3>2, <3>6, <3>7 DEF Become, Reach
      <3> QED BY <3>8
    <2> QED BY <2>2, <2>3
  <1>3. AuthInv /\ [Next]_vars =>
          [\A n \in Priv : Deleted(n) /\ Cleaned(n)]_vars
    BY <1>1, <1>2
  <1>4. AuthInv /\ [Next]_vars =>
          [\A n \in Priv :
             /\ last'.answer = "ok" /\ s.v[n].exists /\ s.v[n].at /\ ~s'.v[n].exists
                => Certs(s', s.v[n].nv)[n] = None
             /\ phase = "clean" /\ phase' = "finish" /\ s'.certdb[n] # None
                => s'.v[n].exists /\ s'.v[n].at]_vars
    BY <1>3
  <1> QED BY <1>4, AuthInvHolds, PTL DEF Spec, OrphansCleared

\* The platform key that is written or deleted takes the mode with it, and a
\* start makes secure boot what the platform key says (UpdatePlatformMode,
\* AuthVariableLibInitialize).
THEOREM KeyAlwaysGivesMode == Spec => KeyGivesMode
PROOF
  <1>1. ASSUME AuthInv, Next, last'.answer = "ok",
               s.v["PK"].exists # s'.v["PK"].exists, InMode(s)
        PROVE  InMode(s')
    <2>1. ~Mode1
      BY <1>1, SetModeInv DEF Mode1
    <2>2. PICK q \in Request : SetVariable(q)
      BY <1>1, <2>1, OnlyRequestsAnswered DEF Request1
    <2>3. PICK r \in Process(s, q) :
            /\ last'.answer = r.status /\ q \in Requests
            /\ r.status = "ok" => s' = r.st
      BY <1>1, <2>2, RequestStep
    <2>4. s \in Ready /\ pcd \in [require : BOOLEAN, enforce : BOOLEAN]
      BY <1>1, <2>2, RunningReady, PcdType DEF SetVariable
    <2>5. s' = r.st /\ r.status = "ok"
      BY <1>1, <2>3
    <2>6. q.name = "PK"
      <3>1. "PK" \in Names
        BY DEF Names
      <3> QED BY <1>1, <2>3, <2>4, <2>5, <3>1, RequestOutcomes
    <2>7. r \in ProcessVarWithPk(s, q)
      BY <2>3, <2>6 DEF Process, Lists
    <2> QED BY <1>1, <2>3, <2>4, <2>5, <2>6, <2>7, PkMode
  <1>2. ASSUME AuthInv, Next, phase = "finish", phase' = "services"
        PROVE  /\ s'.SecureBoot = IF s'.v["PK"].exists THEN "on" ELSE "off"
               /\ s'.CustomMode = "standard"
    <2>1. FinishInitialize
      BY <1>2 DEF Next, Initialize, CleanCertsFromDb, SetVariable, SetMode, Running,
                  FindButtons, KeyNotify, DisablePolicy, ExitBootServices,
                  PowerOff, Become, Reach, Lost
    <2>2. s \in Made
      BY <1>2, AuthInvParts DEF StoreInv
    <2>3. PICK r \in Then(Stored(s, s), VendorKeys) : Become(r, "services")
      BY <2>1 DEF FinishInitialize
    <2>4. r \in Outcomes(Good, {u \in Ready : /\ u.v = s.v
                                              /\ u.SecureBoot = s.SecureBoot
                                              /\ u.CustomMode = s.CustomMode})
      BY <2>2, <2>3, FinishOutcomes
    <2>5. r.status = "ok" /\ s' = r.st
      BY <1>2, <2>3, <2>4 DEF Become, Reach, Outcomes
    <2>6. /\ s'.v = s.v /\ s'.SecureBoot = s.SecureBoot
          /\ s'.CustomMode = s.CustomMode
      BY <2>4, <2>5 DEF Outcomes
    <2> QED BY <2>2, <2>6 DEF Made, Moded
  <1>3. AuthInv /\ [Next]_vars =>
          [/\ (/\ last'.answer = "ok" /\ s.v["PK"].exists # s'.v["PK"].exists
               /\ InMode(s))
              => InMode(s')
           /\ phase = "finish" /\ phase' = "services" =>
                /\ s'.SecureBoot = IF s'.v["PK"].exists THEN "on" ELSE "off"
                /\ s'.CustomMode = "standard"]_vars
    BY <1>1, <1>2
  <1> QED BY <1>3, AuthInvHolds, PTL DEF Spec, KeyGivesMode

\* A fresh time stamp is not before the one it takes the place of.
LEMMA KeyTime ==
  ASSUME NEW t \in State, NEW q \in Requests, q.name \notin Priv,
         Fresh(t.v[q.name], q), t.v[q.name].exists, Successor(t, q).exists
  PROVE  Successor(t, q).time >= t.v[q.name].time
PROOF
  <1> DEFINE old == t.v[q.name]
  <1>1. /\ old \in {Absent} \union Variable /\ Absent.exists = FALSE
        /\ q.name \in Names /\ t.v \in [Names -> {Absent} \union Variable]
    BY DEF State, Requests, Absent
  <1>2. old.time \in Nat /\ q.time \in Nat /\ q.append \in BOOLEAN
    <2>1. old \in Variable
      BY <1>1
    <2>2. old.time \in 0..MaxTime
      BY <2>1 DEF Variable
    <2>3. q.time \in 0..MaxTime /\ q.append \in BOOLEAN
      BY DEF Requests
    <2> HIDE DEF old
    <2> QED BY <2>2, <2>3, AuthAssumption
  <1>3. \/ Successor(t, q).time = MaxOf(old.time, q.time)
        \/ ~q.append /\ Successor(t, q).time = q.time
    BY <1>1 DEF Successor, Updated, State, Variable, Requests
  <1>4. MaxOf(old.time, q.time) >= old.time
    BY <1>2 DEF MaxOf
  <1>5. ~q.append => q.time > old.time
    BY DEF Fresh
  <1> QED BY <1>2, <1>3, <1>4, <1>5

\* In user mode, without a user in custom mode, the keys change only by the
\* hand of their owner, whatever fails on the way, and never back to an
\* earlier time stamp (ProcessVarWithPk, ProcessVarWithKek).
THEOREM OwnerAlwaysChanges == Spec => OwnerChanges
PROOF
  <1> DEFINE Owner(n) ==
        /\ \/ /\ s.v["PK"].exists
              /\ last'.signer = Head(s.v["PK"].sigs)
           \/ n = "db" /\ last'.signer \in Elems(s.v["KEK"].sigs)
        /\ s.v[n].exists /\ s'.v[n].exists => s'.v[n].time >= s.v[n].time
  <1>1. ASSUME AuthInv, Guarded, NEW n \in Names \ Priv, s'.v[n] # s.v[n],
               NEW q \in Request, SetVariable(q)
        PROVE  Owner(n)
    <2>1. PICK r \in Process(s, q) :
            /\ q \in Requests /\ r.st \in Ready
            /\ last'.signer = IF r.st.v = s.v THEN None ELSE q.signer
            /\ \A m \in Names \ Priv : s'.v[m] = r.st.v[m]
      BY <1>1, RequestStep
    <2>2. /\ s \in Ready /\ s \in State
          /\ pcd \in [require : BOOLEAN, enforce : BOOLEAN]
      BY <1>1, RunningReady, PcdType DEF SetVariable, Ready, Good
    <2>3. s'.v[n] = r.st.v[n] /\ r.st.v # s.v /\ last'.signer = q.signer
      BY <1>1, <2>1
    <2>4. n = q.name
      BY <1>1, <2>1, <2>2, <2>3, RequestOutcomes
    <2>5. IsGuarded(s) /\ policy
      BY <1>1 DEF Guarded, IsGuarded
    <2>6. /\ \/ Trusted(s, q, "Pk")
             \/ q.name = "db" /\ Trusted(s, q, "Kek")
          /\ Takes(s, q) /\ r.st.v = Updated(s, q).v
      BY <2>1, <2>2, <2>3, <2>4, <2>5, KeyOutcomes
    <2>7. \/ SignedByPk(s, q)
          \/ q.name = "db" /\ SignedByKek(s, q)
      BY <2>5, <2>6 DEF Trusted, SignedFor
    <2>8. s'.v[n] = Successor(s, q)
      BY <2>3, <2>4, <2>6 DEF Successor
    <2>9. Fresh(s.v[q.name], q)
      BY <2>6 DEF Trusted
    <2>10. s.v[n].exists /\ s'.v[n].exists => s'.v[n].time >= s.v[n].time
      BY <2>1, <2>2, <2>4, <2>8, <2>9, KeyTime
    <2> QED BY <2>3, <2>4, <2>7, <2>10 DEF SignedByPk, SignedByKek
  <1>2. ASSUME AuthInv, Next, Guarded, Running, NEW n \in Names \ Priv,
               s'.v[n] # s.v[n]
        PROVE  Owner(n)
    <2>1. ~Mode1
      BY <1>2, SetModeInv DEF Mode1
    <2>2. ~Initialize /\ ~CleanCertsFromDb /\ ~FinishInitialize
          /\ ~FindButtons /\ ~KeyNotify /\ ~DisablePolicy /\ ~ExitBootServices
      BY <1>2 DEF Running, Initialize, CleanCertsFromDb, FinishInitialize,
                  FindButtons, KeyNotify, DisablePolicy, ExitBootServices
    <2>3. ~PowerOff
      <3>1. s \in Good
        BY <1>2 DEF AuthInv
      <3>2. PowerOff => s' = Cleared(s)
        BY DEF PowerOff, Become, Lost
      <3> QED BY <1>2, <3>1, <3>2, ClearedGood
    <2>4. Request1
      BY <1>2, <2>1, <2>2, <2>3 DEF Next, Request1, Mode1
    <2> HIDE DEF Owner
    <2> QED BY <1>1, <1>2, <2>4 DEF Request1
  <1>3. AuthInv /\ [Next]_vars =>
          [Guarded /\ Running =>
             \A n \in Names \ Priv : s'.v[n] # s.v[n] => Owner(n)]_vars
    <2> HIDE DEF Owner
    <2> QED BY <1>2
  <1>4. AuthInv /\ [Next]_vars =>
          [Guarded /\ Running =>
             \A n \in Names \ Priv : s'.v[n] # s.v[n] =>
               /\ \/ /\ s.v["PK"].exists
                     /\ last'.signer = Head(s.v["PK"].sigs)
                  \/ n = "db" /\ last'.signer \in Elems(s.v["KEK"].sigs)
               /\ s.v[n].exists /\ s'.v[n].exists =>
                    s'.v[n].time >= s.v[n].time]_vars
    BY <1>3
  <1> QED BY <1>4, AuthInvHolds, PTL DEF Spec, OwnerChanges
=============================================================================
