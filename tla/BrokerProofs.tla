---------------------------- MODULE BrokerProofs ----------------------------
(***************************************************************************)
(* What Broker guarantees for every set of specs, Secrets, lifetimes,      *)
(* delays and disturbances, and for every bound: its types, and that a     *)
(* revoked credential is never what the current spec's Secret holds.       *)
(***************************************************************************)
EXTENDS Broker, RotationWindowProofs, TLAPS

\* Where a minted credential is in Reconcile's hands, and where its Secret
\* has been written.
Minted == {"writeSecret", "persistHandle", "updateStatus", "revokePrevious"}
Published == {"persistHandle", "updateStatus", "revokePrevious"}
Deleting == {"revoke", "deleteSecret", "removeFinalizer"}

\* A running reconcile has read the clock, and holds a credential of the
\* ledger from Mint on.
RunOK ==
    /\ pc # "idle" => started \in Nat
    /\ pc \in Minted => token \in 1..Len(ledger)

\* A copy with the current resourceVersion is the current object.
FreshCopy == fresh => ec = Server

\* Status never observes a generation that does not exist yet.
Observed == Server.status.observedGeneration <= Server.generation

\* Deletion is final: who has seen it knows that the server has it too.
DeletionFinal ==
    /\ \A i \in 1..Len(ecw) : ecw[i].deleting => Server.deleting
    /\ ec.deleting => Server.deleting
    /\ pc \in Deleting => ec.deleting

\* Recorded handles are credentials of the ledger.
HandlesMinted ==
    /\ \A i \in 1..Len(ecw) : ecw[i].handle <= Len(ledger)
    /\ ec.handle <= Len(ledger)
    /\ previous <= Len(ledger)

\* A key that holds a token is listed as managed, so the next write drops it.
TokensManaged ==
    \A n \in Names : \A i \in 1..Len(secw[n]) : \A k \in DataKeys :
        secw[n][i].data[k] \notin {Empty, Foreign} => k \in secw[n][i].managed

\* The credential in hand is nobody's previous one and not revoked; once it
\* is published it is the only one in its Secret.
InHand ==
    /\ pc \in Minted => token \notin revoked /\ token # previous
    /\ pc \in Published =>
          \A n \in Names : n = ec.spec.target
                              => TokensIn(Secret(n)) \subseteq {token}

\* While the previous credential is being revoked, status describes the
\* Secret just written or nothing current at all.
RevokesOther ==
    pc = "revokePrevious" /\ UpToDate => Server.spec.target = ec.spec.target

IInv ==
    /\ TypeOK /\ RunOK /\ FreshCopy /\ Observed /\ DeletionFinal
    /\ HandlesMinted /\ TokensManaged /\ InHand /\ RevokesOther
    /\ PublishedNotRevoked

----------------------------------------------------------------------------
(* The values the actions compute. *)

LEMMA NewECType ==
    ASSUME NEW s \in Specs
    PROVE  NewEC(s) \in Credentials
  BY DEF NewEC, Credentials, NoStatus, Statuses, States, Times, NoTime

LEMMA NilECType == NilEC \in Credentials
  <1> DEFINE c == NewEC(CHOOSE s \in Specs : TRUE)
  <1>1. (CHOOSE s \in Specs : TRUE) \in Specs
    BY SpecsAssumption
  <1>2. c \in Credentials
    BY <1>1, NewECType
  <1> HIDE DEF c
  <1>3. [c EXCEPT !.exists = FALSE] \in Credentials
    BY <1>2 DEF Credentials
  <1> QED BY <1>3 DEF NilEC, c

LEMMA NoSecretType == NoSecret \in Secrets
  BY DEF NoSecret, Secrets, Empty, Foreign

\* What the caches and the API server hold.
LEMMA WindowTypes ==
    ASSUME TypeOK
    PROVE  /\ Server \in Credentials /\ Cached \in Credentials
           /\ \A n \in Names : Secret(n) \in Secrets /\ CachedSecret(n) \in Secrets
  BY DEF TypeOK, Server, Cached, Secret, CachedSecret

\* What Reconcile writes to the EphemeralCredential.
LEMMA DesiredType ==
    ASSUME TypeOK, RunOK, pc \in ECWrites
    PROVE  desired \in Credentials
  <1> USE DEF TypeOK, LocalsOK
  <1>1. CASE pc = "addFinalizer"
    <2>1. withFinalizer \in Credentials
      BY DEF withFinalizer, Credentials
    <2> QED BY <1>1, <2>1 DEF desired
  <1>2. CASE pc = "setPending"
    <2>1. pendingStatus \in Credentials
      BY DEF pendingStatus, Credentials, Statuses, States
    <2> QED BY <1>2, <2>1 DEF desired
  <1>3. CASE pc = "persistHandle"
    <2>1. withHandle \in Credentials
      BY DEF withHandle, Credentials
    <2> QED BY <1>3, <2>1 DEF desired
  <1>4. CASE pc = "updateStatus"
    <2>1. token \in 1..Len(ledger) /\ started \in Nat
      BY <1>4 DEF RunOK, Minted
    <2>2. ledger[token] \in Tokens
      BY <2>1
    <2>3. ledger[token].expiry \in Nat
      BY <2>2 DEF Tokens
    <2>p. ASSUME NEW x \in Nat PROVE Persisted(x) \in Times
      <3>1. Persisted(x) \in Int /\ 0 <= Persisted(x)
        BY PersistedBounds
      <3> QED BY <3>1 DEF Times, NoTime
    <2>4. ec.generation \in Nat
      BY DEF Credentials
    <2>5. activeStatus \in Credentials
      BY <2>1, <2>3, <2>p, <2>4 DEF activeStatus, Credentials, Statuses, States
    <2> QED BY <1>4, <2>5 DEF desired
  <1>5. CASE pc = "failStatus"
    <2>1. failedStatus \in Credentials
      BY DEF failedStatus, Credentials, Statuses, States
    <2> QED BY <1>5, <2>1 DEF desired
  <1>6. CASE pc = "removeFinalizer"
    <2>1. withoutFinalizer \in Credentials
      BY DEF withoutFinalizer, Credentials
    <2> QED BY <1>6, <2>1 DEF desired
  <1> QED BY <1>1, <1>2, <1>3, <1>4, <1>5, <1>6 DEF ECWrites

LEMMA MutateType ==
    ASSUME NEW s \in Secrets, NEW keys \in KeyMaps, NEW t \in Nat
    PROVE  mutate(s, keys, t) \in Secrets
  <1>1. written(keys) \subseteq DataKeys
    BY OutputsAssumption DEF written, secretKey, KeyMaps
  <1>2. s.data \in [DataKeys -> {n \in Int : n >= Foreign}]
    BY DEF Secrets
  <1>3. [k \in DataKeys |->
           IF k \in written(keys) THEN t
           ELSE IF k \in s.managed THEN Empty
           ELSE s.data[k]] \in [DataKeys -> {n \in Int : n >= Foreign}]
    BY <1>2 DEF Foreign, Empty
  <1> QED BY <1>1, <1>3 DEF mutate, Secrets

TimerOK == wakeAt \in Times /\ retrying \in BOOLEAN

\* How Reconcile ends.
LEMMA EndRunType ==
    ASSUME EndRun
    PROVE  LocalsOK' /\ RunOK'
  <1>1. pc' \in Locations /\ RunOK'
    BY DEF EndRun, Locations, RunOK, Minted
  <1>2. ec' \in Credentials
    BY NilECType DEF EndRun
  <1>3. fail' \in [valid : BOOLEAN, retry : BOOLEAN]
    BY DEF EndRun, NoFail
  <1>4. fresh' \in BOOLEAN
    BY DEF EndRun
  <1>5. token' \in Nat /\ previous' \in Nat /\ started' \in Times
    BY DEF EndRun, Times, NoTime
  <1> QED BY <1>1, <1>2, <1>3, <1>4, <1>5 DEF LocalsOK

LEMMA ScheduleType ==
    ASSUME TypeOK, NEW d \in Nat, Schedule(d)
    PROVE  wakeAt' \in Times
  <1>1. now \in Nat /\ wakeAt \in Int /\ wakeAt >= -1
    BY DEF TypeOK, Times, NoTime
  <1> QED BY <1>1 DEF Schedule, Earliest, Times, NoTime

LEMMA ReturnAfterType ==
    ASSUME TypeOK, NEW d \in Nat, ReturnAfter(d)
    PROVE  LocalsOK' /\ RunOK' /\ TimerOK'
  BY EndRunType, ScheduleType DEF ReturnAfter, TimerOK

LEMMA ReturnRateLimitedType ==
    ASSUME TypeOK, ReturnRateLimited
    PROVE  LocalsOK' /\ RunOK' /\ TimerOK'
  BY EndRunType, ScheduleType, BackoffAssumption
  DEF ReturnRateLimited, TimerOK

LEMMA ReturnNilType ==
    ASSUME TypeOK, ReturnNil
    PROVE  LocalsOK' /\ RunOK' /\ TimerOK'
  BY EndRunType DEF ReturnNil, TypeOK, TimerOK

\* A delay is never negative: it has a floor.
LEMMA RequeueAfterType ==
    ASSUME NEW e \in Int, NEW w \in Int, NEW t \in Int
    PROVE  requeueAfter(e, w, t) \in Nat
  BY RequeueAssumption DEF requeueAfter

LEMMA SpecFields ==
    ASSUME NEW c \in Credentials
    PROVE  /\ c.spec.rotateBeforeSeconds \in Int
           /\ c.spec.keys \in KeyMaps
           /\ c.spec.target \in Names \cup {""}
           /\ c.spec.provider \in STRING
  BY SpecsAssumption DEF Credentials, SpecType

LEMMA RotationDelayType ==
    ASSUME TypeOK, NEW c \in Credentials
    PROVE  RotationDelay(c) \in Nat
  <1> DEFINE req == requestedRotateBefore(c.spec.rotateBeforeSeconds)
             g == grantedLifetime(c.status)
  <1>1. c.status.expiresAt \in Int /\ c.status.lastRotatedAt \in Int
    BY DEF Credentials, Statuses, Times
  <1>2. req \in Nat
    BY SpecFields, RequestedPositive
  <1>3. g \in Int
    BY <1>1 DEF grantedLifetime
  <1> HIDE DEF req, g
  <1>4. clampRotateBefore(req, g) \in Int
    BY <1>2, <1>3, ClampBounds
  <1>5. RotationDelay(c) =
          requeueAfter(c.status.expiresAt, clampRotateBefore(req, g), now)
    BY DEF RotationDelay, statusWindow, req, g
  <1>6. now \in Int
    BY DEF TypeOK
  <1> QED BY <1>1, <1>4, <1>5, <1>6, RequeueAfterType

LEMMA NextRotationType ==
    ASSUME TypeOK, RunOK, pc \in Minted
    PROVE  NextRotation \in Nat
  <1> DEFINE req == requestedRotateBefore(ec.spec.rotateBeforeSeconds)
             e == ledger[token].expiry
             g == e - started
  <1>1. token \in 1..Len(ledger) /\ started \in Nat
    BY DEF RunOK, Minted
  <1>2. ledger[token] \in Tokens
    BY <1>1 DEF TypeOK
  <1>3. e \in Int
    BY <1>2 DEF Tokens
  <1>4. req \in Nat
    BY SpecFields, RequestedPositive DEF TypeOK, LocalsOK
  <1> HIDE DEF req, e
  <1>5. g \in Int
    BY <1>1, <1>3
  <1> HIDE DEF g
  <1>6. clampRotateBefore(req, g) \in Int
    BY <1>4, <1>5, ClampBounds
  <1>7. NextRotation = requeueAfter(e, clampRotateBefore(req, g), started)
    BY DEF NextRotation, req, e, g
  <1>8. started \in Int
    BY <1>1
  <1> QED BY <1>3, <1>6, <1>7, <1>8, RequeueAfterType

----------------------------------------------------------------------------
(* Types are preserved. *)

\* Reconcile starts with an object of the cache, or ends at once.
LEMMA ReadECType ==
    ASSUME TypeOK, ReadEC, pc' \in Locations \ Minted,
           fail' \in [valid : BOOLEAN, retry : BOOLEAN]
    PROVE  LocalsOK' /\ RunOK' /\ TimerOK'
  <1>1. Cached \in Credentials /\ Cached.handle \in Nat
    BY WindowTypes DEF Credentials
  <1>2. fresh' \in BOOLEAN
    BY DEF ReadEC
  <1>3. /\ ec' \in Credentials /\ token' \in Nat /\ previous' \in Nat
        /\ started' \in Nat /\ started' \in Times /\ TimerOK'
    BY <1>1 DEF ReadEC, timer, TypeOK, TimerOK, Times, NoTime
  <1> QED BY <1>2, <1>3 DEF LocalsOK, RunOK

LEMMA FailStatusType ==
    ASSUME TypeOK, NEW c \in Credentials, NEW retry \in BOOLEAN,
           failStatus(c, retry)
    PROVE  /\ pc' \in {"deleteExpired", "failStatus"}
           /\ fail' \in [valid : BOOLEAN, retry : BOOLEAN]
  <1> DEFINE valid == c.status.expiresAt # NoTime /\ now < c.status.expiresAt
  <1>1. fail' = [valid |-> valid, retry |-> retry]
    BY DEF failStatus
  <1>2. valid \in BOOLEAN
    OBVIOUS
  <1> HIDE DEF valid
  <1>3. fail' \in [valid : BOOLEAN, retry : BOOLEAN]
    BY <1>1, <1>2
  <1>4. pc' \in {"deleteExpired", "failStatus"}
    BY DEF failStatus
  <1> QED BY <1>3, <1>4

LEMMA ReconcileType ==
    ASSUME TypeOK, RunOK, Reconcile
    PROVE  TypeOK' /\ RunOK'
  <1>1. SUFFICES LocalsOK' /\ RunOK' /\ TimerOK' /\ Dequeue
    BY DEF TypeOK, TimerOK, Dequeue, cluster, provider
  <1>2. Dequeue
    BY DEF Reconcile, ReconcileGone, ReconcileDelete, ReconcileNew,
           ReconcileUnknownProvider, ReconcileSteady, ReconcileMint
  <1>3. CASE ReconcileGone
    BY <1>2, <1>3, ReturnNilType DEF ReconcileGone
  <1>4. CASE ReconcileDelete
    BY <1>2, <1>4, ReadECType
    DEF ReconcileDelete, GoTo, NoFail, Locations, Minted
  <1>5. CASE ReconcileNew
    BY <1>2, <1>5, ReadECType
    DEF ReconcileNew, GoTo, NoFail, Locations, ECWrites, Minted
  <1>6. CASE ReconcileUnknownProvider
    BY <1>2, <1>6, ReadECType, WindowTypes, FailStatusType
    DEF ReconcileUnknownProvider, Locations, ECWrites, Minted
  <1>7. CASE ReconcileSteady
    BY <1>2, <1>7, RotationDelayType, WindowTypes, ReturnAfterType
    DEF ReconcileSteady
  <1>8. CASE ReconcileMint
    BY <1>2, <1>8, ReadECType
    DEF ReconcileMint, GoTo, NoFail, Locations, Minted
  <1> QED BY <1>3, <1>4, <1>5, <1>6, <1>7, <1>8 DEF Reconcile

\* A new version at the end of a window.
LEMMA PutECType ==
    ASSUME TypeOK, NEW v \in Credentials, PutEC(v)
    PROVE  ecw' \in Seq(Credentials) /\ Len(ecw') = Len(ecw) + 1 /\ Server' = v
  BY DEF TypeOK, PutEC, Server

LEMMA StoredType ==
    ASSUME TypeOK, desired \in Credentials,
           PutEC(desired) \/ (desired = Server /\ ecw' = ecw)
    PROVE  ecw' \in Seq(Credentials) /\ Len(ecw') >= 1 /\ Server' = desired
  <1>1. CASE PutEC(desired)
    BY <1>1, PutECType DEF TypeOK
  <1>2. CASE desired = Server /\ ecw' = ecw
    BY <1>2 DEF TypeOK, Server
  <1> QED BY <1>1, <1>2

LEMMA PutSecretType ==
    ASSUME TypeOK, NEW n \in Names, NEW v \in Secrets, PutSecret(n, v)
    PROVE  /\ secw' \in [Names -> Seq(Secrets)]
           /\ \A m \in Names : Len(secw'[m]) >= 1
           /\ Secret(n)' = v
           /\ \A m \in Names \ {n} : secw'[m] = secw[m]
  BY DEF TypeOK, PutSecret, Secret

LEMMA DisturbType ==
    ASSUME TypeOK, NEW kind, Disturb(kind)
    PROVE  used' \in Nat
  BY DEF TypeOK, Disturb

LEMMA DeleteTargetSecretType ==
    ASSUME TypeOK, NEW n \in Names \cup {""}, deleteTargetSecret(n)
    PROVE  /\ secw' \in [Names -> Seq(Secrets)]
           /\ \A m \in Names : Len(secw'[m]) >= 1
  <1>1. CASE targetSecretExists(n) /\ Secret(n).exists
    BY <1>1, NoSecretType, PutSecretType DEF deleteTargetSecret, targetSecretExists
  <1>2. CASE ~(targetSecretExists(n) /\ Secret(n).exists)
    BY <1>2 DEF deleteTargetSecret, TypeOK
  <1> QED BY <1>1, <1>2

LEMMA WriteTargetSecretType ==
    ASSUME TypeOK, writeTargetSecret
    PROVE  /\ ec.spec.target \in Names
           /\ secw' \in [Names -> Seq(Secrets)]
           /\ \A m \in Names : Len(secw'[m]) >= 1
  <1>1. ec.spec.target \in Names
    BY DEF writeTargetSecret, SecretWritable
  <1>2. ec.spec.keys \in KeyMaps /\ token \in Nat
    BY SpecFields DEF TypeOK, LocalsOK
  <1>3. CachedSecret(ec.spec.target) \in Secrets
    BY <1>1, WindowTypes
  <1>4. mutate(CachedSecret(ec.spec.target), ec.spec.keys, token) \in Secrets
    BY <1>2, <1>3, MutateType
  <1> QED BY <1>1, <1>4, PutSecretType DEF writeTargetSecret

\* failStatus called by a running reconcile.
LEMMA FailType ==
    ASSUME TypeOK, RunOK, pc # "idle", Fail
    PROVE  LocalsOK' /\ RunOK'
  <1>1. /\ pc' \in {"deleteExpired", "failStatus"}
        /\ fail' \in [valid : BOOLEAN, retry : BOOLEAN]
    BY FailStatusType DEF Fail, TypeOK, LocalsOK
  <1>2. pc' \in Locations /\ pc' \notin Minted
    BY <1>1 DEF Locations, ECWrites, Minted
  <1>3. UNCHANGED <<ec, fresh, token, previous, started>>
    BY DEF Fail
  <1> QED BY <1>1, <1>2, <1>3 DEF TypeOK, LocalsOK, RunOK

LEMMA GrantType ==
    ASSUME TypeOK, NEW l \in Lifetimes, Grant(l)
    PROVE  /\ ledger' \in Seq(Tokens) /\ Len(ledger') = Len(ledger) + 1
           /\ revoked' = revoked
  <1>1. ec.spec.provider \in STRING
    BY SpecFields DEF TypeOK, LocalsOK
  <1>2. now \in Nat /\ now + l \in Nat
    BY LifetimesAssumption DEF TypeOK
  <1>3. [provider |-> ec.spec.provider, expiry |-> now + l, mintedAt |-> now]
            \in Tokens
    BY <1>1, <1>2 DEF Tokens
  <1> QED BY <1>3 DEF Grant, TypeOK

LEMMA RevokeType ==
    ASSUME TypeOK, NEW h \in 0..Len(ledger), NEW c, Revoke(h, c)
    PROVE  revoked' \subseteq 1..Len(ledger) /\ used' \in Nat /\ ledger' = ledger
  <1>1. revoked \subseteq 1..Len(ledger) /\ Len(ledger) \in Nat /\ used \in Nat
    BY DEF TypeOK
  <1>2. used' \in Nat /\ ledger' = ledger
    BY <1>1, DisturbType DEF Revoke
  <1>3. CASE Revocable(h, c) /\ revoked' = revoked \cup {h}
    <2>1. h \in 1..Len(ledger)
      BY <1>1, <1>3 DEF Revocable
    <2> QED BY <1>1, <1>2, <1>3, <2>1
  <1>4. CASE UNCHANGED revoked
    BY <1>1, <1>2, <1>4
  <1> QED BY <1>3, <1>4 DEF Revoke

LEMMA CallsType ==
    ASSUME TypeOK, RunOK, HandlesMinted, Calls
    PROVE  TypeOK' /\ RunOK'
  <1> USE DEF TypeOK, TimerOK, cluster, queue, timer, provider
  <1>1. CASE AddFinalizer
    <2>1. desired \in Credentials
      BY <1>1, DesiredType DEF AddFinalizer, ECWrites
    <2>p. PutEC(desired)
      BY <1>1 DEF AddFinalizer
    <2>2. ecw' \in Seq(Credentials) /\ Len(ecw') >= 1
      BY <2>1, <2>p, PutECType
    <2>3. LocalsOK' /\ RunOK' /\ TimerOK'
      <3>1. CASE ec.status.state = ""
        BY <1>1, <2>1, <3>1 DEF AddFinalizer, LocalsOK, RunOK, Locations, ECWrites, Minted
      <3>2. CASE ec.status.state # ""
        BY <1>1, <3>2, ReturnRateLimitedType DEF AddFinalizer
      <3> QED BY <3>1, <3>2
    <2> QED BY <1>1, <2>2, <2>3 DEF AddFinalizer
  <1>2. CASE SetPending
    <2>1. desired \in Credentials
      BY <1>2, DesiredType DEF SetPending, ECWrites
    <2> QED BY <1>2, <2>1, PutECType, ReturnRateLimitedType DEF SetPending
  <1>3. CASE Mint
    <2>1. /\ ledger' \in Seq(Tokens) /\ Len(ledger') = Len(ledger) + 1
          /\ revoked' = revoked
      BY <1>3, GrantType DEF Mint
    <2>2. LocalsOK' /\ RunOK'
      BY <1>3, <2>1 DEF Mint, LocalsOK, RunOK, Locations, Minted
    <2>3. revoked' \subseteq 1..Len(ledger')
      BY <2>1
    <2> QED BY <1>3, <2>1, <2>2, <2>3 DEF Mint
  <1>4. CASE MintFails
    BY <1>4, FailType, DisturbType DEF MintFails
  <1>5. CASE MintLost
    <2>1. /\ ledger' \in Seq(Tokens) /\ Len(ledger') = Len(ledger) + 1
          /\ revoked' = revoked
      BY <1>5, GrantType DEF MintLost
    <2>2. revoked' \subseteq 1..Len(ledger')
      BY <2>1
    <2> QED BY <1>5, <2>1, <2>2, FailType, DisturbType DEF MintLost
  <1>6. CASE WriteSecret
    <2>1. LocalsOK' /\ RunOK'
      BY <1>6 DEF WriteSecret, LocalsOK, RunOK, Locations, ECWrites, Minted
    <2> QED BY <1>6, <2>1, WriteTargetSecretType DEF WriteSecret
  <1>7. CASE WriteSecretFails
    BY <1>7, FailType, DisturbType DEF WriteSecretFails
  <1>8. CASE WriteSecretLost
    BY <1>8, FailType, DisturbType, WriteTargetSecretType DEF WriteSecretLost
  <1>9. CASE PersistHandle
    <2>1. desired \in Credentials
      BY <1>9, DesiredType DEF PersistHandle, ECWrites
    <2>2. LocalsOK' /\ RunOK'
      BY <1>9, <2>1 DEF PersistHandle, Put, LocalsOK, RunOK, Locations, ECWrites, Minted
    <2> QED BY <1>9, <2>1, <2>2, StoredType DEF StoreEC, PersistHandle, Put
  <1>10. CASE UpdateStatus
    <2>1. desired \in Credentials
      BY <1>10, DesiredType DEF UpdateStatus, ECWrites
    <2>2. LocalsOK' /\ RunOK'
      BY <1>10, <2>1 DEF UpdateStatus, Put, LocalsOK, RunOK, Locations, ECWrites, Minted
    <2> QED BY <1>10, <2>1, <2>2, StoredType DEF StoreEC, UpdateStatus, Put
  <1>11. CASE RevokePrevious
    <2>1. previous \in 0..Len(ledger)
      BY DEF HandlesMinted, LocalsOK
    <2>2. NextRotation \in Nat
      BY <1>11, NextRotationType DEF RevokePrevious, Minted
    <2>3. LocalsOK' /\ RunOK' /\ TimerOK'
      BY <1>11, <2>2, ReturnAfterType DEF RevokePrevious
    <2> QED BY <1>11, <2>1, <2>3, RevokeType DEF RevokePrevious
  <1>12. CASE DeleteExpired
    <2>1. LocalsOK' /\ RunOK'
      BY <1>12 DEF DeleteExpired, LocalsOK, RunOK, Locations, ECWrites, Minted
    <2>2. ec.spec.target \in Names \cup {""}
      BY SpecFields DEF LocalsOK
    <2> QED BY <1>12, <2>1, <2>2, DeleteTargetSecretType, DisturbType DEF DeleteExpired
  <1>13. CASE FailStatus
    <2>1. desired \in Credentials
      BY <1>13, DesiredType DEF FailStatus, ECWrites
    <2>2. LocalsOK' /\ RunOK' /\ TimerOK'
      BY <1>13, ReturnRateLimitedType, ReturnNilType DEF FailStatus
    <2>3. ecw' \in Seq(Credentials) /\ Len(ecw') >= 1
      BY <1>13, <2>1, StoredType DEF StoreEC, FailStatus
    <2> QED BY <1>13, <2>2, <2>3 DEF FailStatus
  <1>14. CASE RevokeOnDelete
    <2>1. ec.handle \in 0..Len(ledger)
      BY DEF HandlesMinted, LocalsOK, Credentials
    <2>2. LocalsOK' /\ RunOK'
      BY <1>14 DEF RevokeOnDelete, LocalsOK, RunOK, Locations, Minted
    <2> QED BY <1>14, <2>1, <2>2, RevokeType DEF RevokeOnDelete
  <1>15. CASE DeleteSecret
    <2>1. LocalsOK' /\ RunOK'
      BY <1>15 DEF DeleteSecret, LocalsOK, RunOK, Locations, ECWrites, Minted
    <2>2. ec.spec.target \in Names \cup {""}
      BY SpecFields DEF LocalsOK
    <2> QED BY <1>15, <2>1, <2>2, DeleteTargetSecretType DEF DeleteSecret
  <1>16. CASE DeleteSecretFails
    BY <1>16, ReturnRateLimitedType, DisturbType DEF DeleteSecretFails
  <1>17. CASE RemoveFinalizer
    <2>1. desired \in Credentials
      BY <1>17, DesiredType DEF RemoveFinalizer, ECWrites
    <2> QED BY <1>17, <2>1, PutECType, ReturnNilType DEF RemoveFinalizer
  <1>18. CASE ECWriteFails
    BY <1>18, ReturnRateLimitedType, DisturbType DEF ECWriteFails
  <1>19. CASE ECWriteLost
    <2>1. desired \in Credentials
      BY <1>19, DesiredType DEF ECWriteLost
    <2> QED BY <1>19, <2>1, StoredType, ReturnRateLimitedType, DisturbType
            DEF ECWriteLost, StoreEC
  <1> QED
    BY <1>1, <1>2, <1>3, <1>4, <1>5, <1>6, <1>7, <1>8, <1>9, <1>10, <1>11,
       <1>12, <1>13, <1>14, <1>15, <1>16, <1>17, <1>18, <1>19 DEF Calls

\* What users make of an object.
LEMMA EditedTypes ==
    ASSUME NEW c \in Credentials
    PROVE  /\ \A s \in Specs :
                [c EXCEPT !.spec = s, !.generation = @ + 1] \in Credentials
           /\ [c EXCEPT !.deleting = TRUE, !.generation = @ + 1] \in Credentials
           /\ [c EXCEPT !.exists = FALSE] \in Credentials
  <1>1. c.generation + 1 \in Nat
    BY DEF Credentials
  <1> QED BY <1>1 DEF Credentials

LEMMA EditedSecretType ==
    ASSUME NEW s \in Secrets, NEW k \in DataKeys
    PROVE  [s EXCEPT !.exists = TRUE, !.data[k] = Foreign] \in Secrets
  <1>1. [s.data EXCEPT ![k] = Foreign] \in [DataKeys -> {n \in Int : n >= Foreign}]
    BY DEF Secrets, Foreign
  <1> QED BY <1>1 DEF Secrets

LEMMA EnvironmentType ==
    ASSUME TypeOK, RunOK,
           \/ Deliveries \/ Users \/ Resync \/ Crash \/ Tick
           \/ \E n \in Names : GarbageCollect(n)
    PROVE  TypeOK' /\ RunOK'
  <1> USE DEF TypeOK, TimerOK, cluster, queue, timer, provider, locals
  <1>1. CASE DeliverEC
    <2>1. Tail(ecw) \in Seq(Credentials) /\ Len(Tail(ecw)) >= 1
      BY <1>1 DEF DeliverEC
    <2> QED BY <1>1, <2>1 DEF DeliverEC, LocalsOK, RunOK
  <1>2. CASE TimerFires
    BY <1>2 DEF TimerFires, LocalsOK, RunOK, Times, NoTime
  <1>3. ASSUME NEW n \in Names, DeliverSecret(n)
        PROVE  TypeOK' /\ RunOK'
    <2>1. Tail(secw[n]) \in Seq(Secrets) /\ Len(Tail(secw[n])) >= 1
      BY <1>3 DEF DeliverSecret
    <2>2. /\ secw' \in [Names -> Seq(Secrets)]
          /\ \A m \in Names : Len(secw'[m]) >= 1
      BY <1>3, <2>1 DEF DeliverSecret
    <2>3. queued' \in BOOLEAN
      BY <1>3 DEF DeliverSecret
    <2> QED BY <1>3, <2>2, <2>3 DEF DeliverSecret, LocalsOK, RunOK
  <1>4. CASE EditSpec
    <2>1. PICK s \in Specs :
            PutEC([Server EXCEPT !.spec = s, !.generation = @ + 1])
      BY <1>4 DEF EditSpec
    <2>2. [Server EXCEPT !.spec = s, !.generation = @ + 1] \in Credentials
      BY WindowTypes, EditedTypes
    <2>3. ecw' \in Seq(Credentials) /\ Len(ecw') >= 1
      BY <2>1, <2>2, PutECType
    <2> QED BY <1>4, <2>3, DisturbType DEF EditSpec, LocalsOK, RunOK
  <1>5. CASE DeleteEC
    <2>1. [Server EXCEPT !.deleting = TRUE, !.generation = @ + 1] \in Credentials
      BY WindowTypes, EditedTypes
    <2>2. [Server EXCEPT !.exists = FALSE] \in Credentials
      BY WindowTypes, EditedTypes
    <2>3. ecw' \in Seq(Credentials) /\ Len(ecw') >= 1
      BY <1>5, <2>1, <2>2, PutECType DEF DeleteEC
    <2> QED BY <1>5, <2>3, DisturbType DEF DeleteEC, LocalsOK, RunOK
  <1>6. ASSUME NEW n \in Names, UserDeletesSecret(n)
        PROVE  TypeOK' /\ RunOK'
    BY <1>6, NoSecretType, PutSecretType, DisturbType
    DEF UserDeletesSecret, LocalsOK, RunOK
  <1>7. ASSUME NEW n \in Names, UserEditsSecret(n)
        PROVE  TypeOK' /\ RunOK'
    <2> DEFINE v(k) == [Secret(n) EXCEPT !.exists = TRUE, !.data[k] = Foreign]
    <2>1. PICK k \in DataKeys : PutSecret(n, v(k))
      BY <1>7 DEF UserEditsSecret
    <2>2. v(k) \in Secrets
      BY WindowTypes, EditedSecretType
    <2> HIDE DEF v
    <2> QED BY <1>7, <2>1, <2>2, PutSecretType, DisturbType
            DEF UserEditsSecret, LocalsOK, RunOK
  <1>8. CASE Resync
    BY <1>8, DisturbType DEF Resync, LocalsOK, RunOK
  <1>9. CASE Crash
    <2>1. <<Server>> \in Seq(Credentials) /\ Len(<<Server>>) = 1
      BY WindowTypes
    <2>2. \A n \in Names : <<Secret(n)>> \in Seq(Secrets) /\ Len(<<Secret(n)>>) = 1
      BY WindowTypes
    <2>3. /\ secw' \in [Names -> Seq(Secrets)]
          /\ \A m \in Names : Len(secw'[m]) >= 1
      BY <1>9, <2>2 DEF Crash
    <2>4. TimerOK'
      <3>1. wakeAt' \in Times
        BY <1>9 DEF Crash, Times, NoTime
      <3>2. retrying' \in BOOLEAN
        BY <1>9 DEF Crash
      <3> QED BY <3>1, <3>2
    <2> QED BY <1>9, <2>1, <2>3, <2>4, EndRunType, DisturbType DEF Crash
  <1>10. CASE Tick
    BY <1>10 DEF Tick, LocalsOK, RunOK
  <1>11. ASSUME NEW n \in Names, GarbageCollect(n)
         PROVE  TypeOK' /\ RunOK'
    BY <1>11, NoSecretType, PutSecretType DEF GarbageCollect, LocalsOK, RunOK
  <1> QED
    BY <1>1, <1>2, <1>3, <1>4, <1>5, <1>6, <1>7, <1>8, <1>9, <1>10, <1>11
    DEF Deliveries, Users

----------------------------------------------------------------------------
(* What a step does to each part of the state. *)

\* Reconcile writes the EphemeralCredential.
ECWrite ==
    /\ pc \in ECWrites /\ fresh
    /\ PutEC(desired) \/ (desired = Server /\ ecw' = ecw)
    /\ UNCHANGED <<secw, ledger, revoked>>

LEMMA PutWrites ==
    ASSUME NEW next, pc \in ECWrites, Put(next)
    PROVE  ECWrite /\ ec' = desired /\ UNCHANGED <<previous, fresh>>
  BY DEF Put, StoreEC, ECWrite, Accepted, provider

LEMMA ECSteps ==
    ASSUME Next
    PROVE  ecw' = ecw \/ DeliverEC \/ Crash \/ ECWrite \/ EditSpec \/ DeleteEC
  <1> USE DEF cluster, queue, timer, provider, locals
  <1>1. CASE Reconcile
    BY <1>1 DEF Reconcile, ReconcileGone, ReconcileDelete, ReconcileNew,
         ReconcileUnknownProvider, ReconcileSteady, ReconcileMint, Dequeue
  <1>2. CASE AddFinalizer
    BY <1>2 DEF AddFinalizer, ECWrite, ECWrites, Accepted
  <1>3. CASE SetPending
    BY <1>3 DEF SetPending, ECWrite, ECWrites, Accepted
  <1>4. CASE Mint \/ MintFails \/ MintLost
    BY <1>4 DEF Mint, MintFails, MintLost
  <1>5. CASE WriteSecret \/ WriteSecretFails \/ WriteSecretLost
    BY <1>5 DEF WriteSecret, WriteSecretFails, WriteSecretLost
  <1>6. CASE PersistHandle \/ UpdateStatus
    BY <1>6 DEF PersistHandle, UpdateStatus, Put, StoreEC, ECWrite, ECWrites, Accepted
  <1>7. CASE RevokePrevious \/ RevokeOnDelete
    BY <1>7 DEF RevokePrevious, RevokeOnDelete
  <1>8. CASE DeleteExpired \/ DeleteSecret \/ DeleteSecretFails
    BY <1>8 DEF DeleteExpired, DeleteSecret, DeleteSecretFails
  <1>9. CASE FailStatus
    BY <1>9 DEF FailStatus, StoreEC, ECWrite, ECWrites, Accepted
  <1>10. CASE RemoveFinalizer
    BY <1>10 DEF RemoveFinalizer, ECWrite, ECWrites, Accepted
  <1>11. CASE ECWriteFails
    BY <1>11 DEF ECWriteFails
  <1>12. CASE ECWriteLost
    BY <1>12 DEF ECWriteLost, StoreEC, ECWrite, ECWrites, Accepted
  <1>13. CASE Deliveries
    BY <1>13 DEF Deliveries, TimerFires, DeliverSecret
  <1>14. CASE Users
    BY <1>14 DEF Users, UserDeletesSecret, UserEditsSecret
  <1>15. CASE Resync \/ Tick \/ \E n \in Names : GarbageCollect(n)
    BY <1>15 DEF Resync, Tick, GarbageCollect
  <1> QED
    BY <1>1, <1>2, <1>3, <1>4, <1>5, <1>6, <1>7, <1>8, <1>9, <1>10, <1>11,
       <1>12, <1>13, <1>14, <1>15 DEF Next, Calls

\* Deliveries and restarts do not change what the API server holds.
LEMMA ServerKept ==
    ASSUME TypeOK, ecw' = ecw \/ DeliverEC \/ Crash
    PROVE  Server' = Server
  <1>1. CASE ecw' = ecw
    BY <1>1 DEF Server
  <1>2. CASE DeliverEC
    <2>1. Len(ecw) > 1 /\ ecw' = Tail(ecw) /\ ecw \in Seq(Credentials)
      BY <1>2 DEF DeliverEC, TypeOK
    <2>2. Tail(ecw)[Len(Tail(ecw))] = ecw[Len(ecw)]
      BY <2>1
    <2> QED BY <2>1, <2>2 DEF Server
  <1>3. CASE Crash
    <2>1. ecw' = <<Server>>
      BY <1>3 DEF Crash
    <2>2. ecw'[Len(ecw')] = Server
      BY <2>1
    <2> QED BY <2>2 DEF Server
  <1> QED BY <1>1, <1>2, <1>3

\* What a write of Reconcile keeps of its copy.
LEMMA DesiredFields ==
    ASSUME TypeOK, pc \in ECWrites
    PROVE  /\ desired.handle = IF pc = "persistHandle" THEN token ELSE ec.handle
           /\ desired.deleting = ec.deleting
           /\ desired.spec = ec.spec
           /\ desired.generation = ec.generation
           /\ desired.exists => ec.exists
           /\ pc # "updateStatus" =>
                /\ desired.status.observedGeneration = ec.status.observedGeneration
                /\ desired.status.expiresAt = ec.status.expiresAt
           /\ pc = "updateStatus" =>
                desired.status.observedGeneration = ec.generation
  <1>0. ec \in Credentials
    BY DEF TypeOK, LocalsOK
  <1> USE <1>0 DEF Credentials, Statuses
  <1>1. CASE pc = "addFinalizer"
    BY <1>1 DEF desired, withFinalizer
  <1>2. CASE pc = "setPending"
    BY <1>2 DEF desired, pendingStatus
  <1>3. CASE pc = "persistHandle"
    BY <1>3 DEF desired, withHandle
  <1>4. CASE pc = "updateStatus"
    BY <1>4 DEF desired, activeStatus
  <1>5. CASE pc = "failStatus"
    BY <1>5 DEF desired, failedStatus
  <1>6. CASE pc = "removeFinalizer"
    BY <1>6 DEF desired, withoutFinalizer
  <1> QED BY <1>1, <1>2, <1>3, <1>4, <1>5, <1>6 DEF ECWrites

\* What a step does to the locals of Reconcile other than fail and started.
LEMMA LocalSteps ==
    ASSUME Next
    PROVE  \/ EndRun
           \/ ReadEC /\ ecw' = ecw /\ Reconcile
           \/ UNCHANGED <<ec, previous>> /\ fresh' = fresh
              /\ (ecw' = ecw \/ DeliverEC)
           \/ ECWrite /\ ec' = desired /\ UNCHANGED <<previous, fresh>>
           \/ (EditSpec \/ DeleteEC) /\ UNCHANGED <<pc, ec, previous>>
              /\ fresh' = FALSE
  <1> USE DEF cluster, queue, timer, provider, locals
  <1>1. CASE ReconcileGone \/ ReconcileSteady
    BY <1>1 DEF ReconcileGone, ReconcileSteady, ReturnNil, ReturnAfter
  <1>2. CASE ReconcileDelete \/ ReconcileNew \/ ReconcileUnknownProvider \/ ReconcileMint
    BY <1>2 DEF Reconcile, ReconcileDelete, ReconcileNew,
                ReconcileUnknownProvider, ReconcileMint, Dequeue
  <1>3. CASE AddFinalizer
    <2>1. CASE ec.status.state = ""
      BY <1>3, <2>1 DEF AddFinalizer, ECWrite, ECWrites, Accepted
    <2>2. CASE ec.status.state # ""
      BY <1>3, <2>2 DEF AddFinalizer, ReturnRateLimited, ReturnAfter
    <2> QED BY <2>1, <2>2
  <1>4. CASE SetPending \/ RemoveFinalizer \/ FailStatus
    BY <1>4 DEF SetPending, RemoveFinalizer, FailStatus, ReturnRateLimited,
                ReturnAfter, ReturnNil
  <1>5. CASE Mint \/ MintFails \/ MintLost
    BY <1>5 DEF Mint, MintFails, MintLost, Fail
  <1>6. CASE WriteSecret \/ WriteSecretFails \/ WriteSecretLost
    BY <1>6 DEF WriteSecret, WriteSecretFails, WriteSecretLost, Fail
  <1>7. CASE PersistHandle \/ UpdateStatus
    BY <1>7 DEF PersistHandle, UpdateStatus, Put, StoreEC, ECWrite, ECWrites, Accepted
  <1>8. CASE RevokePrevious
    BY <1>8 DEF RevokePrevious, ReturnAfter
  <1>9. CASE DeleteExpired \/ DeleteSecret \/ RevokeOnDelete
    BY <1>9 DEF DeleteExpired, DeleteSecret, RevokeOnDelete
  <1>10. CASE DeleteSecretFails \/ ECWriteFails \/ ECWriteLost
    BY <1>10 DEF DeleteSecretFails, ECWriteFails, ECWriteLost,
                 ReturnRateLimited, ReturnAfter
  <1>11. CASE Deliveries
    BY <1>11 DEF Deliveries, DeliverEC, TimerFires, DeliverSecret
  <1>12. CASE Users
    BY <1>12 DEF Users, EditSpec, DeleteEC, UserDeletesSecret, UserEditsSecret
  <1>13. CASE Resync \/ Tick \/ \E n \in Names : GarbageCollect(n)
    BY <1>13 DEF Resync, Tick, GarbageCollect
  <1>14. CASE Crash
    BY <1>14 DEF Crash
  <1> QED
    BY <1>1, <1>2, <1>3, <1>4, <1>5, <1>6, <1>7, <1>8, <1>9, <1>10, <1>11,
       <1>12, <1>13, <1>14 DEF Next, Reconcile, Calls

----------------------------------------------------------------------------
(* The invariant is preserved, part by part. *)

LEMMA FreshCopyStep ==
    ASSUME TypeOK, RunOK, FreshCopy, Next
    PROVE  FreshCopy'
  <1> SUFFICES ASSUME fresh'
               PROVE  ec' = Server'
    BY DEF FreshCopy
  <1>1. CASE EndRun
    BY <1>1 DEF EndRun
  <1>2. CASE ReadEC /\ ecw' = ecw
    BY <1>2 DEF ReadEC, Server, Cached
  <1>3. CASE UNCHANGED <<ec, previous>> /\ fresh' = fresh
             /\ (ecw' = ecw \/ DeliverEC)
    BY <1>3, ServerKept DEF FreshCopy
  <1>4. CASE ECWrite /\ ec' = desired
    BY <1>4, DesiredType, StoredType DEF ECWrite
  <1> QED BY <1>1, <1>2, <1>3, <1>4, LocalSteps

\* A recorded handle is a token, whoever recorded it.
LEMMA HandlesStep ==
    ASSUME TypeOK, RunOK, HandlesMinted, Next
    PROVE  HandlesMinted'
  <1>1. Len(ledger) \in Nat /\ Len(ledger') \in Nat /\ Len(ledger) <= Len(ledger')
    <2>1. ledger' = ledger \/ \E l \in Lifetimes : Grant(l)
      BY DEF Next, Reconcile, Dequeue, ReconcileGone, ReconcileDelete,
         ReconcileNew, ReconcileUnknownProvider, ReconcileSteady, ReconcileMint,
         Calls, AddFinalizer, SetPending, Mint, MintFails, MintLost,
         WriteSecret, WriteSecretFails, WriteSecretLost, PersistHandle,
         UpdateStatus, Put, RevokePrevious, Revoke, DeleteExpired, FailStatus,
         RevokeOnDelete, DeleteSecret, DeleteSecretFails, RemoveFinalizer,
         ECWriteFails, ECWriteLost, Deliveries, DeliverEC, TimerFires,
         DeliverSecret, Users, EditSpec, DeleteEC, UserDeletesSecret,
         UserEditsSecret, Resync, Crash, Tick, GarbageCollect, provider
    <2> QED BY <2>1, GrantType DEF TypeOK
  <1>2. \A i \in 1..Len(ecw) : ecw[i].handle \in Nat /\ ecw[i].handle <= Len(ledger)
    <2>1. \A c \in Credentials : c.handle \in Nat
      BY DEF Credentials
    <2>2. \A i \in 1..Len(ecw) : ecw[i] \in Credentials
      BY DEF TypeOK
    <2> QED BY <2>1, <2>2 DEF HandlesMinted
  <1>3. \A i \in 1..Len(ecw') : ecw'[i].handle <= Len(ledger)
    <2>1. CASE ecw' = ecw
      BY <1>2, <2>1
    <2>2. CASE DeliverEC
      <3>1. \A i \in 1..Len(Tail(ecw)) : i + 1 \in 1..Len(ecw) /\ Tail(ecw)[i] = ecw[i + 1]
        BY <2>2 DEF DeliverEC, TypeOK
      <3> QED BY <1>2, <2>2, <3>1 DEF DeliverEC
    <2>3. CASE Crash
      <3>1. ecw' = <<ecw[Len(ecw)]>> /\ Len(ecw) \in 1..Len(ecw)
        BY <2>3 DEF Crash, Server, TypeOK
      <3> QED BY <1>2, <3>1
    <2>4. ASSUME NEW v \in Credentials, PutEC(v), v.handle <= Len(ledger)
          PROVE  \A i \in 1..Len(ecw') : ecw'[i].handle <= Len(ledger)
      BY <1>2, <2>4 DEF PutEC, TypeOK
    <2>5. CASE ECWrite
      <3>1. desired.handle <= Len(ledger)
        BY <2>5, DesiredFields DEF ECWrite, HandlesMinted, RunOK, Minted, TypeOK
      <3>2. /\ desired \in Credentials
            /\ PutEC(desired) \/ ecw' = ecw
        BY <2>5, DesiredType DEF ECWrite
      <3> QED BY <2>1, <2>4, <3>1, <3>2
    <2>6. Server \in Credentials /\ Server.handle <= Len(ledger)
      BY <1>2, WindowTypes DEF Server, TypeOK
    <2>7. CASE EditSpec
      <3>1. PICK s \in Specs :
              PutEC([Server EXCEPT !.spec = s, !.generation = @ + 1])
        BY <2>7 DEF EditSpec
      <3>2. [Server EXCEPT !.spec = s, !.generation = @ + 1].handle = Server.handle
        BY <2>6 DEF Credentials
      <3> QED BY <2>4, <2>6, <3>1, <3>2, EditedTypes
    <2>8. CASE DeleteEC
      <3>1. /\ [Server EXCEPT !.deleting = TRUE, !.generation = @ + 1].handle
                  = Server.handle
            /\ [Server EXCEPT !.exists = FALSE].handle = Server.handle
        BY <2>6 DEF Credentials
      <3> QED BY <2>4, <2>6, <2>8, <3>1, EditedTypes DEF DeleteEC
    <2> QED BY <2>1, <2>2, <2>3, <2>5, <2>7, <2>8, ECSteps
  <1>4. ec'.handle \in Nat /\ ec'.handle <= Len(ledger)
        /\ previous' \in Nat /\ previous' <= Len(ledger)
    <2>0. /\ ec.handle \in Nat /\ ec.handle <= Len(ledger)
          /\ previous \in Nat /\ previous <= Len(ledger)
      BY DEF HandlesMinted, TypeOK, LocalsOK, Credentials
    <2>1. CASE EndRun
      BY <1>1, <2>1 DEF EndRun, NilEC, NewEC
    <2>2. CASE ReadEC
      BY <1>2, <2>2 DEF ReadEC, Cached, TypeOK
    <2>3. CASE UNCHANGED <<ec, previous>>
      BY <2>0, <2>3
    <2>4. CASE ECWrite /\ ec' = desired /\ UNCHANGED previous
      BY <2>0, <2>4, DesiredFields DEF ECWrite, RunOK, Minted, TypeOK
    <2> QED BY <2>1, <2>2, <2>3, <2>4, LocalSteps
  <1>5. \A i \in 1..Len(ecw') : ecw'[i].handle \in Nat
    <2>1. TypeOK'
      BY ReconcileType, CallsType, EnvironmentType DEF Next
    <2>2. \A c \in Credentials : c.handle \in Nat
      BY DEF Credentials
    <2>3. \A i \in 1..Len(ecw') : ecw'[i] \in Credentials
      BY <2>1 DEF TypeOK
    <2> QED BY <2>2, <2>3
  <1> QED BY <1>1, <1>3, <1>4, <1>5 DEF HandlesMinted

\* Types, and the facts they rest on, are invariant.
TypeInv == TypeOK /\ RunOK /\ HandlesMinted

\* A resource for which nothing has been minted.
Unused(c) ==
    /\ c \in Credentials /\ ~c.deleting /\ c.handle = 0
    /\ c.status.expiresAt = NoTime /\ c.status.observedGeneration = 0

\* A process that starts with such a resource.
Starts(c) ==
    /\ Unused(c) /\ ecw = <<c>>
    /\ \E secrets \in InitialSecrets : secw = [n \in Names |-> <<secrets[n]>>]
    /\ now = 0 /\ ledger = <<>> /\ revoked = {} /\ used = 0
    /\ pc = "idle" /\ ec = NilEC /\ fresh = FALSE /\ token = 0
    /\ previous = 0 /\ started = NoTime /\ fail = NoFail
    /\ queued = TRUE /\ wakeAt = NoTime /\ retrying = FALSE

LEMMA InitStarts ==
    ASSUME Init
    PROVE  \E c : Starts(c)
  <1>1. PICK s \in Specs : ecw = <<NewEC(s)>>
    BY DEF Init
  <1>2. Unused(NewEC(s))
    BY NewECType DEF Unused, NewEC, NoStatus
  <1>3. Starts(NewEC(s))
    BY <1>1, <1>2 DEF Init, Starts
  <1> QED BY <1>3

LEMMA StartType ==
    ASSUME NEW c, Starts(c)
    PROVE  TypeInv
  <1> USE DEF Starts
  <1>2. PICK secrets \in InitialSecrets : secw = [n \in Names |-> <<secrets[n]>>]
    OBVIOUS
  <1>3. ecw \in Seq(Credentials) /\ Len(ecw) = 1 /\ ecw[1].handle = 0
    BY DEF Unused
  <1>4. secrets \in [Names -> Secrets]
    BY InitialSecretsAssumption
  <1>5. secw \in [Names -> Seq(Secrets)] /\ \A n \in Names : Len(secw[n]) >= 1
    BY <1>2, <1>4
  <1>6. LocalsOK
    <2>1. fail \in [valid : BOOLEAN, retry : BOOLEAN]
      BY DEF NoFail
    <2>2. ec \in Credentials
      BY NilECType
    <2>3. fresh \in BOOLEAN
      OBVIOUS
    <2>4. pc \in Locations /\ token \in Nat /\ previous \in Nat /\ started \in Times
      BY DEF Locations, Times, NoTime
    <2> QED BY <2>1, <2>2, <2>3, <2>4 DEF LocalsOK
  <1>7. queued \in BOOLEAN
    OBVIOUS
  <1>8. TimerOK /\ ledger \in Seq(Tokens) /\ Len(ledger) = 0
    <2>1. wakeAt \in Times /\ ledger \in Seq(Tokens) /\ Len(ledger) = 0
      BY DEF Times, NoTime
    <2>2. retrying \in BOOLEAN
      OBVIOUS
    <2> QED BY <2>1, <2>2 DEF TimerOK
  <1>9. TypeOK
    BY <1>3, <1>5, <1>6, <1>7, <1>8 DEF TypeOK, TimerOK
  <1>10. RunOK
    BY DEF RunOK, Minted
  <1>11. HandlesMinted
    BY <1>3, <1>8 DEF HandlesMinted, NilEC, NewEC
  <1> QED BY <1>9, <1>10, <1>11 DEF TypeInv

LEMMA TypeInit == Init => TypeInv
  BY InitStarts, StartType

LEMMA TypeStep == TypeInv /\ [Next]_vars => TypeInv'
  <1> SUFFICES ASSUME TypeInv, [Next]_vars PROVE TypeInv'
    OBVIOUS
  <1>1. CASE Next
    BY <1>1, ReconcileType, CallsType, EnvironmentType, HandlesStep
    DEF Next, TypeInv
  <1>2. CASE UNCHANGED vars
    BY <1>2 DEF vars, cluster, locals, queue, timer, provider, TypeInv, TypeOK,
                LocalsOK, RunOK, HandlesMinted
  <1> QED BY <1>1, <1>2

\* Every variable keeps its type, for every choice of the constants.
THEOREM TypeCorrect == Spec => []TypeOK
  <1>1. TypeInv => TypeOK
    BY DEF TypeInv
  <1> QED BY <1>1, TypeInit, TypeStep, PTL DEF Spec

----------------------------------------------------------------------------
(* Revocation follows publication. *)

LEMMA EditSpecServer ==
    ASSUME TypeOK, EditSpec
    PROVE  /\ Server'.generation = Server.generation + 1
           /\ Server'.status = Server.status
           /\ Server'.deleting = Server.deleting
           /\ Server'.exists = Server.exists
  <1>1. PICK s \in Specs :
          PutEC([Server EXCEPT !.spec = s, !.generation = @ + 1])
    BY DEF EditSpec
  <1>2. Server' = [Server EXCEPT !.spec = s, !.generation = @ + 1]
    BY <1>1, WindowTypes, EditedTypes, PutECType
  <1> QED BY <1>2, WindowTypes DEF Credentials

LEMMA DeleteECServer ==
    ASSUME TypeOK, DeleteEC
    PROVE  /\ Server'.deleting \/ ~Server'.exists
           /\ Server'.status = Server.status
           /\ Server'.generation \in {Server.generation, Server.generation + 1}
           /\ Server.deleting => Server'.deleting
  <1> DEFINE d == [Server EXCEPT !.deleting = TRUE, !.generation = @ + 1]
             g == [Server EXCEPT !.exists = FALSE]
  <1>1. d \in Credentials /\ g \in Credentials
    BY WindowTypes, EditedTypes
  <1>2. d.deleting /\ d.status = Server.status /\ d.generation = Server.generation + 1
    BY WindowTypes DEF Credentials
  <1>3. /\ ~g.exists /\ g.status = Server.status
        /\ g.generation = Server.generation /\ g.deleting = Server.deleting
    BY WindowTypes DEF Credentials
  <1>4. PutEC(IF Server.finalizer THEN d ELSE g)
    BY DEF DeleteEC
  <1> HIDE DEF d, g
  <1>5. Server' = d \/ Server' = g
    BY <1>1, <1>4, PutECType
  <1> QED BY <1>2, <1>3, <1>5

LEMMA ECWriteServer ==
    ASSUME TypeOK, RunOK, FreshCopy, ECWrite
    PROVE  Server' = desired /\ Server = ec
  BY DesiredType, StoredType DEF ECWrite, FreshCopy

LEMMA ObservedStep ==
    ASSUME TypeOK, RunOK, FreshCopy, Observed, Next
    PROVE  Observed'
  <1>0. Server.generation \in Nat /\ Server.status.observedGeneration \in Nat
    BY WindowTypes DEF Credentials, Statuses
  <1>1. CASE ecw' = ecw \/ DeliverEC \/ Crash
    BY <1>1, ServerKept DEF Observed
  <1>2. CASE ECWrite
    BY <1>0, <1>2, ECWriteServer, DesiredFields DEF ECWrite, Observed
  <1>3. CASE EditSpec
    BY <1>0, <1>3, EditSpecServer DEF Observed
  <1>4. CASE DeleteEC
    BY <1>0, <1>4, DeleteECServer DEF Observed
  <1> QED BY <1>1, <1>2, <1>3, <1>4, ECSteps

\* Where Reconcile can be after a step.
LEMMA DeletingSteps ==
    ASSUME Next, pc' \in Deleting
    PROVE  \/ ReconcileDelete
           \/ RevokeOnDelete \/ DeleteSecret
           \/ UNCHANGED <<pc, ec>>
  <1> USE DEF Deleting
  <1>1. CASE Reconcile
    BY <1>1 DEF Reconcile, ReconcileGone, ReconcileNew, ReconcileUnknownProvider,
         failStatus, ReconcileSteady, ReconcileMint, ReturnNil, ReturnAfter,
         EndRun, GoTo
  <1>2. CASE Calls
    BY <1>2 DEF Calls, AddFinalizer, SetPending, Mint, MintFails, MintLost,
         WriteSecret, WriteSecretFails, WriteSecretLost, PersistHandle,
         UpdateStatus, Put, RevokePrevious, DeleteExpired, FailStatus,
         DeleteSecretFails, RemoveFinalizer, ECWriteFails, ECWriteLost, Fail,
         failStatus, ReturnNil, ReturnAfter, ReturnRateLimited, EndRun
  <1>3. CASE Deliveries \/ Users \/ Resync \/ Crash \/ Tick
             \/ \E n \in Names : GarbageCollect(n)
    BY <1>3 DEF Deliveries, DeliverEC, TimerFires, DeliverSecret, Users,
         EditSpec, DeleteEC, UserDeletesSecret, UserEditsSecret, Resync, Crash,
         Tick, GarbageCollect, EndRun, locals
  <1> QED BY <1>1, <1>2, <1>3 DEF Next

LEMMA DeletionFinalStep ==
    ASSUME TypeOK, RunOK, FreshCopy, DeletionFinal, Next
    PROVE  DeletionFinal'
  <1>1. Server.deleting => Server'.deleting
    <2>1. CASE ECWrite
      BY <2>1, ECWriteServer, DesiredFields DEF ECWrite
    <2> QED BY <2>1, ServerKept, EditSpecServer, DeleteECServer, ECSteps
  <1>2. \A i \in 1..Len(ecw') : ecw'[i].deleting => Server'.deleting
    <2>1. CASE ecw' = ecw
      BY <1>1, <2>1 DEF DeletionFinal
    <2>2. CASE DeliverEC
      <3>1. \A i \in 1..Len(Tail(ecw)) : i + 1 \in 1..Len(ecw) /\ Tail(ecw)[i] = ecw[i + 1]
        BY <2>2 DEF DeliverEC, TypeOK
      <3> QED BY <1>1, <2>2, <3>1 DEF DeliverEC, DeletionFinal
    <2>3. CASE Crash
      <3>1. ecw' = <<Server>>
        BY <2>3 DEF Crash
      <3> QED BY <1>1, <3>1
    <2>4. ASSUME NEW v \in Credentials, PutEC(v)
          PROVE  \A i \in 1..Len(ecw') : ecw'[i].deleting => Server'.deleting
      <3>1. Server' = v
        BY <2>4, PutECType
      <3>2. \A i \in 1..Len(ecw') : ecw'[i] = v \/ (i \in 1..Len(ecw) /\ ecw'[i] = ecw[i])
        BY <2>4 DEF PutEC, TypeOK
      <3> QED BY <1>1, <3>1, <3>2 DEF DeletionFinal
    <2>5. CASE ECWrite
      <3>1. /\ desired \in Credentials
            /\ PutEC(desired) \/ ecw' = ecw
        BY <2>5, DesiredType DEF ECWrite
      <3> QED BY <2>1, <2>4, <3>1
    <2>6. CASE EditSpec
      <3>1. PICK s \in Specs :
              PutEC([Server EXCEPT !.spec = s, !.generation = @ + 1])
        BY <2>6 DEF EditSpec
      <3> QED BY <2>4, <3>1, WindowTypes, EditedTypes
    <2>7. CASE DeleteEC
      BY <2>4, <2>7, WindowTypes, EditedTypes DEF DeleteEC
    <2> QED BY <2>1, <2>2, <2>3, <2>5, <2>6, <2>7, ECSteps
  <1>3. ec'.deleting => Server'.deleting
    <2>1. CASE EndRun
      BY <2>1 DEF EndRun, NilEC, NewEC
    <2>2. CASE ReadEC /\ ecw' = ecw
      BY <1>1, <2>2 DEF ReadEC, Cached, DeletionFinal, TypeOK
    <2>3. CASE UNCHANGED ec
      BY <1>1, <2>3 DEF DeletionFinal
    <2>4. CASE ECWrite /\ ec' = desired
      BY <2>4, ECWriteServer
    <2> QED BY <2>1, <2>2, <2>3, <2>4, LocalSteps
  <1>4. pc' \in Deleting => ec'.deleting
    <2> SUFFICES ASSUME pc' \in Deleting PROVE ec'.deleting
      OBVIOUS
    <2>1. CASE ReconcileDelete
      BY <2>1 DEF ReconcileDelete, ReadEC
    <2>2. CASE RevokeOnDelete \/ DeleteSecret
      BY <2>2 DEF RevokeOnDelete, DeleteSecret, DeletionFinal, Deleting
    <2>3. CASE UNCHANGED <<pc, ec>>
      BY <2>3 DEF DeletionFinal
    <2> QED BY <2>1, <2>2, <2>3, DeletingSteps
  <1> QED BY <1>2, <1>3, <1>4 DEF DeletionFinal

\* What concerns this resource alone: its reconciles, its events and users.
OwnStep ==
    \/ Reconcile \/ Calls \/ DeliverEC \/ TimerFires \/ Users
    \/ \E n \in Names : GarbageCollect(n)

\* What such a step does to the Secrets.
LEMMA OwnSecretSteps ==
    ASSUME OwnStep
    PROVE  \/ secw' = secw
           \/ pc = "writeSecret" /\ writeTargetSecret
           \/ \E n \in Names : PutSecret(n, NoSecret) \/ UserEditsSecret(n)
  <1> USE DEF cluster, queue, timer, provider, locals
  <1>1. CASE Reconcile
    BY <1>1 DEF Reconcile, ReconcileGone, ReconcileDelete, ReconcileNew,
         ReconcileUnknownProvider, ReconcileSteady, ReconcileMint, Dequeue
  <1>2. CASE WriteSecret \/ WriteSecretFails \/ WriteSecretLost
    BY <1>2 DEF WriteSecret, WriteSecretFails, WriteSecretLost
  <1>3. CASE DeleteExpired \/ DeleteSecret
    BY <1>3 DEF DeleteExpired, DeleteSecret, deleteTargetSecret, targetSecretExists
  <1>4. CASE AddFinalizer \/ SetPending \/ Mint \/ MintFails \/ MintLost
             \/ PersistHandle \/ UpdateStatus \/ RevokePrevious \/ FailStatus
             \/ RevokeOnDelete \/ DeleteSecretFails \/ RemoveFinalizer
             \/ ECWriteFails \/ ECWriteLost
    BY <1>4 DEF AddFinalizer, SetPending, Mint, MintFails, MintLost,
         PersistHandle, UpdateStatus, Put, RevokePrevious, FailStatus,
         RevokeOnDelete, DeleteSecretFails, RemoveFinalizer, ECWriteFails,
         ECWriteLost
  <1>5. CASE DeliverEC \/ TimerFires
    BY <1>5 DEF DeliverEC, TimerFires
  <1>6. CASE Users
    BY <1>6 DEF Users, EditSpec, DeleteEC, UserDeletesSecret
  <1>7. CASE \E n \in Names : GarbageCollect(n)
    BY <1>7 DEF GarbageCollect
  <1> QED
    BY <1>1, <1>2, <1>3, <1>4, <1>5, <1>6, <1>7 DEF OwnStep, Calls

\* Time passes in no such step.
LEMMA OwnClock ==
    ASSUME OwnStep
    PROVE  now' = now
  <1>1. CASE Reconcile
    BY <1>1 DEF Reconcile, ReconcileGone, ReconcileDelete, ReconcileNew,
         ReconcileUnknownProvider, ReconcileSteady, ReconcileMint, Dequeue
  <1>2. CASE Calls
    BY <1>2 DEF Calls, AddFinalizer, SetPending, Mint, MintFails, MintLost,
         WriteSecret, WriteSecretFails, WriteSecretLost, PersistHandle,
         UpdateStatus, Put, RevokePrevious, DeleteExpired, FailStatus,
         RevokeOnDelete, DeleteSecret, DeleteSecretFails, RemoveFinalizer,
         ECWriteFails, ECWriteLost
  <1>3. CASE DeliverEC \/ TimerFires \/ Users \/ \E n \in Names : GarbageCollect(n)
    BY <1>3 DEF DeliverEC, TimerFires, Users, EditSpec, DeleteEC,
         UserDeletesSecret, UserEditsSecret, GarbageCollect
  <1> QED BY <1>1, <1>2, <1>3 DEF OwnStep

\* What a step does to the Secrets.
LEMMA SecretSteps ==
    ASSUME Next
    PROVE  \/ secw' = secw
           \/ Crash
           \/ pc = "writeSecret" /\ writeTargetSecret
           \/ \E n \in Names : \/ DeliverSecret(n)
                               \/ PutSecret(n, NoSecret)
                               \/ UserEditsSecret(n)
  <1>1. CASE OwnStep
    BY <1>1, OwnSecretSteps
  <1>2. CASE Resync \/ Tick
    BY <1>2 DEF Resync, Tick, cluster
  <1> QED BY <1>1, <1>2 DEF Next, OwnStep, Deliveries

\* Every key that holds a token is managed, in one Secret.
Managed(s) ==
    \A k \in DataKeys : s.data[k] \notin {Empty, Foreign} => k \in s.managed

\* What writeTargetSecret makes of such a Secret: one token, all of it managed.
LEMMA MutateTokens ==
    ASSUME NEW s \in Secrets, Managed(s), NEW keys \in KeyMaps, NEW t \in Nat
    PROVE  TokensIn(mutate(s, keys, t)) \subseteq {t} /\ Managed(mutate(s, keys, t))
  <1> DEFINE m == mutate(s, keys, t)
  <1>1. \A k \in DataKeys :
          /\ m.data[k] = IF k \in written(keys) THEN t
                         ELSE IF k \in s.managed THEN Empty ELSE s.data[k]
          /\ m.managed = written(keys)
    BY DEF mutate
  <1> HIDE DEF m
  <1>2. \A k \in DataKeys : k \notin written(keys) => m.data[k] \in {Empty, Foreign}
    BY <1>1 DEF Managed
  <1>3. TokensIn(m) \subseteq {t}
    BY <1>1, <1>2 DEF TokensIn
  <1>4. Managed(m)
    BY <1>1, <1>2 DEF Managed
  <1> QED BY <1>3, <1>4 DEF m

LEMMA NoSecretTokens == TokensIn(NoSecret) = {} /\ Managed(NoSecret)
  BY DEF TokensIn, NoSecret, Managed, Empty

LEMMA EditedTokens ==
    ASSUME NEW s \in Secrets, NEW j \in DataKeys
    PROVE  LET e == [s EXCEPT !.exists = TRUE, !.data[j] = Foreign]
           IN  TokensIn(e) \subseteq TokensIn(s) /\ (Managed(s) => Managed(e))
  <1> DEFINE e == [s EXCEPT !.exists = TRUE, !.data[j] = Foreign]
  <1>1. /\ \A k \in DataKeys : e.data[k] = IF k = j THEN Foreign ELSE s.data[k]
        /\ e.managed = s.managed
    BY DEF Secrets
  <1> HIDE DEF e
  <1>2. TokensIn(e) \subseteq TokensIn(s)
    BY <1>1 DEF TokensIn
  <1>3. Managed(s) => Managed(e)
    BY <1>1 DEF Managed
  <1> QED BY <1>2, <1>3 DEF e

\* Only writeTargetSecret puts a token into a Secret, and it leaves no other.
Shrink == \A n \in Names : TokensIn(Secret(n))' \subseteq TokensIn(Secret(n))

WroteOnly ==
    /\ pc = "writeSecret" /\ ec.spec.target \in Names
    /\ \A n \in Names : IF n = ec.spec.target
                        THEN TokensIn(Secret(n))' \subseteq {token}
                        ELSE Secret(n)' = Secret(n)

LEMMA SecretTokens ==
    ASSUME TypeOK, TokensManaged, Next
    PROVE  (Shrink \/ WroteOnly) /\ TokensManaged'
  <1>m. \A n \in Names : \A i \in 1..Len(secw[n]) : Managed(secw[n][i])
    BY DEF TokensManaged, Managed
  <1>t. \A n \in Names : secw[n] \in Seq(Secrets) /\ Len(secw[n]) >= 1
    BY DEF TypeOK
  <1>s. \A n \in Names : Managed(Secret(n)) /\ Managed(CachedSecret(n))
    BY <1>m, <1>t DEF Secret, CachedSecret
  <1>g. SUFFICES (Shrink \/ WroteOnly)
                 /\ \A n \in Names : \A i \in 1..Len(secw'[n]) : Managed(secw'[n][i])
    BY DEF TokensManaged, Managed
  <1>1. CASE secw' = secw
    BY <1>1, <1>m DEF Shrink, Secret
  <1>2. CASE Crash
    <2>1. \A n \in Names : secw'[n] = <<Secret(n)>>
      BY <1>2 DEF Crash
    <2>2. \A n \in Names : Len(secw'[n]) = 1 /\ secw'[n][1] = Secret(n)
      BY <2>1
    <2>3. \A n \in Names : Secret(n)' = Secret(n)
      BY <2>2 DEF Secret
    <2> QED BY <1>s, <2>2, <2>3 DEF Shrink
  <1>3. ASSUME NEW n \in Names, DeliverSecret(n)
        PROVE  Shrink /\ \A m \in Names : \A i \in 1..Len(secw'[m]) : Managed(secw'[m][i])
    <2>1. secw'[n] = Tail(secw[n]) /\ Len(secw[n]) > 1
      BY <1>3 DEF DeliverSecret, TypeOK
    <2>2. /\ Len(Tail(secw[n])) = Len(secw[n]) - 1
          /\ \A i \in 1..Len(Tail(secw[n])) : i + 1 \in 1..Len(secw[n])
                /\ Tail(secw[n])[i] = secw[n][i + 1]
      BY <1>t, <2>1
    <2>3. \A m \in Names \ {n} : secw'[m] = secw[m]
      BY <1>3 DEF DeliverSecret, TypeOK
    <2>4. secw'[n][Len(secw'[n])] = secw[n][Len(secw[n])]
      BY <1>t, <2>1, <2>2
    <2>5. \A m \in Names : Secret(m)' = Secret(m)
      BY <2>3, <2>4 DEF Secret
    <2>6. \A i \in 1..Len(secw'[n]) : Managed(secw'[n][i])
      BY <1>m, <2>1, <2>2
    <2> QED BY <1>m, <2>3, <2>5, <2>6 DEF Shrink
  <1>4. ASSUME NEW n \in Names, NEW v \in Secrets, PutSecret(n, v), Managed(v)
        PROVE  /\ \A m \in Names : \A i \in 1..Len(secw'[m]) : Managed(secw'[m][i])
               /\ Secret(n)' = v
               /\ \A m \in Names \ {n} : Secret(m)' = Secret(m)
    <2>1. secw'[n] = Append(secw[n], v)
      BY <1>4 DEF PutSecret, TypeOK
    <2>2. \A i \in 1..Len(secw'[n]) :
            secw'[n][i] = v \/ (i \in 1..Len(secw[n]) /\ secw'[n][i] = secw[n][i])
      BY <1>t, <2>1
    <2>3. \A i \in 1..Len(secw'[n]) : Managed(secw'[n][i])
      BY <1>m, <1>4, <2>2
    <2>4. Secret(n)' = v /\ \A m \in Names \ {n} : secw'[m] = secw[m]
      BY <1>4, PutSecretType
    <2> QED BY <1>m, <2>3, <2>4 DEF Secret
  <1>5. CASE pc = "writeSecret" /\ writeTargetSecret
    <2>1. PICK n \in Names : n = ec.spec.target
      BY <1>5 DEF writeTargetSecret, SecretWritable
    <2> DEFINE v == mutate(CachedSecret(n), ec.spec.keys, token)
    <2>2. PutSecret(n, v)
      BY <1>5, <2>1 DEF writeTargetSecret
    <2>3. ec.spec.keys \in KeyMaps /\ token \in Nat
      BY SpecFields DEF TypeOK, LocalsOK
    <2>4. CachedSecret(n) \in Secrets /\ Managed(CachedSecret(n))
      BY <1>s, WindowTypes
    <2>5. v \in Secrets /\ TokensIn(v) \subseteq {token} /\ Managed(v)
      BY <2>3, <2>4, MutateType, MutateTokens
    <2> HIDE DEF v
    <2>6. /\ \A m \in Names : \A i \in 1..Len(secw'[m]) : Managed(secw'[m][i])
          /\ Secret(n)' = v
          /\ \A m \in Names \ {n} : Secret(m)' = Secret(m)
      BY <1>4, <2>2, <2>5
    <2>7. TokensIn(Secret(n))' \subseteq {token}
      BY <2>5, <2>6 DEF TokensIn
    <2> QED BY <1>5, <2>1, <2>6, <2>7 DEF WroteOnly
  <1>6. ASSUME NEW n \in Names, PutSecret(n, NoSecret)
        PROVE  Shrink /\ \A m \in Names : \A i \in 1..Len(secw'[m]) : Managed(secw'[m][i])
    <2>1. /\ \A m \in Names : \A i \in 1..Len(secw'[m]) : Managed(secw'[m][i])
          /\ Secret(n)' = NoSecret
          /\ \A m \in Names \ {n} : Secret(m)' = Secret(m)
      BY <1>4, <1>6, NoSecretType, NoSecretTokens
    <2>2. TokensIn(Secret(n))' = {}
      BY <2>1, NoSecretTokens DEF TokensIn
    <2>3. \A m \in Names \ {n} : TokensIn(Secret(m))' = TokensIn(Secret(m))
      BY <2>1 DEF TokensIn
    <2> QED BY <2>1, <2>2, <2>3 DEF Shrink
  <1>7. ASSUME NEW n \in Names, UserEditsSecret(n)
        PROVE  Shrink /\ \A m \in Names : \A i \in 1..Len(secw'[m]) : Managed(secw'[m][i])
    <2>1. PICK k \in DataKeys :
            PutSecret(n, [Secret(n) EXCEPT !.exists = TRUE, !.data[k] = Foreign])
      BY <1>7 DEF UserEditsSecret
    <2> DEFINE v == [Secret(n) EXCEPT !.exists = TRUE, !.data[k] = Foreign]
    <2>2. v \in Secrets /\ TokensIn(v) \subseteq TokensIn(Secret(n)) /\ Managed(v)
      BY <1>s, WindowTypes, EditedSecretType, EditedTokens
    <2>3. PutSecret(n, v)
      BY <2>1
    <2> HIDE DEF v
    <2>4. /\ \A m \in Names : \A i \in 1..Len(secw'[m]) : Managed(secw'[m][i])
          /\ Secret(n)' = v
          /\ \A m \in Names \ {n} : Secret(m)' = Secret(m)
      BY <1>4, <2>2, <2>3
    <2> QED BY <2>2, <2>4 DEF Shrink, TokensIn
  <1> QED BY <1>1, <1>2, <1>3, <1>5, <1>6, <1>7, SecretSteps

\* How a minted credential gets or stays in Reconcile's hands.
LEMMA MintedSteps ==
    ASSUME Next, pc' \in Minted
    PROVE  \/ Mint \/ WriteSecret \/ PersistHandle \/ UpdateStatus
           \/ /\ UNCHANGED <<pc, ec, token, previous, revoked>>
              /\ \/ secw' = secw \/ \E n \in Names :
                    DeliverSecret(n) \/ PutSecret(n, NoSecret) \/ UserEditsSecret(n)
  <1> USE DEF Minted, provider, cluster, locals
  <1>1. CASE Reconcile
    BY <1>1 DEF Reconcile, ReconcileGone, ReconcileDelete, ReconcileNew,
         ReconcileUnknownProvider, failStatus, ReconcileSteady, ReconcileMint,
         ReturnNil, ReturnAfter, EndRun, GoTo
  <1>2. CASE Calls
    BY <1>2 DEF Calls, AddFinalizer, SetPending, MintFails, MintLost,
         WriteSecretFails, WriteSecretLost, RevokePrevious, DeleteExpired,
         FailStatus, RevokeOnDelete, DeleteSecret, DeleteSecretFails,
         RemoveFinalizer, ECWriteFails, ECWriteLost, Fail, failStatus,
         ReturnNil, ReturnAfter, ReturnRateLimited, EndRun
  <1>3. CASE Deliveries \/ Users \/ Resync \/ Crash \/ Tick
             \/ \E n \in Names : GarbageCollect(n)
    BY <1>3 DEF Deliveries, DeliverEC, TimerFires, DeliverSecret, Users,
         EditSpec, DeleteEC, UserDeletesSecret, UserEditsSecret, Resync, Crash,
         Tick, GarbageCollect, EndRun
  <1> QED BY <1>1, <1>2, <1>3 DEF Next

\* Writing leaves the credential in hand as the Secret's only one.
LEMMA WriteTokens ==
    ASSUME TypeOK, TokensManaged, writeTargetSecret
    PROVE  \A n \in Names : n = ec.spec.target
                               => TokensIn(Secret(n))' \subseteq {token}
  <1> SUFFICES ASSUME NEW n \in Names, n = ec.spec.target
               PROVE  TokensIn(Secret(n))' \subseteq {token}
    OBVIOUS
  <1> DEFINE v == mutate(CachedSecret(n), ec.spec.keys, token)
  <1>1. PutSecret(n, v)
    BY DEF writeTargetSecret
  <1>2. ec.spec.keys \in KeyMaps /\ token \in Nat
    BY SpecFields DEF TypeOK, LocalsOK
  <1>3. CachedSecret(n) \in Secrets
    BY WindowTypes
  <1>4. Managed(CachedSecret(n))
    BY DEF TokensManaged, Managed, CachedSecret, TypeOK
  <1>5. v \in Secrets /\ TokensIn(v) \subseteq {token}
    BY <1>2, <1>3, <1>4, MutateType, MutateTokens
  <1> HIDE DEF v
  <1>6. Secret(n)' = v
    BY <1>1, <1>5, PutSecretType
  <1> QED BY <1>5, <1>6 DEF TokensIn

LEMMA InHandStep ==
    ASSUME TypeOK, RunOK, HandlesMinted, TokensManaged, InHand, Next
    PROVE  InHand'
  <1> SUFFICES ASSUME pc' \in Minted
               PROVE  /\ token' \notin revoked' /\ token' # previous'
                      /\ pc' \in Published =>
                           \A n \in Names : n = ec'.spec.target
                              => TokensIn(Secret(n))' \subseteq {token'}
    BY DEF InHand, Published, Minted
  <1>1. CASE Mint
    <2>1. PICK l \in Lifetimes : Grant(l)
      BY <1>1 DEF Mint
    <2>2. revoked' = revoked /\ token' = Len(ledger) + 1 /\ previous' = previous
      BY <1>1, <2>1 DEF Mint, Grant
    <2>3. /\ Len(ledger) \in Nat /\ revoked \subseteq 1..Len(ledger)
          /\ previous \in Nat /\ previous <= Len(ledger)
      BY DEF TypeOK, LocalsOK, HandlesMinted
    <2>4. pc' \notin Published
      BY <1>1 DEF Mint, Published
    <2> QED BY <2>2, <2>3, <2>4
  <1>2. CASE WriteSecret
    <2>1. UNCHANGED <<ec, token, previous, revoked>> /\ pc \in Minted
      BY <1>2 DEF WriteSecret, provider, Minted
    <2>2. \A n \in Names : n = ec.spec.target
                              => TokensIn(Secret(n))' \subseteq {token}
      BY <1>2, WriteTokens DEF WriteSecret
    <2> QED BY <2>1, <2>2 DEF InHand
  <1>3. CASE PersistHandle \/ UpdateStatus
    <2>1. /\ UNCHANGED <<secw, token, previous, revoked>>
          /\ pc \in ECWrites \cap Published \cap Minted
          /\ ec' = desired
      BY <1>3 DEF PersistHandle, UpdateStatus, Put, provider, Minted,
                  Published, ECWrites
    <2>2. ec'.spec = ec.spec
      BY <2>1, DesiredFields
    <2>3. \A n \in Names : TokensIn(Secret(n))' = TokensIn(Secret(n))
      BY <2>1 DEF Secret, TokensIn
    <2> QED BY <2>1, <2>2, <2>3 DEF InHand
  <1>4. CASE /\ UNCHANGED <<pc, ec, token, previous, revoked>>
             /\ \/ secw' = secw \/ \E n \in Names :
                   DeliverSecret(n) \/ PutSecret(n, NoSecret) \/ UserEditsSecret(n)
    <2>1. pc \in Published => Shrink
      BY SecretTokens DEF WroteOnly, Published
    <2>2. pc' = pc /\ ec' = ec /\ token' = token /\ previous' = previous /\ revoked' = revoked
      BY <1>4
    <2> QED BY <2>1, <2>2 DEF InHand, Shrink
  <1> QED BY <1>1, <1>2, <1>3, <1>4, MintedSteps

LEMMA EditedNotUpToDate ==
    ASSUME TypeOK, Observed, EditSpec \/ DeleteEC
    PROVE  ~UpToDate'
  <1>0. Server.generation \in Nat /\ Server.status.observedGeneration \in Nat
    BY WindowTypes DEF Credentials, Statuses
  <1>1. CASE EditSpec
    BY <1>0, <1>1, EditSpecServer DEF Observed, UpToDate
  <1>2. CASE DeleteEC
    BY <1>2, DeleteECServer DEF UpToDate
  <1> QED BY <1>1, <1>2

LEMMA RevokesOtherStep ==
    ASSUME TypeOK, RunOK, FreshCopy, Observed, RevokesOther, Next
    PROVE  RevokesOther'
  <1> SUFFICES ASSUME pc' = "revokePrevious", UpToDate'
               PROVE  Server'.spec.target = ec'.spec.target
    BY DEF RevokesOther
  <1>1. CASE UpdateStatus
    <2>1. ECWrite /\ ec' = desired
      BY <1>1 DEF UpdateStatus, Put, StoreEC, ECWrite, ECWrites, Accepted, provider
    <2> QED BY <2>1, ECWriteServer
  <1>2. CASE UNCHANGED <<pc, ec>>
    <2>1. ~ECWrite /\ ~EditSpec /\ ~DeleteEC
      BY <1>2, EditedNotUpToDate DEF ECWrite, ECWrites
    <2>2. Server' = Server
      BY <2>1, ECSteps, ServerKept
    <2> QED BY <1>2, <2>2 DEF RevokesOther, UpToDate
  <1>3. ~Mint /\ ~WriteSecret /\ ~PersistHandle
    BY DEF Mint, WriteSecret, PersistHandle, Put
  <1> QED BY <1>1, <1>2, <1>3, MintedSteps DEF Minted

\* Only the two calls of Revoke revoke anything.
LEMMA RevokedSteps ==
    ASSUME Next
    PROVE  revoked' = revoked \/ RevokePrevious \/ RevokeOnDelete
  BY DEF Next, Reconcile, Dequeue, ReconcileGone, ReconcileDelete,
     ReconcileNew, ReconcileUnknownProvider, ReconcileSteady, ReconcileMint,
     Calls, AddFinalizer, SetPending, Mint, MintFails, MintLost, Grant,
     WriteSecret, WriteSecretFails, WriteSecretLost, PersistHandle,
     UpdateStatus, Put, DeleteExpired, FailStatus, DeleteSecret,
     DeleteSecretFails, RemoveFinalizer, ECWriteFails, ECWriteLost, Deliveries,
     DeliverEC, TimerFires, DeliverSecret, Users, EditSpec, DeleteEC,
     UserDeletesSecret, UserEditsSecret, Resync, Crash, Tick, GarbageCollect,
     provider

LEMMA PublishedStep ==
    ASSUME TypeOK, RunOK, FreshCopy, Observed, DeletionFinal, TokensManaged,
           InHand, RevokesOther, PublishedNotRevoked, Next
    PROVE  PublishedNotRevoked'
  <1> SUFFICES ASSUME NEW n \in Names, UpToDate', n = Server'.spec.target
               PROVE  TokensIn(Secret(n))' \cap revoked' = {}
    BY DEF PublishedNotRevoked, UpToDate, Target, Secret, TokensIn
  <1>1. UpToDate /\ n = Server.spec.target => TokensIn(Secret(n)) \cap revoked = {}
    BY DEF PublishedNotRevoked, Target
  <1>2. CASE Server' = Server
    <2>1. UpToDate /\ n = Server.spec.target
      BY <1>2 DEF UpToDate
    <2>2. TokensIn(Secret(n))' \cap revoked = {}
      <3>1. CASE Shrink
        BY <1>1, <2>1, <3>1 DEF Shrink
      <3>2. CASE WroteOnly
        <4>1. token \notin revoked
          BY <3>2 DEF WroteOnly, InHand, Minted
        <4>2. CASE n = ec.spec.target
          BY <3>2, <4>1, <4>2 DEF WroteOnly
        <4>3. CASE n # ec.spec.target
          <5>1. Secret(n)' = Secret(n)
            BY <3>2, <4>3 DEF WroteOnly
          <5> QED BY <1>1, <2>1, <5>1 DEF TokensIn
        <4> QED BY <4>2, <4>3
      <3> QED BY <3>1, <3>2, SecretTokens
    <2>3. CASE revoked' = revoked
      BY <2>2, <2>3
    <2>4. CASE RevokePrevious
      <3>1. pc = "revokePrevious" /\ secw' = secw
            /\ revoked' \subseteq revoked \cup {previous}
        BY <2>4 DEF RevokePrevious, Revoke, cluster
      <3>2. n = ec.spec.target
        BY <2>1, <3>1 DEF RevokesOther
      <3>3. TokensIn(Secret(n)) \subseteq {token} /\ token # previous
        BY <3>1, <3>2 DEF InHand, Published, Minted
      <3>4. TokensIn(Secret(n))' = TokensIn(Secret(n))
        BY <3>1 DEF Secret, TokensIn
      <3> QED BY <2>2, <3>1, <3>3, <3>4
    <2>5. CASE RevokeOnDelete
      <3>1. Server.deleting
        BY <2>5 DEF RevokeOnDelete, DeletionFinal, Deleting
      <3> QED BY <2>1, <3>1 DEF UpToDate
    <2> QED BY <2>3, <2>4, <2>5, RevokedSteps
  <1>3. CASE ECWrite
    <2>1. pc \in ECWrites /\ Server' = desired /\ Server = ec
      BY <1>3, ECWriteServer DEF ECWrite
    <2>2. revoked' = revoked
      BY <2>1, RevokedSteps DEF RevokePrevious, RevokeOnDelete, ECWrites
    <2>3. TokensIn(Secret(n))' \subseteq TokensIn(Secret(n))
      BY <2>1, SecretTokens DEF WroteOnly, Shrink, ECWrites
    <2>4. TokensIn(Secret(n)) \cap revoked = {}
      <3>1. CASE pc = "updateStatus"
        <4>1. n = ec.spec.target
          BY <2>1, DesiredFields
        <4> QED BY <3>1, <4>1 DEF InHand, Minted, Published
      <3>2. CASE pc # "updateStatus"
        <4>1. UpToDate /\ n = Server.spec.target
          BY <2>1, <3>2, DesiredFields DEF UpToDate
        <4> QED BY <1>1, <4>1
      <3> QED BY <3>1, <3>2
    <2> QED BY <2>2, <2>3, <2>4
  <1> QED BY <1>2, <1>3, ECSteps, ServerKept, EditedNotUpToDate

LEMMA StartIInv ==
    ASSUME NEW c, Starts(c)
    PROVE  IInv
  <1> USE DEF Starts
  <1>1. TypeOK /\ RunOK /\ HandlesMinted
    BY StartType DEF TypeInv
  <1>2. PICK secrets \in InitialSecrets : secw = [n \in Names |-> <<secrets[n]>>]
    OBVIOUS
  <1>3. Len(ecw) = 1 /\ ecw[1] = c /\ Server = c
    BY DEF Server
  <1>4. /\ ~Server.deleting /\ Server.generation \in Nat
        /\ Server.status.expiresAt = NoTime
        /\ Server.status.observedGeneration = 0
    BY <1>3 DEF Unused, Credentials
  <1>5. FreshCopy /\ InHand /\ RevokesOther
    BY DEF FreshCopy, InHand, RevokesOther, Minted, Published
  <1>6. Observed
    BY <1>4 DEF Observed
  <1>7. PublishedNotRevoked
    BY <1>4 DEF PublishedNotRevoked, UpToDate
  <1>8. DeletionFinal
    BY <1>3, <1>4 DEF DeletionFinal, Deleting, NilEC, NewEC
  <1>9. TokensManaged
    <2>1. \A n \in Names : TokensIn(secrets[n]) = {}
      BY InitialSecretsAssumption
    <2>2. \A n \in Names : \A k \in DataKeys : secrets[n].data[k] \in {Empty, Foreign}
      BY <2>1 DEF TokensIn
    <2>3. \A n \in Names : Len(secw[n]) = 1 /\ secw[n][1] = secrets[n]
      BY <1>2
    <2> QED BY <2>2, <2>3 DEF TokensManaged
  <1> QED BY <1>1, <1>5, <1>6, <1>7, <1>8, <1>9 DEF IInv

LEMMA IInvInit == Init => IInv
  BY InitStarts, StartIInv

LEMMA IInvStep == IInv /\ [Next]_vars => IInv'
  <1> SUFFICES ASSUME IInv, [Next]_vars PROVE IInv'
    OBVIOUS
  <1>1. CASE Next
    <2>1. TypeOK' /\ RunOK' /\ HandlesMinted'
      BY <1>1, TypeStep DEF IInv, TypeInv
    <2>2. FreshCopy' /\ Observed' /\ DeletionFinal'
      BY <1>1, FreshCopyStep, ObservedStep, DeletionFinalStep DEF IInv
    <2>3. TokensManaged' /\ InHand' /\ RevokesOther'
      BY <1>1, SecretTokens, InHandStep, RevokesOtherStep DEF IInv
    <2>4. PublishedNotRevoked'
      BY <1>1, PublishedStep DEF IInv
    <2> QED BY <2>1, <2>2, <2>3, <2>4 DEF IInv
  <1>2. CASE UNCHANGED vars
    <2> USE <1>2 DEF vars, cluster, locals, queue, timer, provider
    <2>1. TypeOK' /\ RunOK' /\ HandlesMinted'
      BY TypeStep DEF IInv, TypeInv
    <2>2. FreshCopy' /\ Observed' /\ DeletionFinal'
      BY DEF IInv, FreshCopy, Observed, DeletionFinal, Server
    <2>3. TokensManaged' /\ InHand' /\ RevokesOther'
      BY DEF IInv, TokensManaged, InHand, RevokesOther, TokensIn, Secret,
             UpToDate, Server
    <2>4. PublishedNotRevoked'
      BY DEF IInv, PublishedNotRevoked, UpToDate, Target, Secret, Server, TokensIn
    <2> QED BY <2>1, <2>2, <2>3, <2>4 DEF IInv
  <1> QED BY <1>1, <1>2

\* Reconcile revokes previousHandle only after the new credential is in the
\* Secret and recorded in status, and reconcileDelete revokes only for a
\* resource that is going: whatever users, failures, crashes and stale caches
\* do in between, the Secret of a spec the controller has handled never holds
\* a revoked credential.
THEOREM RevokedNeverPublished == Spec => []PublishedNotRevoked
  <1>1. IInv => PublishedNotRevoked
    BY DEF IInv
  <1> QED BY <1>1, IInvInit, IInvStep, PTL DEF Spec
----------------------------------------------------------------------------
(* Others may write Secrets, too. *)

\* A step in which somebody else stores versions of Secrets that disclose no
\* token of this resource that was not disclosed before, and puts nothing but
\* values of their own into a Secret that stays ours.
Shrunk(v, s) ==
    /\ v \in Secrets /\ TokensIn(v) \subseteq TokensIn(s) /\ Managed(v)
    /\ v.owner = "ec" =>
          /\ s.owner = "ec"
          /\ \A k \in DataKeys : v.data[k] \in {s.data[k], Foreign}

OthersStep ==
    /\ UNCHANGED <<now, ecw, locals, queue, provider>>
    /\ used' \in Nat
    /\ secw' = [n \in Names |-> secw'[n]]
    /\ \A n \in Names :
          \/ secw'[n] = secw[n]
          \/ \E v : Shrunk(v, Secret(n)) /\ secw'[n] = Append(secw[n], v)

LEMMA OthersSecrets ==
    ASSUME TypeOK, TokensManaged, OthersStep
    PROVE  /\ TypeOK' /\ TokensManaged' /\ Shrink
  <1>t. \A n \in Names : /\ secw[n] \in Seq(Secrets)
                         /\ Len(secw[n]) \in Nat /\ Len(secw[n]) >= 1
    BY DEF TypeOK
  <1>1. ASSUME NEW n \in Names
        PROVE  /\ secw'[n] \in Seq(Secrets) /\ Len(secw'[n]) >= 1
               /\ TokensIn(Secret(n))' \subseteq TokensIn(Secret(n))
               /\ \A i \in 1..Len(secw'[n]) : Managed(secw'[n][i])
    <2>1. \A i \in 1..Len(secw[n]) : Managed(secw[n][i])
      BY DEF TokensManaged, Managed
    <2>2. CASE secw'[n] = secw[n]
      BY <1>t, <2>1, <2>2 DEF Secret, TokensIn
    <2>3. ASSUME NEW v, Shrunk(v, Secret(n)), secw'[n] = Append(secw[n], v)
          PROVE  /\ secw'[n] \in Seq(Secrets) /\ Len(secw'[n]) >= 1
                 /\ TokensIn(Secret(n))' \subseteq TokensIn(Secret(n))
                 /\ \A i \in 1..Len(secw'[n]) : Managed(secw'[n][i])
      <3>1. /\ secw'[n] \in Seq(Secrets) /\ Len(secw'[n]) = Len(secw[n]) + 1
            /\ secw'[n][Len(secw[n]) + 1] = v
            /\ \A i \in 1..Len(secw[n]) : secw'[n][i] = secw[n][i]
        BY <1>t, <2>3 DEF Shrunk
      <3>2. \A i \in 1..Len(secw'[n]) :
              i \in 1..Len(secw[n]) \/ i = Len(secw[n]) + 1
        BY <1>t, <3>1
      <3>3. Secret(n)' = v
        BY <3>1 DEF Secret
      <3>4. TokensIn(Secret(n))' = TokensIn(v)
        BY <3>3 DEF TokensIn
      <3> QED BY <1>t, <2>1, <2>3, <3>1, <3>2, <3>4 DEF Shrunk
    <2> QED BY <2>2, <2>3 DEF OthersStep
  <1>2. secw' \in [Names -> Seq(Secrets)]
    BY <1>1 DEF OthersStep
  <1>3. TypeOK'
    BY <1>1, <1>2 DEF OthersStep, locals, queue, timer, provider, TypeOK, LocalsOK
  <1>4. TokensManaged'
    BY <1>1 DEF TokensManaged, Managed
  <1> QED BY <1>1, <1>3, <1>4 DEF Shrink

\* Such steps do no harm.
LEMMA OthersKeepIInv ==
    ASSUME IInv, OthersStep
    PROVE  IInv'
  <1>1. TypeOK' /\ TokensManaged' /\ Shrink
    BY OthersSecrets DEF IInv
  <1>u. /\ UNCHANGED <<now, ecw, pc, ec, fresh, token, previous, started,
                       ledger, revoked>>
        /\ Server' = Server
    BY DEF OthersStep, locals, provider, Server
  <1>2. RunOK' /\ HandlesMinted'
    BY <1>u DEF IInv, RunOK, HandlesMinted
  <1>3. FreshCopy' /\ Observed' /\ DeletionFinal' /\ RevokesOther'
    BY <1>u DEF IInv, FreshCopy, Observed, DeletionFinal, RevokesOther, UpToDate
  <1>4. InHand'
    BY <1>u, <1>1 DEF IInv, InHand, Shrink
  <1>5. PublishedNotRevoked'
    <2> SUFFICES ASSUME UpToDate', NEW n \in Names, n = Server'.spec.target
                 PROVE  TokensIn(Secret(n))' \cap revoked' = {}
      BY DEF PublishedNotRevoked, UpToDate, Target, Secret, TokensIn
    <2>1. TokensIn(Secret(n)) \cap revoked = {}
      BY <1>u DEF IInv, PublishedNotRevoked, UpToDate, Target
    <2> QED BY <1>u, <1>1, <2>1 DEF Shrink
  <1> QED BY <1>1, <1>2, <1>3, <1>4, <1>5 DEF IInv

\* What this resource in turn may make of a Secret: it goes, a user edits it,
\* or writeTargetSecret writes it unless another resource controls it.
Edited(v, s) ==
    /\ v.exists /\ v.owner = s.owner /\ v.managed = s.managed
    /\ \A k \in DataKeys : v.data[k] \in {s.data[k], Foreign}

Stored(v, s) ==
    /\ v \in Secrets
    /\ \/ v = NoSecret
       \/ Edited(v, s)
       \/ s.owner # "other" /\ \E keys \in KeyMaps, t \in Nat : v = mutate(s, keys, t)

\* A Secret that does not exist has nothing in it.
Absent ==
    \A n \in Names : \A i \in 1..Len(secw[n]) :
        ~secw[n][i].exists => secw[n][i] = NoSecret

LEMMA OwnSecrets ==
    ASSUME TypeOK, Absent, OwnStep, NEW n \in Names
    PROVE  \/ secw'[n] = secw[n]
           \/ \E v : Stored(v, Secret(n)) /\ secw'[n] = Append(secw[n], v)
  <1>t. secw \in [Names -> Seq(Secrets)] /\ Len(secw[n]) \in Nat /\ Len(secw[n]) >= 1
    BY DEF TypeOK
  <1>p. ASSUME NEW m \in Names, NEW v, PutSecret(m, v)
        PROVE  secw'[n] = secw[n] \/ (m = n /\ secw'[n] = Append(secw[n], v))
    BY <1>t, <1>p DEF PutSecret
  <1>1. ASSUME NEW m \in Names, PutSecret(m, NoSecret)
        PROVE  \/ secw'[n] = secw[n]
               \/ \E v : Stored(v, Secret(n)) /\ secw'[n] = Append(secw[n], v)
    <2>1. Stored(NoSecret, Secret(n))
      BY NoSecretType DEF Stored
    <2> QED BY <1>p, <1>1, <2>1
  <1>2. ASSUME NEW m \in Names, UserEditsSecret(m)
        PROVE  \/ secw'[n] = secw[n]
               \/ \E v : Stored(v, Secret(n)) /\ secw'[n] = Append(secw[n], v)
    <2>1. PICK k \in DataKeys :
            PutSecret(m, [Secret(m) EXCEPT !.exists = TRUE, !.data[k] = Foreign])
      BY <1>2 DEF UserEditsSecret
    <2> DEFINE v == [Secret(m) EXCEPT !.exists = TRUE, !.data[k] = Foreign]
    <2>2. v \in Secrets
      BY WindowTypes, EditedSecretType
    <2>3. Edited(v, Secret(m))
      BY WindowTypes DEF Edited, Secrets
    <2>4. Stored(v, Secret(m)) /\ PutSecret(m, v)
      BY <2>1, <2>2, <2>3 DEF Stored
    <2> HIDE DEF v
    <2> QED BY <1>p, <2>4
  <1>3. CASE writeTargetSecret
    <2>1. PICK m \in Names : m = ec.spec.target
      BY <1>3 DEF writeTargetSecret, SecretWritable
    <2> DEFINE v == mutate(CachedSecret(m), ec.spec.keys, token)
    <2>2. PutSecret(m, v) /\ SecretWritable(m)
      BY <1>3, <2>1 DEF writeTargetSecret
    <2>3. ec.spec.keys \in KeyMaps /\ token \in Nat
      BY SpecFields DEF TypeOK, LocalsOK
    <2>4. v \in Secrets
      BY <2>3, WindowTypes, MutateType
    <2>5. CachedSecret(m) = Secret(m)
      <3>1. secw[m] \in Seq(Secrets) /\ Len(secw[m]) \in Nat /\ Len(secw[m]) >= 1
        BY DEF TypeOK
      <3>2. 1 \in 1..Len(secw[m]) /\ Len(secw[m]) \in 1..Len(secw[m])
        BY <3>1
      <3>3. CASE Len(secw[m]) = 1
        BY <3>3 DEF CachedSecret, Secret
      <3>4. CASE ~CachedSecret(m).exists /\ ~Secret(m).exists
        <4>1. CachedSecret(m) = NoSecret /\ Secret(m) = NoSecret
          BY <3>2, <3>4 DEF Absent, CachedSecret, Secret
        <4> QED BY <4>1
      <3> QED BY <2>2, <3>3, <3>4 DEF SecretWritable
    <2>6. Secret(m).owner # "other"
      BY <2>2, <2>5 DEF SecretWritable
    <2>7. Stored(v, Secret(m))
      BY <2>3, <2>4, <2>5, <2>6 DEF Stored
    <2> HIDE DEF v
    <2> QED BY <1>p, <2>2, <2>7
  <1>4. CASE secw' = secw
    BY <1>4
  <1> QED BY <1>1, <1>2, <1>3, <1>4, OwnSecretSteps

=============================================================================
