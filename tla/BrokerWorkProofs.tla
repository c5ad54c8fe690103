-------------------------- MODULE BrokerWorkProofs --------------------------
(***************************************************************************)
(* How the controller works, for every choice of the constants: whatever   *)
(* happens it is woken again while there is work to do and in time for the *)
(* next rotation, it does not mint more often than the lifetimes granted   *)
(* call for, it keeps to the contract of the provider, and it comes to     *)
(* rest only when its consumers are served.                                *)
(***************************************************************************)
EXTENDS BrokerSafetyProofs, SequenceTheorems

----------------------------------------------------------------------------
(* What the queue holds. *)

\* A failure that is not retried is that of an unknown provider.
UnknownFails ==
    pc \in {"deleteExpired", "failStatus"} /\ ~fail.retry
        => ec.spec.provider \notin Registered /\ ~ec.deleting

\* A resource that is being deleted and still there is held by our finalizer.
DeletionHeld == Server.exists /\ Server.deleting => Server.finalizer

\* A credential that has just been minted is not the recorded one, so that
\* recording it changes the resource: the event finds the reconcile still
\* running or puts the key back into the queue.
StatusNotified ==
    /\ pc \in {"writeSecret", "persistHandle"} => ec.handle # token
    /\ pc \in {"updateStatus", "revokePrevious"} => queued \/ Len(ecw) > 1

\* No reconcile runs or is queued, and none will be for the resource itself.
Asleep == pc = "idle" /\ ~queued /\ Len(ecw) = 1

Woken ==
    /\ Asleep
    /\ Server.exists
    /\ Server.deleting \/ Server.spec.provider \in Registered
    => wakeAt # NoTime

\* If a timer is set, it is for the opening of the window, or for a retry.
Timely ==
    /\ Asleep
    /\ UpToDate
    /\ Server.spec.provider \in Registered
    => RetrySoon \/ wakeAt < RotationBound(Server)

WorkInv ==
    /\ IInv
    /\ UnknownFails /\ DeletionHeld /\ StatusNotified /\ Woken /\ Timely

----------------------------------------------------------------------------
(* What the provider is asked. *)

\* Credentials are minted in the past.
MintedPast == \A t \in 1..Len(ledger) : ledger[t].mintedAt <= now

\* Mint is called of registered providers, with nothing in hand.
CallsKnown ==
    /\ pc \in {"idle", "mint"} => token = 0
    /\ pc = "mint" => ec.spec.provider \in Registered

----------------------------------------------------------------------------
(* What the Secret holds while the controller rests. *)

\* Every key of this mapping holds a token, in a Secret that is ours.
Filled(s, keys) ==
    /\ s.owner = "ec"
    /\ \A k \in written(keys) : s.data[k] \notin {Empty, Foreign}

\* Nobody but Reconcile writes Secrets, so a version that follows another is
\* ours or none.
OursOrNone ==
    \A n \in Names : \A i \in 2..Len(secw[n]) :
        secw[n][i].exists => secw[n][i].owner = "ec"

\* Between cache and server there is a version of ours, whose passing the
\* watch reports, or nothing but absence.
Reported(n) ==
    \E i \in 1..Len(secw[n]) : secw[n][i].exists /\ secw[n][i].owner = "ec"
Traced(n) == Reported(n) \/ \A i \in 1..Len(secw[n]) : ~secw[n][i].exists

\* What has been published is there in full, or is gone, and the watch tells.
PublishedWhole ==
    pc \in Published => \A n \in Names : n = ec.spec.target =>
        /\ Secret(n).exists => Filled(Secret(n), ec.spec.keys)
        /\ Traced(n)

CurrentWhole ==
    UpToDate => \A n \in Names : n = Server.spec.target =>
        /\ Secret(n).exists => Filled(Secret(n), Server.spec.keys)
        /\ Traced(n)

\* As long as the Secret is ours no key of this mapping is without a value,
\* be it the token or what somebody has put in its place.
Complete(s, keys) == s.owner = "ec" => \A k \in written(keys) : s.data[k] # Empty

PublishedComplete ==
    pc \in Published => \A n \in Names : n = ec.spec.target =>
        Complete(Secret(n), ec.spec.keys)

CurrentComplete ==
    UpToDate => \A n \in Names : n = Server.spec.target =>
        Complete(Secret(n), Server.spec.keys)

\* Credentials are minted, and status describes them, for known providers.
ProviderKnown ==
    /\ pc \in {"mint"} \cup Minted => ec.spec.provider \in Registered
    /\ UpToDate => Server.spec.provider \in Registered

\* Asleep over a resource of a known provider, with no retry to come.
Rests ==
    /\ Asleep
    /\ Server.exists /\ ~Server.deleting
    /\ Server.spec.provider \in Registered
    /\ ~retrying

\* Then status describes the current spec, the timer is set for the rotation
Rested == Rests => UpToDate /\ wakeAt < RotationBound(Server)

\* and, if nobody else has meddled, the Secret was there.
Attended == Rests => Reported(Server.spec.target)

\* Grants outlast the shortest delay, and d more, by so much that half of what
\* status keeps of them does too, and so do the windows of specs.
AmpleFor(d) ==
    /\ \A l \in Lifetimes : l - (Second - 1) >= 2 * (MinRequeueAfter + d)
    /\ \A s \in Specs : requestedRotateBefore(s.rotateBeforeSeconds)
                           >= MinRequeueAfter + d

AmpleWindows == AmpleFor(0)

\* A credential is minted after Reconcile has read the clock.
StartedBefore ==
    /\ pc # "idle" => started <= now
    /\ pc \in Minted => \E l \in Lifetimes : started + l <= ledger[token].expiry

\* What status keeps of the lifetime is nothing or twice the shortest delay,
\* and d more.
GrantCovers(d) ==
    \/ grantedLifetime(Server.status) <= 0
    \/ grantedLifetime(Server.status) >= 2 * (MinRequeueAfter + d)

GrantKept == GrantCovers(0)

\* The keys Reconcile writes are left to it: a Secret that somebody edits is
\* not written again before the rotation is due.
NoEdits == "editSecret" \notin Disturbances

ServedInv ==
    /\ KeysInv /\ WorkInv
    /\ OursOrNone /\ PublishedWhole /\ CurrentWhole /\ Rested /\ Attended

GrantInv == IInv /\ StartedBefore /\ GrantKept

\* What a resource sees to whatever others do to its Secret.
CareInv ==
    /\ LifeInv /\ ExpiryInv /\ GrantInv /\ WorkInv
    /\ PublishedComplete /\ CurrentComplete /\ ProviderKnown /\ Rested

\* The keys of the current spec hold a token that is good.
ServedNow ==
    \A k \in written(Server.spec.keys) :
        /\ Target.data[k] \in (1..Len(ledger)) \ revoked
        /\ now < ledger[Target.data[k]].expiry

----------------------------------------------------------------------------
(* The controller is woken again. *)

\* How a step leaves nothing running and nothing queued.
LEMMA QuietSteps ==
    ASSUME Next, pc' = "idle", ~queued'
    PROVE  \/ /\ pc = "idle" /\ ~queued /\ UNCHANGED <<wakeAt, retrying>>
              /\ ecw' = ecw \/ EditSpec \/ DeleteEC
           \/ ReconcileGone \/ ReconcileSteady
           \/ ReturnRateLimited
           \/ RevokePrevious \/ RemoveFinalizer
           \/ FailStatus /\ ~fail.retry
  <1> USE DEF cluster, queue, timer, provider, locals
  <1>1. CASE Reconcile
    BY <1>1 DEF Reconcile, ReconcileDelete, ReconcileNew,
         ReconcileUnknownProvider, failStatus, ReconcileMint, GoTo
  <1>2. CASE AddFinalizer \/ SetPending \/ DeleteSecretFails \/ ECWriteFails
             \/ ECWriteLost \/ FailStatus \/ RemoveFinalizer \/ RevokePrevious
    BY <1>2 DEF AddFinalizer, SetPending, DeleteSecretFails, ECWriteFails,
         ECWriteLost, FailStatus
  <1>3. CASE Mint \/ MintFails \/ MintLost \/ WriteSecret \/ WriteSecretFails
             \/ WriteSecretLost \/ PersistHandle \/ UpdateStatus
             \/ DeleteExpired \/ RevokeOnDelete \/ DeleteSecret
    BY <1>3 DEF Mint, MintFails, MintLost, WriteSecret, WriteSecretFails,
         WriteSecretLost, PersistHandle, UpdateStatus, Put, DeleteExpired,
         RevokeOnDelete, DeleteSecret, Fail, failStatus
  <1>4. CASE Deliveries \/ Users \/ Resync \/ Crash \/ Tick
             \/ \E n \in Names : GarbageCollect(n)
    BY <1>4 DEF Deliveries, DeliverEC, TimerFires, DeliverSecret, Users,
         EditSpec, DeleteEC, UserDeletesSecret, UserEditsSecret, Resync, Crash,
         Tick, GarbageCollect
  <1> QED BY <1>1, <1>2, <1>3, <1>4 DEF Next, Calls

\* How a failed reconcile comes to report its failure.
LEMMA FailSteps ==
    ASSUME Next, pc' \in {"deleteExpired", "failStatus"}
    PROVE  \/ ReconcileUnknownProvider
           \/ fail'.retry
           \/ /\ pc \in {"deleteExpired", "failStatus"}
              /\ UNCHANGED <<ec, fail>>
  <1> USE DEF locals
  <1>1. CASE Reconcile
    BY <1>1 DEF Reconcile, ReconcileGone, ReconcileDelete, ReconcileNew,
         ReconcileSteady, ReconcileMint, ReturnNil, ReturnAfter, EndRun, GoTo
  <1>2. CASE MintFails \/ MintLost \/ WriteSecretFails \/ WriteSecretLost
    <2>1. failStatus(ec, TRUE)
      BY <1>2 DEF MintFails, MintLost, WriteSecretFails, WriteSecretLost, Fail
    <2> QED BY <2>1 DEF failStatus
  <1>3. CASE AddFinalizer \/ SetPending \/ Mint \/ WriteSecret
             \/ PersistHandle \/ UpdateStatus \/ RevokePrevious
             \/ DeleteExpired \/ FailStatus \/ RevokeOnDelete \/ DeleteSecret
             \/ DeleteSecretFails \/ RemoveFinalizer \/ ECWriteFails
             \/ ECWriteLost
    BY <1>3 DEF AddFinalizer, SetPending, Mint, WriteSecret, PersistHandle,
         UpdateStatus, Put, RevokePrevious, DeleteExpired, FailStatus,
         RevokeOnDelete, DeleteSecret, DeleteSecretFails, RemoveFinalizer,
         ECWriteFails, ECWriteLost, ReturnNil, ReturnAfter, ReturnRateLimited,
         EndRun
  <1>4. CASE Deliveries \/ Users \/ Resync \/ Crash \/ Tick
             \/ \E n \in Names : GarbageCollect(n)
    BY <1>4 DEF Deliveries, DeliverEC, TimerFires, DeliverSecret, Users,
         EditSpec, DeleteEC, UserDeletesSecret, UserEditsSecret, Resync, Crash,
         Tick, GarbageCollect, EndRun
  <1> QED BY <1>1, <1>2, <1>3, <1>4 DEF Next, Calls

LEMMA UnknownFailsStep ==
    ASSUME UnknownFails, Next
    PROVE  UnknownFails'
  <1> SUFFICES ASSUME pc' \in {"deleteExpired", "failStatus"}, ~fail'.retry
               PROVE  ec'.spec.provider \notin Registered /\ ~ec'.deleting
    BY DEF UnknownFails
  <1>1. CASE ReconcileUnknownProvider
    BY <1>1 DEF ReconcileUnknownProvider, Ours, ReadEC
  <1>2. CASE pc \in {"deleteExpired", "failStatus"} /\ UNCHANGED <<ec, fail>>
    BY <1>2 DEF UnknownFails
  <1> QED BY <1>1, <1>2, FailSteps

LEMMA DeletionHeldStep ==
    ASSUME TypeOK, RunOK, FreshCopy, DeletionHeld, Next
    PROVE  DeletionHeld'
  <1>1. CASE Server' = Server
    BY <1>1 DEF DeletionHeld
  <1>2. CASE ECWrite
    <2>1. pc \in ECWrites /\ Server' = desired /\ Server = ec
      BY <1>2, ECWriteServer DEF ECWrite
    <2> QED BY <2>1, DesiredFields, DesiredLife DEF DeletionHeld
  <1>3. CASE EditSpec
    <2>1. PICK s \in Specs :
            PutEC([Server EXCEPT !.spec = s, !.generation = @ + 1])
      BY <1>3 DEF EditSpec
    <2>2. Server' = [Server EXCEPT !.spec = s, !.generation = @ + 1]
      BY <2>1, WindowTypes, EditedTypes, PutECType
    <2> QED BY <2>2, WindowTypes DEF DeletionHeld, Credentials
  <1>4. CASE DeleteEC
    <2> DEFINE d == [Server EXCEPT !.deleting = TRUE, !.generation = @ + 1]
               g == [Server EXCEPT !.exists = FALSE]
    <2>1. d \in Credentials /\ g \in Credentials
      BY WindowTypes, EditedTypes
    <2>2. d.finalizer = Server.finalizer /\ ~g.exists
      BY WindowTypes DEF Credentials
    <2>3. PutEC(IF Server.finalizer THEN d ELSE g)
      BY <1>4 DEF DeleteEC
    <2> HIDE DEF d, g
    <2> QED BY <2>1, <2>2, <2>3, PutECType DEF DeletionHeld
  <1> QED BY <1>1, <1>2, <1>3, <1>4, ECSteps, ServerKept

\* While a reconcile runs nobody takes the key off the queue.
LEMMA QueuedSteps ==
    ASSUME Next, pc # "idle", queued
    PROVE  queued'
  BY DEF Next, Reconcile, Dequeue, ReconcileGone, ReconcileDelete,
     ReconcileNew, ReconcileUnknownProvider, ReconcileSteady, ReconcileMint,
     Calls, AddFinalizer, SetPending, Mint, MintFails, MintLost,
     WriteSecret, WriteSecretFails, WriteSecretLost, PersistHandle,
     UpdateStatus, Put, RevokePrevious, DeleteExpired, FailStatus,
     RevokeOnDelete, DeleteSecret, DeleteSecretFails, RemoveFinalizer,
     ECWriteFails, ECWriteLost, Deliveries, DeliverEC, TimerFires,
     DeliverSecret, Users, EditSpec, DeleteEC, UserDeletesSecret,
     UserEditsSecret, Resync, Crash, Tick, GarbageCollect, queue

LEMMA StatusNotifiedStep ==
    ASSUME TypeOK, RunOK, FreshCopy, HandlesMinted, StatusNotified, Next
    PROVE  StatusNotified'
  <1>t. ecw \in Seq(Credentials) /\ Len(ecw) \in Nat /\ Len(ecw) >= 1
    BY DEF TypeOK
  <1>p. ASSUME NEW v, PutEC(v)
        PROVE  Len(ecw') > 1
    BY <1>t, <1>p DEF PutEC
  <1>k. ASSUME queued \/ Len(ecw) > 1, pc # "idle"
        PROVE  queued' \/ Len(ecw') > 1
    <2>1. CASE queued
      BY <1>k, <2>1, QueuedSteps
    <2>2. CASE Len(ecw) > 1
      <3>1. CASE ecw' = ecw
        BY <2>2, <3>1
      <3>2. CASE DeliverEC \/ Crash
        BY <3>2 DEF DeliverEC, Crash
      <3>3. CASE ECWrite \/ EditSpec \/ DeleteEC
        BY <1>p, <2>2, <3>3 DEF ECWrite, EditSpec, DeleteEC
      <3> QED BY <3>1, <3>2, <3>3, ECSteps
    <2> QED BY <1>k, <2>1, <2>2
  <1>1. ASSUME pc' \in {"writeSecret", "persistHandle"}
        PROVE  ec'.handle # token'
    <2>1. CASE Mint
      <3>1. token' = Len(ledger) + 1 /\ ec' = ec
        BY <2>1 DEF Mint
      <3>2. ec.handle <= Len(ledger) /\ ec.handle \in Nat /\ Len(ledger) \in Nat
        BY DEF HandlesMinted, TypeOK, LocalsOK, Credentials
      <3> QED BY <3>1, <3>2
    <2>2. CASE WriteSecret
      BY <2>2 DEF WriteSecret, StatusNotified
    <2>3. ~PersistHandle /\ ~UpdateStatus
      BY <1>1 DEF PersistHandle, UpdateStatus, Put
    <2> QED BY <1>1, <2>1, <2>2, <2>3, MintedSteps DEF Minted, StatusNotified
  <1>2. ASSUME pc' \in {"updateStatus", "revokePrevious"}
        PROVE  queued' \/ Len(ecw') > 1
    <2>1. CASE PersistHandle
      <3>1. pc = "persistHandle" /\ StoreEC /\ fresh
        BY <2>1 DEF PersistHandle, Put, Accepted
      <3>2. Server = ec
        BY <3>1 DEF FreshCopy
      <3>3. desired.handle = token /\ ec.handle # token
        BY <3>1, DesiredFields DEF StatusNotified, ECWrites
      <3>4. PutEC(desired)
        BY <3>1, <3>2, <3>3 DEF StoreEC
      <3> QED BY <1>p, <3>4
    <2>2. CASE UpdateStatus
      BY <1>2, <1>k, <2>2 DEF UpdateStatus, StatusNotified
    <2>3. CASE UNCHANGED pc
      BY <1>2, <1>k, <2>3 DEF StatusNotified
    <2>4. ~Mint /\ ~WriteSecret
      BY <1>2 DEF Mint, WriteSecret
    <2> QED BY <1>2, <2>1, <2>2, <2>3, <2>4, MintedSteps DEF Minted
  <1> QED BY <1>1, <1>2 DEF StatusNotified

\* The delaying queue keeps the earlier time, and never none.
LEMMA Scheduled ==
    ASSUME TypeOK, NEW d \in Nat, ReturnAfter(d)
    PROVE  wakeAt' # NoTime /\ wakeAt' <= now + d
  <1>1. now \in Nat /\ wakeAt \in Int
    BY DEF TypeOK, Times
  <1> QED BY <1>1 DEF ReturnAfter, Schedule, Earliest, NoTime

LEMMA RateLimited ==
    ASSUME TypeOK, ReturnRateLimited
    PROVE  /\ wakeAt' # NoTime /\ retrying'
           /\ \E d \in BackoffDelays : wakeAt' <= now + d
  <1>1. now \in Nat /\ wakeAt \in Int
    BY DEF TypeOK, Times
  <1>2. PICK d \in BackoffDelays : Schedule(d) /\ d \in Nat
    BY BackoffAssumption DEF ReturnRateLimited
  <1>3. wakeAt' # NoTime /\ wakeAt' <= now + d
    BY <1>1, <1>2 DEF Schedule, Earliest, NoTime
  <1> QED BY <1>3 DEF ReturnRateLimited

\* The ways to go to sleep on an unchanged resource.
LEMMA AsleepSteps ==
    ASSUME TypeOK, FreshCopy, UnknownFails, StatusNotified, Next, Asleep'
    PROVE  /\ Server' = Server
           /\ \/ Asleep /\ UNCHANGED <<wakeAt, retrying>>
              \/ ReconcileGone /\ Cached = Server
              \/ ReconcileSteady /\ Cached = Server
              \/ ReturnRateLimited
              \/ Server.spec.provider \notin Registered /\ ~Server.deleting
  <1>t. ecw \in Seq(Credentials) /\ Len(ecw) \in Nat /\ Len(ecw) >= 1
    BY DEF TypeOK
  <1>p. ASSUME NEW v PROVE ~PutEC(v)
    BY <1>t DEF PutEC, Asleep
  <1>0. ~EditSpec /\ ~DeleteEC /\ (ECWrite => ecw' = ecw)
    BY <1>p DEF ECWrite, EditSpec, DeleteEC
  <1>1. Server' = Server
    BY <1>0, ECSteps, ServerKept
  <1>2. CASE /\ pc = "idle" /\ ~queued /\ UNCHANGED <<wakeAt, retrying>>
             /\ ecw' = ecw
    BY <1>1, <1>2 DEF Asleep
  <1>3. CASE ReconcileGone \/ ReconcileSteady
    <2>1. ecw' = ecw
      BY <1>3 DEF ReconcileGone, ReconcileSteady, Dequeue, cluster
    <2>2. Cached = Server
      BY <2>1 DEF Asleep, Cached, Server
    <2> QED BY <1>1, <1>3, <2>2
  <1>4. ~RevokePrevious
    <2> SUFFICES ASSUME RevokePrevious PROVE FALSE
      OBVIOUS
    <2>1. pc = "revokePrevious" /\ queued' = queued /\ ecw' = ecw
      BY DEF RevokePrevious, cluster
    <2>2. ~(Len(ecw) > 1)
      BY <2>1 DEF Asleep
    <2>3. queued
      BY <2>1, <2>2 DEF StatusNotified
    <2> QED BY <2>1, <2>3 DEF Asleep
  <1>5. ~RemoveFinalizer
    BY <1>p DEF RemoveFinalizer
  <1>6. CASE FailStatus /\ ~fail.retry
    <2>1. pc = "failStatus" /\ ec = Server
      BY <1>6 DEF FailStatus, Accepted, FreshCopy
    <2> QED BY <1>1, <1>6, <2>1 DEF UnknownFails
  <1> QED BY <1>0, <1>1, <1>2, <1>3, <1>4, <1>5, <1>6, QuietSteps DEF Asleep

LEMMA WokenStep ==
    ASSUME TypeOK, FreshCopy, UnknownFails, DeletionHeld, StatusNotified, Woken,
           Next
    PROVE  Woken'
  <1> SUFFICES ASSUME Asleep', Server'.exists,
                      Server'.deleting \/ Server'.spec.provider \in Registered
               PROVE  wakeAt' # NoTime
    BY DEF Woken
  <1>0. Server' = Server
    BY AsleepSteps
  <1>1. CASE Asleep /\ UNCHANGED <<wakeAt, retrying>>
    BY <1>0, <1>1 DEF Woken
  <1>2. ~(ReconcileGone /\ Cached = Server)
    BY <1>0 DEF ReconcileGone, DeletionHeld
  <1>3. CASE ReconcileSteady
    <2>1. RotationDelay(Cached) \in Nat
      BY RotationDelayType, WindowTypes
    <2> QED BY <1>3, <2>1, Scheduled DEF ReconcileSteady
  <1>4. CASE ReturnRateLimited
    BY <1>4, RateLimited
  <1> QED BY <1>0, <1>1, <1>2, <1>3, <1>4, AsleepSteps

\* The window of a status is a number.
LEMMA StatusWindowType ==
    ASSUME NEW c \in Credentials
    PROVE  /\ statusWindow(c.spec.rotateBeforeSeconds, c.status) \in Int
           /\ c.status.expiresAt \in Int
  <1> DEFINE req == requestedRotateBefore(c.spec.rotateBeforeSeconds)
             g == grantedLifetime(c.status)
  <1>1. c.status.expiresAt \in Int /\ c.status.lastRotatedAt \in Int
    BY DEF Credentials, Statuses, Times
  <1>2. req \in Nat
    BY SpecFields, RequestedPositive
  <1>3. g \in Int
    BY <1>1 DEF grantedLifetime
  <1> HIDE DEF req, g
  <1>4. clampRotateBefore(req, g) \in Int
    BY <1>2, <1>3, ClampBounds
  <1> QED BY <1>1, <1>4 DEF statusWindow, req, g

\* A reconcile that finds the credential in order sleeps until its window.
LEMMA SteadyWake ==
    ASSUME TypeOK, ReconcileSteady
    PROVE  wakeAt' < RotationBound(Cached)
  <1> DEFINE w == statusWindow(Cached.spec.rotateBeforeSeconds, Cached.status)
             e == Cached.status.expiresAt
  <1>1. Cached \in Credentials /\ now \in Nat
    BY WindowTypes DEF TypeOK
  <1>2. w \in Int /\ e \in Int
    BY <1>1, StatusWindowType
  <1>3. ~(now + w >= e)
    BY DEF ReconcileSteady, MustMint, needsMint, windowOpen
  <1>4. ReturnAfter(RotationDelay(Cached)) /\ RotationDelay(Cached) \in Nat
    BY <1>1, RotationDelayType DEF ReconcileSteady
  <1>5. wakeAt' <= now + RotationDelay(Cached) /\ wakeAt' \in Int
    BY <1>4, Scheduled, ReturnAfterType DEF TimerOK, Times
  <1>6. RotationDelay(Cached) = requeueAfter(e, w, now)
    BY DEF RotationDelay
  <1>7. RotationBound(Cached) = e + MinRequeueAfter - w
    BY DEF RotationBound
  <1> HIDE DEF w, e
  <1>8. now + requeueAfter(e, w, now) < e + MinRequeueAfter - w
    BY <1>1, <1>2, <1>3, RequeueAssumption DEF requeueAfter
  <1>9. requeueAfter(e, w, now) \in Nat
    BY <1>4, <1>6
  <1> QED BY <1>1, <1>2, <1>5, <1>6, <1>7, <1>8, <1>9, RequeueAssumption

LEMMA TimelyStep ==
    ASSUME IInv, UnknownFails, DeletionHeld, StatusNotified, Timely, Next
    PROVE  Timely'
  <1> SUFFICES ASSUME Asleep', UpToDate', Server'.spec.provider \in Registered
               PROVE  \/ retrying' /\ \E d \in BackoffDelays : wakeAt' <= now' + d
                      \/ wakeAt' < RotationBound(Server)'
    BY DEF Timely, RetrySoon
  <1>t. now \in Nat /\ wakeAt \in Int /\ \A d \in BackoffDelays : d \in Nat
    BY BackoffAssumption DEF IInv, TypeOK, Times
  <1>0. Server' = Server /\ UpToDate /\ RotationBound(Server)' = RotationBound(Server)
    BY AsleepSteps DEF IInv, UpToDate, RotationBound
  <1>1. CASE Asleep /\ UNCHANGED <<wakeAt, retrying>>
    <2>1. CASE wakeAt < RotationBound(Server)
      BY <1>0, <1>1, <2>1
    <2>2. ASSUME NEW d \in BackoffDelays, wakeAt <= now + d
          PROVE  wakeAt' <= now' + d
      BY <1>t, <1>1, <2>2, ClockSteps
    <2> QED BY <1>0, <1>1, <2>1, <2>2 DEF Timely, RetrySoon
  <1>2. ~(ReconcileGone /\ Cached = Server)
    BY <1>0 DEF ReconcileGone, UpToDate
  <1>3. CASE ReconcileSteady /\ Cached = Server
    BY <1>0, <1>3, SteadyWake DEF IInv
  <1>4. CASE ReturnRateLimited
    <2>1. PICK d \in BackoffDelays : wakeAt' <= now + d /\ retrying'
      BY <1>4, RateLimited DEF IInv
    <2>2. wakeAt' \in Int
      BY <1>4, ReturnRateLimitedType DEF IInv, TimerOK, Times
    <2> QED BY <1>t, <2>1, <2>2, ClockSteps
  <1> QED BY <1>0, <1>1, <1>2, <1>3, <1>4, AsleepSteps DEF IInv

LEMMA StartWork ==
    ASSUME NEW c, Starts(c)
    PROVE  WorkInv
  <1>1. ~Server.deleting
    BY DEF Starts, Unused, Server
  <1>2. UnknownFails /\ DeletionHeld /\ StatusNotified /\ Woken /\ Timely
    BY <1>1 DEF Starts, UnknownFails, DeletionHeld, StatusNotified, Woken,
                Timely, Asleep
  <1> QED BY <1>2, StartIInv DEF WorkInv

LEMMA WorkInit == Init => WorkInv
  BY InitStarts, StartWork

LEMMA WorkStep == WorkInv /\ [Next]_vars => WorkInv'
  <1> SUFFICES ASSUME WorkInv, [Next]_vars PROVE WorkInv'
    OBVIOUS
  <1>1. IInv'
    BY IInvStep DEF WorkInv
  <1>2. CASE Next
    <2>1. UnknownFails' /\ DeletionHeld' /\ StatusNotified'
      BY <1>2, UnknownFailsStep, DeletionHeldStep, StatusNotifiedStep
      DEF WorkInv, IInv
    <2>2. Woken' /\ Timely'
      BY <1>2, WokenStep, TimelyStep DEF WorkInv, IInv
    <2> QED BY <1>1, <2>1, <2>2 DEF WorkInv
  <1>3. CASE UNCHANGED vars
    BY <1>1, <1>3 DEF vars, cluster, locals, queue, timer, provider, WorkInv,
       UnknownFails, DeletionHeld, StatusNotified, Woken, Timely, Asleep,
       RetrySoon, RotationBound, UpToDate, Server
  <1> QED BY <1>2, <1>3

\* Nor does anybody who changes Secrets put the controller to sleep.
LEMMA OthersKeepWork ==
    ASSUME WorkInv, OthersStep
    PROVE  WorkInv'
  <1>1. IInv'
    BY OthersKeepIInv DEF WorkInv
  <1>2. UNCHANGED <<now, ecw, pc, ec, token, fail, queued, wakeAt, retrying>>
    BY DEF OthersStep, locals, queue, timer
  <1>3. UnknownFails' /\ DeletionHeld' /\ StatusNotified' /\ Woken' /\ Timely'
    BY <1>2 DEF WorkInv, UnknownFails, DeletionHeld, StatusNotified, Woken,
                Timely, Asleep, RetrySoon, RotationBound, UpToDate, Server
  <1> QED BY <1>1, <1>3 DEF WorkInv

LEMMA WorkWakes ==
    ASSUME WorkInv
    PROVE  WakeupScheduled
  <1>1. RetryScheduled
    BY DEF WorkInv, Woken, RetryScheduled, Asleep, Settled
  <1>2. RotationScheduled
    <2> SUFFICES ASSUME Settled, UpToDate, Server.spec.provider \in Registered
                 PROVE  wakeAt # NoTime /\ (RetrySoon \/ wakeAt < RotationBound(Server))
      BY DEF RotationScheduled
    <2>1. Asleep
      BY DEF Asleep, Settled
    <2> QED BY <2>1 DEF WorkInv, Woken, Timely, UpToDate
  <1> QED BY <1>1, <1>2 DEF WakeupScheduled

\* No path through Reconcile, no failure and no crash leaves the controller
\* asleep over a deletion that is not finished or over a credential of a
\* provider it knows: a timer is set.  When it sleeps over a credential that
\* status describes, that timer is for the opening of the rotation window, at
\* most MinRequeueAfter into it, or for a retry that is at most one delay of
\* the rate limiter away, whatever delays that grants.
THEOREM AlwaysWoken == Spec => []WakeupScheduled
  <1>1. WorkInv => WakeupScheduled
    BY WorkWakes
  <1> QED BY <1>1, WorkInit, WorkStep, PTL DEF Spec

----------------------------------------------------------------------------
(* Mints are spread. *)

LEMMA MintTimes ==
    ASSUME TypeOK
    PROVE  \A t \in 1..Len(ledger) : ledger[t].mintedAt \in Nat
  <1>1. \A e \in Tokens : e.mintedAt \in Nat
    BY DEF Tokens
  <1> QED BY <1>1 DEF TypeOK

LEMMA MintedPastStep ==
    ASSUME TypeOK, MintedPast, Next
    PROVE  MintedPast'
  <1>t. now \in Nat /\ Len(ledger) \in Nat
    BY DEF TypeOK
  <1>1. CASE ledger' = ledger
    <2>1. \A t \in 1..Len(ledger) : ledger[t].mintedAt <= now'
      BY <1>t, MintTimes, ClockSteps DEF MintedPast
    <2> QED BY <1>1, <2>1 DEF MintedPast
  <1>2. ASSUME NEW l \in Lifetimes, Grant(l), now' = now
        PROVE  MintedPast'
    <2>1. /\ Len(ledger') = Len(ledger) + 1
          /\ ledger'[Len(ledger')].mintedAt = now
          /\ \A i \in 1..Len(ledger) : ledger'[i] = ledger[i]
      BY <1>2 DEF Grant, TypeOK
    <2>2. \A i \in 1..Len(ledger') : i \in 1..Len(ledger) \/ i = Len(ledger')
      BY <1>t, <2>1
    <2> QED BY <1>t, <1>2, <2>1, <2>2 DEF MintedPast
  <1> QED BY <1>1, <1>2, LedgerSteps

\* With the two ends of a lifetime known up to a second each, a window of at
\* most half of it opens no earlier than half of it, less a second.
LEMMA HalfLife ==
    ASSUME NEW t \in Nat, NEW m \in Nat, m <= t, NEW e \in Nat,
           NEW req \in Nat,
           t + clampRotateBefore(req, Persisted(e) - Persisted(m)) >= Persisted(e)
    PROVE  t - m >= (e - m - 2 * Second) \div 2
  <1> DEFINE E == Persisted(e)
             R == Persisted(m)
             w == clampRotateBefore(req, E - R)
             h == (e - m - 2 * Second) \div 2
  <1>s. Second \in Nat /\ Second > 0
    BY SecondAssumption
  <1>1. E \in Int /\ e - Second < E /\ E <= e
    BY PersistedBounds
  <1>2. R \in Int /\ m - Second < R /\ R <= m
    BY PersistedBounds
  <1>3. t + w >= E
    OBVIOUS
  <1>w. w \in Int /\ (E - R > 0 => 2 * w <= E - R)
    <2> HIDE DEF E, R
    <2> QED BY <1>1, <1>2, ClampBounds
  <1>h. h \in Int /\ 2 * h <= e - m - 2 * Second
    <2> DEFINE g == e - m - 2 * Second
    <2>1. g \in Int
      BY <1>s
    <2> HIDE DEF g
    <2>2. g \div 2 \in Int /\ 2 * (g \div 2) <= g
      BY <2>1, HalfBounds
    <2> QED BY <2>2 DEF g
  <1>g. SUFFICES t - m >= h
    OBVIOUS
  <1> HIDE DEF E, R, w, h
  <1>4. CASE E - R > 0
    <2>1. 2 * t + (E - R) >= 2 * E
      BY <1>1, <1>2, <1>3, <1>w, <1>4
    <2>2. 2 * (t - m) >= e - m - 2 * Second
      BY <1>s, <1>1, <1>2, <2>1
    <2> QED BY <1>s, <1>h, <2>2
  <1>5. CASE ~(E - R > 0)
    <2>1. e - m - 2 * Second < 0
      BY <1>s, <1>1, <1>2, <1>5
    <2> QED BY <1>s, <1>h, <2>1
  <1> QED BY <1>4, <1>5

\* clampRotateBefore keeps a short grant from being minted again "on every
\* reconcile": with the last credential on record and its Secret in place,
\* the next Mint waits until half of its lifetime has passed, for every
\* requested window, every lifetime and every resolution of the clock.
THEOREM MintsAreSpread == Spec => MintsSpread
  <1> DEFINE Last == ledger[Len(ledger)]
             Spread == pc = "idle" /\ pc' = "mint" /\ Recorded =>
                          now - Last.mintedAt
                              >= (Last.expiry - Last.mintedAt - 2 * Second) \div 2
  <1>1. Init => IInv /\ MintedPast
    <2>1. Init => MintedPast
      BY DEF Init, MintedPast
    <2> QED BY <2>1, IInvInit
  <1>2. IInv /\ MintedPast /\ [Next]_vars => IInv' /\ MintedPast'
    <2>1. ASSUME MintedPast, UNCHANGED vars PROVE MintedPast'
      BY <2>1 DEF MintedPast, vars, provider
    <2> QED BY <2>1, IInvStep, MintedPastStep DEF IInv
  <1>3. IInv /\ MintedPast /\ [Next]_vars => [Spread]_vars
    <2> SUFFICES ASSUME IInv, MintedPast, Next, pc = "idle", pc' = "mint", Recorded
                 PROVE  now - Last.mintedAt
                          >= (Last.expiry - Last.mintedAt - 2 * Second) \div 2
      OBVIOUS
    <2> USE DEF IInv
    <2>1. ReconcileMint
      BY MintSteps
    <2>2. Cached = Server /\ Server \in Credentials
      BY WindowTypes DEF Recorded, Cached, Server
    <2>3. targetSecretExists(Server.spec.target)
      BY DEF Recorded, UpToDate, Target, Secret, CachedSecret,
         targetSecretExists
    <2> DEFINE st == Server.status
               sec == Server.spec.rotateBeforeSeconds
    <2>4. windowOpen(now, statusWindow(sec, st), st.expiresAt)
      BY <2>1, <2>2, <2>3 DEF ReconcileMint, MustMint, needsMint, Recorded,
         UpToDate
    <2>5. Len(ledger) \in 1..Len(ledger)
      BY DEF Recorded, TypeOK
    <2>6. /\ Last.mintedAt \in Nat /\ Last.expiry \in Nat /\ now \in Nat
          /\ Last.mintedAt <= now
      BY <2>5, MintTimes, Expiries DEF MintedPast, TypeOK
    <2>7. st.expiresAt = Persisted(Last.expiry) /\ st.lastRotatedAt = Persisted(Last.mintedAt)
      BY DEF Recorded
    <2> HIDE DEF Last
    <2>8. grantedLifetime(st) = Persisted(Last.expiry) - Persisted(Last.mintedAt)
      BY <2>6, <2>7, PersistedBounds DEF grantedLifetime, NoTime
    <2>9. requestedRotateBefore(sec) \in Nat
      BY <2>2, SpecFields, RequestedPositive
    <2>10. now + clampRotateBefore(requestedRotateBefore(sec),
                     Persisted(Last.expiry) - Persisted(Last.mintedAt))
             >= Persisted(Last.expiry)
      BY <2>4, <2>7, <2>8 DEF windowOpen, statusWindow
    <2> QED BY <2>6, <2>9, <2>10, HalfLife
  <1>4. [Spread]_vars =>
          [pc = "idle" /\ pc' = "mint" /\ Recorded =>
             LET last == ledger[Len(ledger)]
             IN  now - last.mintedAt
                     >= (last.expiry - last.mintedAt - 2 * Second) \div 2]_vars
    OBVIOUS
  <1> HIDE DEF Spread
  <1> QED BY <1>1, <1>2, <1>3, <1>4, PTL DEF Spec, MintsSpread

----------------------------------------------------------------------------
(* Reconcile keeps to the contract of provider.Provider. *)

\* Where a call of the provider is next.
CallSites == {"mint", "revoke", "revokePrevious"}

\* The call as the contract sees it, before and after a step.
LEMMA OpenCall ==
    /\ pc \notin CallSites => openCall = Contract!NoCall
    /\ pc = "mint" =>
         openCall = IF buildScope(ec.spec.provider)
                    THEN Contract!MintCall(ec.spec.provider) ELSE Contract!NoCall
    /\ pc = "revoke" =>
         openCall = IF Revocable(ec.handle, ec)
                    THEN Contract!RevokeCall(ec.spec.provider, ec.handle)
                    ELSE Contract!NoCall
    /\ pc = "revokePrevious" =>
         openCall = IF Revocable(previous, ec)
                    THEN Contract!RevokeCall(ec.spec.provider, previous)
                    ELSE Contract!NoCall
  BY DEF openCall, minting, revoking, Revocable, CallSites, Contract!NoCall,
         Contract!MintCall, Contract!RevokeCall

LEMMA OpenCallNext ==
    /\ pc' \notin CallSites => openCall' = Contract!NoCall
    /\ pc' = "mint" =>
         openCall' = IF buildScope(ec'.spec.provider)
                     THEN Contract!MintCall(ec'.spec.provider) ELSE Contract!NoCall
    /\ pc' = "revoke" =>
         openCall' = IF Revocable(ec.handle, ec)'
                     THEN Contract!RevokeCall(ec'.spec.provider, ec'.handle)
                     ELSE Contract!NoCall
    /\ pc' = "revokePrevious" =>
         openCall' = IF Revocable(previous, ec)'
                     THEN Contract!RevokeCall(ec'.spec.provider, previous')
                     ELSE Contract!NoCall
  BY DEF openCall, minting, revoking, Revocable, CallSites, Contract!NoCall,
         Contract!MintCall, Contract!RevokeCall

\* How Reconcile comes to hold nothing.
LEMMA EmptyHanded ==
    ASSUME Next, pc' \in {"idle", "mint"}
    PROVE  token' = 0 \/ UNCHANGED <<pc, token>>
  <1> USE DEF locals
  <1>1. CASE Reconcile
    BY <1>1 DEF Reconcile, ReconcileGone, ReconcileDelete, ReconcileNew,
         ReconcileUnknownProvider, ReconcileSteady, ReconcileMint, ReadEC,
         ReturnNil, ReturnAfter, EndRun
  <1>2. CASE Calls
    BY <1>2 DEF Calls, AddFinalizer, SetPending, Mint, MintFails, MintLost,
         WriteSecret, WriteSecretFails, WriteSecretLost, PersistHandle,
         UpdateStatus, Put, RevokePrevious, DeleteExpired, FailStatus,
         RevokeOnDelete, DeleteSecret, DeleteSecretFails, RemoveFinalizer,
         ECWriteFails, ECWriteLost, Fail, failStatus, ReturnNil, ReturnAfter,
         ReturnRateLimited, EndRun
  <1>3. CASE Deliveries \/ Users \/ Resync \/ Crash \/ Tick
             \/ \E n \in Names : GarbageCollect(n)
    BY <1>3 DEF Deliveries, DeliverEC, TimerFires, DeliverSecret, Users,
         EditSpec, DeleteEC, UserDeletesSecret, UserEditsSecret, Resync, Crash,
         Tick, GarbageCollect, EndRun
  <1> QED BY <1>1, <1>2, <1>3 DEF Next

LEMMA CallsKnownStep ==
    ASSUME CallsKnown, Next
    PROVE  CallsKnown'
  <1>1. pc' \in {"idle", "mint"} => token' = 0
    BY EmptyHanded DEF CallsKnown
  <1>2. pc' = "mint" => ec'.spec.provider \in Registered
    BY MintSteps DEF CallsKnown, ReconcileMint, ReadEC
  <1> QED BY <1>1, <1>2 DEF CallsKnown

\* What the contract sees of the ledger.
LEMMA Issued ==
    ASSUME TypeOK
    PROVE  /\ Len(issued) = Len(ledger) /\ Len(ledger) \in Nat
           /\ issued \in Seq([provider : STRING, expiry : Nat])
           /\ \A i \in 1..Len(ledger) :
                 issued[i] = [provider |-> ledger[i].provider,
                              expiry |-> ledger[i].expiry]
  <1>1. Len(ledger) \in Nat /\ \A i \in 1..Len(ledger) : ledger[i] \in Tokens
    BY DEF TypeOK
  <1>2. \A i \in 1..Len(ledger) :
          [provider |-> ledger[i].provider, expiry |-> ledger[i].expiry]
              \in [provider : STRING, expiry : Nat]
    BY <1>1 DEF Tokens
  <1> QED BY <1>1, <1>2 DEF issued

LEMMA AppendEqual ==
    ASSUME NEW S, NEW s \in Seq(S), NEW x \in S, NEW t \in Seq(S),
           Len(t) = Len(s) + 1, \A i \in 1..Len(s) : t[i] = s[i],
           t[Len(s) + 1] = x
    PROVE  t = Append(s, x)
  <1> DEFINE a == Append(s, x)
  <1>1. /\ a \in Seq(S) /\ Len(a) = Len(s) + 1
        /\ \A i \in 1..Len(s) : a[i] = s[i]
        /\ a[Len(s) + 1] = x
    BY AppendProperties
  <1> HIDE DEF a
  <1>2. \A i \in 1..Len(t) : t[i] = a[i]
    BY <1>1
  <1>3. t = a
    BY <1>1, <1>2, SeqEqual
  <1> QED BY <1>3 DEF a

LEMMA SimCreate ==
    ASSUME TypeOK, NEW l \in Lifetimes, Grant(l),
           openCall = Contract!MintCall(ec.spec.provider)
    PROVE  Contract!Create
  <1> DEFINE e == [provider |-> ec.spec.provider, expiry |-> now + l]
  <1>1. /\ Len(ledger') = Len(ledger) + 1
        /\ \A i \in 1..Len(ledger) : ledger'[i] = ledger[i]
        /\ ledger'[Len(ledger) + 1].provider = ec.spec.provider
        /\ ledger'[Len(ledger) + 1].expiry = now + l
    BY DEF Grant, TypeOK
  <1>2. e \in [provider : STRING, expiry : Nat]
    <2>1. ec.spec.provider \in STRING
      BY SpecFields DEF TypeOK, LocalsOK
    <2>2. now + l \in Nat
      BY LifetimesAssumption DEF TypeOK
    <2> QED BY <2>1, <2>2
  <1>3. issued' = [i \in 1..(Len(ledger) + 1) |->
                     [provider |-> ledger'[i].provider, expiry |-> ledger'[i].expiry]]
    BY <1>1 DEF issued
  <1>4. \A i \in 1..(Len(ledger) + 1) :
          issued'[i] = IF i = Len(ledger) + 1 THEN e ELSE issued[i]
    BY <1>1, <1>3, Issued
  <1> HIDE DEF e
  <1>5. issued' = Append(issued, e)
    <2> DEFINE G == [provider : STRING, expiry : Nat]
    <2>1. /\ issued \in Seq(G) /\ e \in G
          /\ Len(issued) = Len(ledger) /\ Len(ledger) \in Nat
      BY <1>2, Issued
    <2> HIDE DEF G
    <2>2. \A i \in 1..Len(ledger) : issued[i] \in G
      BY <2>1
    <2>3. \A i \in 1..(Len(ledger) + 1) : issued'[i] \in G
      BY <1>4, <2>1, <2>2
    <2>4. issued' \in Seq(G) /\ Len(issued') = Len(ledger) + 1
      BY <1>3, <2>1, <2>3
    <2>5. issued'[Len(issued) + 1] = e
          /\ \A i \in 1..Len(issued) : issued'[i] = issued[i]
      BY <1>4, <2>1
    <2> QED BY <2>1, <2>4, <2>5, AppendEqual
  <1>6. openCall.provider = ec.spec.provider
    BY DEF Contract!MintCall
  <1> QED BY <1>5, <1>6 DEF e, Contract!Create

\* The call of Mint begins with Reconcile's decision to mint,
LEMMA SimReconcileMint ==
    ASSUME CallsKnown', ReconcileMint
    PROVE  Contract!CallMint \/ Contract!Forget
  <1>1. /\ pc = "idle" /\ pc' = "mint" /\ token' = 0
        /\ UNCHANGED <<now, ledger, revoked>>
    BY DEF ReconcileMint, Dequeue, ReadEC, GoTo, provider
  <1>2. openCall = Contract!NoCall
    BY <1>1, OpenCall DEF CallSites
  <1>3. issued' = issued
    BY <1>1 DEF issued
  <1>4. CASE buildScope(ec'.spec.provider)
    <2>1. openCall' = Contract!MintCall(ec'.spec.provider)
      BY <1>1, <1>4, OpenCallNext
    <2>2. ec'.spec.provider \in Registered
      BY <1>1 DEF CallsKnown
    <2> QED BY <1>1, <1>2, <1>3, <2>1, <2>2 DEF Contract!CallMint
  <1>5. CASE ~buildScope(ec'.spec.provider)
    <2>1. openCall' = Contract!NoCall
      BY <1>1, <1>5, OpenCallNext
    <2> QED BY <1>1, <1>3, <2>1 DEF Contract!Forget
  <1> QED BY <1>4, <1>5

\* and ends with whatever Mint does.
LEMMA SimMintReturns ==
    ASSUME TypeOK, CallsKnown, Mint \/ MintFails \/ MintLost
    PROVE  Contract!MintReturns \/ Contract!Forget
  <1>1. pc = "mint" /\ pc' \notin CallSites /\ UNCHANGED <<now, revoked>>
    BY DEF Mint, MintFails, MintLost, Grant, Fail, failStatus, CallSites,
       provider
  <1>2. openCall' = Contract!NoCall
    BY <1>1, OpenCallNext
  <1>3. CASE buildScope(ec.spec.provider)
    <2>1. openCall = Contract!MintCall(ec.spec.provider)
      BY <1>1, <1>3, OpenCall
    <2>2. openCall.op = "mint"
      BY <2>1 DEF Contract!MintCall
    <2>3. CASE Mint
      <3>1. Contract!Create
        BY <2>1, <2>3, SimCreate DEF Mint
      <3>2. token' = Len(issued) + 1
        BY <2>3, Issued DEF Mint
      <3> QED BY <1>1, <1>2, <2>2, <3>1, <3>2 DEF Contract!MintReturns
    <2>4. CASE MintLost
      <3>1. Contract!Create
        BY <2>1, <2>4, SimCreate DEF MintLost
      <3>2. token' = 0
        BY <1>1, <2>4 DEF MintLost, Fail, CallsKnown
      <3> QED BY <1>1, <1>2, <2>2, <3>1, <3>2 DEF Contract!MintReturns
    <2>5. CASE MintFails
      <3>1. issued' = issued
        BY <2>5 DEF MintFails, provider, issued
      <3>2. token' = 0
        BY <1>1, <2>5 DEF MintFails, Fail, CallsKnown
      <3> QED BY <1>1, <1>2, <2>2, <3>1, <3>2 DEF Contract!MintReturns
    <2> QED BY <2>3, <2>4, <2>5
  <1>4. CASE ~buildScope(ec.spec.provider)
    <2>1. MintFails
      BY <1>4 DEF Mint, MintLost
    <2>2. token' = 0 /\ issued' = issued
      BY <1>1, <2>1 DEF MintFails, Fail, CallsKnown, provider, issued
    <2> QED BY <1>1, <1>2, <2>2 DEF Contract!Forget
  <1> QED BY <1>3, <1>4

\* A handle that Revoke is called with is one of the provider asked.
LEMMA SimCallRevoke ==
    ASSUME TypeOK, NEW h \in 0..Len(ledger), Revocable(h, ec)',
           openCall = Contract!NoCall, token' \in {token, 0},
           openCall' = Contract!RevokeCall(ec'.spec.provider, h),
           UNCHANGED <<now, ledger, revoked>>
    PROVE  Contract!CallRevoke
  <1>1. /\ h # 0 /\ ledger[h].provider = ec'.spec.provider
        /\ ec'.spec.provider \in Registered
    BY DEF Revocable
  <1>2. h \in 1..Len(issued) /\ issued[h].provider = ec'.spec.provider
    <2>1. h \in 1..Len(ledger)
      BY <1>1, Issued
    <2>2. issued[h] = [provider |-> ledger[h].provider, expiry |-> ledger[h].expiry]
      BY <2>1, Issued
    <2> QED BY <1>1, <2>1, <2>2, Issued
  <1>3. issued' = issued
    BY DEF issued
  <1> QED BY <1>1, <1>2, <1>3 DEF Contract!CallRevoke

LEMMA SimReconcileDelete ==
    ASSUME TypeOK, HandlesMinted, ReconcileDelete
    PROVE  Contract!CallRevoke \/ Contract!Forget
  <1>1. /\ pc = "idle" /\ pc' = "revoke" /\ token' = 0 /\ ec' = Cached
        /\ UNCHANGED <<now, ledger, revoked>>
    BY DEF ReconcileDelete, Dequeue, ReadEC, GoTo, provider
  <1>2. openCall = Contract!NoCall
    BY <1>1, OpenCall DEF CallSites
  <1>3. ec'.handle \in 0..Len(ledger)
    BY <1>1, WindowTypes, Generation DEF HandlesMinted, Cached, Credentials,
       TypeOK
  <1>4. CASE Revocable(ec.handle, ec)'
    <2>1. PICK h \in 0..Len(ledger) : h = ec'.handle
      BY <1>3
    <2>2. Revocable(h, ec)'
      BY <1>4, <2>1 DEF Revocable
    <2>3. openCall' = Contract!RevokeCall(ec'.spec.provider, h)
      BY <1>1, <1>4, <2>1, OpenCallNext
    <2> QED BY <1>1, <1>2, <2>2, <2>3, SimCallRevoke
  <1>5. CASE ~Revocable(ec.handle, ec)'
    <2>1. openCall' = Contract!NoCall
      BY <1>1, <1>5, OpenCallNext
    <2> QED BY <1>1, <2>1 DEF Contract!Forget, issued
  <1> QED BY <1>4, <1>5

LEMMA SimUpdateStatus ==
    ASSUME TypeOK, HandlesMinted, UpdateStatus
    PROVE  Contract!CallRevoke \/ UNCHANGED Contract!contract
  <1>1. /\ pc = "updateStatus" /\ pc' = "revokePrevious"
        /\ UNCHANGED <<now, ledger, revoked, token, previous>>
    BY DEF UpdateStatus, Put, provider
  <1>2. openCall = Contract!NoCall
    BY <1>1, OpenCall DEF CallSites
  <1>3. CASE Revocable(previous, ec)'
    <2>1. PICK h \in 0..Len(ledger) : h = previous
      BY DEF HandlesMinted, TypeOK, LocalsOK
    <2>2. Revocable(h, ec)'
      BY <1>1, <1>3, <2>1 DEF Revocable
    <2>3. openCall' = Contract!RevokeCall(ec'.spec.provider, h)
      BY <1>1, <1>3, <2>1, OpenCallNext
    <2> QED BY <1>1, <1>2, <2>2, <2>3, SimCallRevoke
  <1>4. CASE ~Revocable(previous, ec)'
    <2>1. openCall' = Contract!NoCall
      BY <1>1, <1>4, OpenCallNext
    <2> QED BY <1>1, <1>2, <2>1 DEF Contract!contract, issued
  <1> QED BY <1>3, <1>4

LEMMA SimRevokeReturns ==
    ASSUME RevokePrevious \/ RevokeOnDelete
    PROVE  \/ Contract!RevokeReturns \/ Contract!Forget
           \/ UNCHANGED Contract!contract
  <1> DEFINE h == IF pc = "revoke" THEN ec.handle ELSE previous
  <1>1. /\ pc \in {"revoke", "revokePrevious"} /\ pc' \notin CallSites
        /\ Revoke(h, ec) /\ UNCHANGED <<now, ledger>>
        /\ token' = 0 \/ token' = token
    BY DEF RevokePrevious, RevokeOnDelete, Revoke, ReturnAfter, EndRun,
       CallSites
  <1>2. openCall' = Contract!NoCall /\ issued' = issued
    BY <1>1, OpenCallNext DEF issued
  <1>3. CASE Revocable(h, ec)
    <2>1. openCall = Contract!RevokeCall(ec.spec.provider, h)
      BY <1>1, <1>3, OpenCall
    <2>2. openCall.op = "revoke" /\ openCall.handle = h
      BY <2>1 DEF Contract!RevokeCall
    <2>3. revoked' \in {revoked, revoked \cup {h}}
      BY <1>1, <1>3 DEF Revoke
    <2> QED BY <1>1, <1>2, <2>2, <2>3 DEF Contract!RevokeReturns
  <1>4. CASE ~Revocable(h, ec)
    <2>1. openCall = Contract!NoCall
      BY <1>1, <1>4, OpenCall
    <2>2. revoked' = revoked
      BY <1>1, <1>4 DEF Revoke
    <2> QED BY <1>1, <1>2, <2>1, <2>2 DEF Contract!Forget, Contract!contract
  <1> QED BY <1>3, <1>4

\* Every other step of the controller leaves the provider alone.
ProviderSteps ==
    \/ ReconcileMint \/ ReconcileDelete
    \/ Mint \/ MintFails \/ MintLost
    \/ UpdateStatus \/ RevokePrevious \/ RevokeOnDelete
    \/ Tick

LEMMA OtherSteps ==
    ASSUME Next, ~ProviderSteps
    PROVE  /\ UNCHANGED <<now, ledger, revoked>>
           /\ \/ token' = 0 /\ pc' \notin CallSites
              \/ token' = token /\ pc \notin CallSites /\ pc' \notin CallSites
              \/ UNCHANGED <<pc, ec, previous, token>>
  <1> USE DEF cluster, queue, timer, provider, locals, CallSites
  <1>1. CASE Reconcile
    BY <1>1 DEF ProviderSteps, Reconcile, ReconcileGone, ReconcileNew,
         ReconcileUnknownProvider, failStatus, ReconcileSteady, Dequeue, ReadEC,
         ReturnNil, ReturnAfter, EndRun, GoTo
  <1>2. CASE AddFinalizer \/ SetPending \/ PersistHandle \/ FailStatus
             \/ RemoveFinalizer \/ ECWriteFails \/ ECWriteLost
             \/ DeleteSecretFails
    BY <1>2 DEF AddFinalizer, SetPending, PersistHandle, Put, FailStatus,
         RemoveFinalizer, ECWriteFails, ECWriteLost, DeleteSecretFails,
         ReturnNil, ReturnAfter, ReturnRateLimited, EndRun
  <1>3. CASE WriteSecret \/ WriteSecretFails \/ WriteSecretLost
             \/ DeleteExpired \/ DeleteSecret
    BY <1>3 DEF WriteSecret, WriteSecretFails, WriteSecretLost, DeleteExpired,
         DeleteSecret, Fail, failStatus
  <1>4. CASE Deliveries \/ Users \/ Resync \/ Crash
             \/ \E n \in Names : GarbageCollect(n)
    BY <1>4 DEF Deliveries, DeliverEC, TimerFires, DeliverSecret, Users,
         EditSpec, DeleteEC, UserDeletesSecret, UserEditsSecret, Resync, Crash,
         GarbageCollect, EndRun
  <1> QED BY <1>1, <1>2, <1>3, <1>4 DEF Next, Calls, ProviderSteps

LEMMA SimOther ==
    ASSUME Next, ~ProviderSteps
    PROVE  Contract!Forget \/ UNCHANGED Contract!contract
  <1>1. UNCHANGED <<now, ledger, revoked>> /\ issued' = issued
    BY OtherSteps DEF issued
  <1>2. CASE token' = 0 /\ pc' \notin CallSites
    BY <1>1, <1>2, OpenCallNext DEF Contract!Forget
  <1>3. CASE token' = token /\ pc \notin CallSites /\ pc' \notin CallSites
    BY <1>1, <1>3, OpenCall, OpenCallNext DEF Contract!contract
  <1>4. CASE UNCHANGED <<pc, ec, previous, token>>
    <2>1. openCall' = openCall
      BY <1>1, <1>4 DEF openCall, minting, revoking, Revocable
    <2> QED BY <1>1, <1>4, <2>1 DEF Contract!contract
  <1> QED BY <1>2, <1>3, <1>4, OtherSteps

LEMMA SimTick ==
    ASSUME TypeOK, Tick
    PROVE  Contract!Tick
  <1>1. now' > now
    BY DEF TypeOK, Tick
  <1>2. UNCHANGED <<issued, revoked, openCall, token>>
    BY DEF Tick, locals, provider, issued, openCall, minting, revoking,
       Revocable
  <1> QED BY <1>1, <1>2 DEF Contract!Tick

\* Reconcile keeps to the contract of provider.Provider, whatever the spec is
\* changed to, whatever crashes and whatever answers are lost: one call at a
\* time, Mint only of registered providers, and a handle only to the provider
\* that issued it.
THEOREM BrokerKeepsContract == Spec => KeepsProviderContract
  <1> DEFINE Inv == IInv /\ CallsKnown
  <1>1. Init => Inv /\ Contract!Init
    <2> SUFFICES ASSUME Init PROVE Inv /\ Contract!Init
      OBVIOUS
    <2>1. Inv
      BY IInvInit DEF Init, CallsKnown
    <2>2. /\ now \in Int /\ Len(ledger) = 0 /\ revoked = {} /\ token = 0
          /\ pc \notin CallSites
      BY DEF Init, CallSites
    <2>3. issued = <<>>
      BY <2>2 DEF issued
    <2>4. openCall = Contract!NoCall
      BY <2>2, OpenCall
    <2> QED BY <2>1, <2>2, <2>3, <2>4 DEF Contract!Init
  <1>2. Inv /\ [Next]_vars => Inv'
    <2>1. ASSUME CallsKnown, UNCHANGED vars PROVE CallsKnown'
      BY <2>1 DEF CallsKnown, vars, locals
    <2> QED BY <2>1, IInvStep, CallsKnownStep
  <1>3. Inv /\ [Next]_vars => [Contract!Next]_Contract!contract
    <2> SUFFICES ASSUME IInv, CallsKnown, [Next]_vars
                 PROVE  [Contract!Next]_Contract!contract
      OBVIOUS
    <2> USE DEF IInv
    <2>1. CASE UNCHANGED vars
      BY <2>1 DEF vars, locals, provider, Contract!contract, issued, openCall,
                  minting, revoking, Revocable
    <2>2. CASE Next
      <3>1. CASE ReconcileMint
        BY <2>2, <3>1, CallsKnownStep, SimReconcileMint DEF Contract!Next
      <3>2. CASE ReconcileDelete
        BY <3>2, SimReconcileDelete DEF Contract!Next
      <3>3. CASE Mint \/ MintFails \/ MintLost
        BY <3>3, SimMintReturns DEF Contract!Next
      <3>4. CASE UpdateStatus
        BY <3>4, SimUpdateStatus DEF Contract!Next
      <3>5. CASE RevokePrevious \/ RevokeOnDelete
        BY <3>5, SimRevokeReturns DEF Contract!Next
      <3>6. CASE Tick
        BY <3>6, SimTick DEF Contract!Next
      <3>7. CASE ~ProviderSteps
        BY <2>2, <3>7, SimOther DEF Contract!Next
      <3> QED BY <3>1, <3>2, <3>3, <3>4, <3>5, <3>6, <3>7 DEF ProviderSteps
    <2> QED BY <2>1, <2>2
  <1> HIDE DEF Inv
  <1> QED BY <1>1, <1>2, <1>3, PTL DEF Spec, KeepsProviderContract,
             Contract!Spec
----------------------------------------------------------------------------
(* What a step does to the versions of a Secret. *)

\* The cached version goes, or all but the stored one.
Forwarded(n) ==
    \/ Len(secw[n]) > 1 /\ secw'[n] = Tail(secw[n])
    \/ secw'[n] = <<Secret(n)>>

Written(n) ==
    /\ pc = "writeSecret" /\ n = ec.spec.target
    /\ secw'[n] = Append(secw[n], mutate(CachedSecret(n), ec.spec.keys, token))

LEMMA AnyWindows ==
    ASSUME TypeOK, Next, NEW n \in Names
    PROVE  \/ secw'[n] = secw[n]
           \/ Forwarded(n)
           \/ secw'[n] = Append(secw[n], NoSecret)
           \/ Written(n)
           \/ /\ "editSecret" \in Disturbances
              /\ \E v : Edited(v, Secret(n)) /\ secw'[n] = Append(secw[n], v)
  <1>t. secw \in [Names -> Seq(Secrets)]
    BY DEF TypeOK
  <1>1. CASE secw' = secw
    BY <1>1
  <1>2. CASE Crash
    BY <1>2 DEF Crash, Forwarded
  <1>3. CASE pc = "writeSecret" /\ writeTargetSecret
    BY <1>t, <1>3 DEF writeTargetSecret, PutSecret, Written
  <1>4. ASSUME NEW m \in Names, DeliverSecret(m)
        PROVE  secw'[n] = secw[n] \/ Forwarded(n)
    BY <1>t, <1>4 DEF DeliverSecret, Forwarded
  <1>5. ASSUME NEW m \in Names, PutSecret(m, NoSecret)
        PROVE  secw'[n] = secw[n] \/ secw'[n] = Append(secw[n], NoSecret)
    BY <1>t, <1>5 DEF PutSecret
  <1>6. ASSUME NEW m \in Names, UserEditsSecret(m)
        PROVE  \/ secw'[n] = secw[n]
               \/ /\ "editSecret" \in Disturbances
                  /\ \E v : Edited(v, Secret(n)) /\ secw'[n] = Append(secw[n], v)
    <2>1. PICK k \in DataKeys :
            PutSecret(m, [Secret(m) EXCEPT !.exists = TRUE, !.data[k] = Foreign])
      BY <1>6 DEF UserEditsSecret
    <2> DEFINE v == [Secret(m) EXCEPT !.exists = TRUE, !.data[k] = Foreign]
    <2>2. Edited(v, Secret(m))
      BY WindowTypes DEF Edited, Secrets
    <2>3. PutSecret(m, v) /\ "editSecret" \in Disturbances
      BY <1>6, <2>1 DEF UserEditsSecret, Disturb
    <2> HIDE DEF v
    <2>4. secw'[n] = secw[n] \/ (m = n /\ secw'[n] = Append(secw[n], v))
      BY <1>t, <2>3 DEF PutSecret
    <2> QED BY <2>2, <2>3, <2>4
  <1> QED BY <1>1, <1>2, <1>3, <1>4, <1>5, <1>6, SecretSteps

\* Unless users edit Secrets, only Reconcile stores any.
LEMMA SecretWindows ==
    ASSUME NoEdits, TypeOK, Next, NEW n \in Names
    PROVE  \/ secw'[n] = secw[n]
           \/ Forwarded(n)
           \/ secw'[n] = Append(secw[n], NoSecret)
           \/ Written(n)
  BY AnyWindows DEF NoEdits

LEMMA SecretSeq ==
    ASSUME TypeOK, NEW n \in Names
    PROVE  /\ secw[n] \in Seq(Secrets) /\ Len(secw[n]) \in Nat /\ Len(secw[n]) >= 1
           /\ Secret(n) \in Secrets /\ CachedSecret(n) \in Secrets
  BY WindowTypes DEF TypeOK

\* A version that is added.
LEMMA Appended ==
    ASSUME TypeOK, NEW n \in Names, NEW v, secw'[n] = Append(secw[n], v)
    PROVE  /\ Len(secw'[n]) = Len(secw[n]) + 1
           /\ \A i \in 1..Len(secw[n]) : secw'[n][i] = secw[n][i]
           /\ secw'[n][Len(secw[n]) + 1] = v
           /\ Secret(n)' = v
  BY SecretSeq DEF Secret

\* Versions that go from the cache.
LEMMA ForwardedWindow ==
    ASSUME TypeOK, NEW n \in Names, Forwarded(n)
    PROVE  /\ Secret(n)' = Secret(n)
           /\ Len(secw'[n]) \in Nat /\ Len(secw'[n]) >= 1
           /\ \/ secw'[n] = secw[n]
              \/ \A i \in 1..Len(secw'[n]) :
                    \E j \in 2..Len(secw[n]) : secw'[n][i] = secw[n][j]
  <1>t. secw[n] \in Seq(Secrets) /\ Len(secw[n]) \in Nat /\ Len(secw[n]) >= 1
    BY SecretSeq
  <1>1. CASE Len(secw[n]) > 1 /\ secw'[n] = Tail(secw[n])
    <2>1. /\ Len(secw'[n]) = Len(secw[n]) - 1
          /\ \A i \in 1..Len(secw'[n]) : secw'[n][i] = secw[n][i + 1]
      BY <1>t, <1>1
    <2>2. \A i \in 1..Len(secw'[n]) : i + 1 \in 2..Len(secw[n])
      BY <1>t, <2>1
    <2>3. Secret(n)' = Secret(n)
      BY <1>t, <1>1, <2>1 DEF Secret
    <2> QED BY <1>t, <1>1, <2>1, <2>2, <2>3
  <1>2. CASE secw'[n] = <<Secret(n)>>
    <2>1. Len(secw'[n]) = 1 /\ secw'[n][1] = Secret(n)
      BY <1>2
    <2>2. Secret(n)' = Secret(n)
      BY <2>1 DEF Secret
    <2>3. CASE Len(secw[n]) = 1
      <3>1. secw[n] = <<secw[n][1]>>
        BY <1>t, <2>3
      <3> QED BY <1>2, <2>1, <2>2, <2>3, <3>1 DEF Secret
    <2>4. CASE Len(secw[n]) # 1
      <3> DEFINE m == Len(secw[n])
      <3>0. m \in Nat /\ m >= 1 /\ m # 1
        BY <1>t, <2>4
      <3> HIDE DEF m
      <3>1. m \in 2..m
        BY <3>0
      <3> USE DEF m
      <3> QED BY <2>1, <2>2, <3>1 DEF Secret
    <2> QED BY <2>3, <2>4
  <1> QED BY <1>1, <1>2 DEF Forwarded

\* What writeTargetSecret stores is complete.
LEMMA WrittenFilled ==
    ASSUME TypeOK, RunOK, NEW n \in Names, Written(n)
    PROVE  /\ Secret(n)' = mutate(CachedSecret(n), ec.spec.keys, token)
           /\ Secret(n)'.exists
           /\ Filled(Secret(n)', ec.spec.keys)
  <1>1. token \in Nat /\ token # 0
    BY DEF Written, RunOK, Minted, TypeOK, LocalsOK
  <1>2. Secret(n)' = mutate(CachedSecret(n), ec.spec.keys, token)
    BY Appended DEF Written
  <1>3. written(ec.spec.keys) \subseteq DataKeys
    <2>1. ec.spec.keys \in KeyMaps
      BY SpecFields DEF TypeOK, LocalsOK
    <2> QED BY <2>1, OutputsAssumption DEF written, secretKey, KeyMaps
  <1> QED BY <1>1, <1>2, <1>3 DEF mutate, Filled, Empty, Foreign

LEMMA OursOrNoneStep ==
    ASSUME NoEdits, TypeOK, RunOK, OursOrNone, Next
    PROVE  OursOrNone'
  <1> SUFFICES ASSUME NEW n \in Names, NEW i \in 2..Len(secw'[n]),
                      secw'[n][i].exists
               PROVE  secw'[n][i].owner = "ec"
    BY DEF OursOrNone
  <1>t. Len(secw[n]) \in Nat /\ Len(secw[n]) >= 1
    BY SecretSeq
  <1>1. CASE secw'[n] = secw[n]
    BY <1>1 DEF OursOrNone
  <1>2. CASE Forwarded(n)
    <2>1. i \in 1..Len(secw'[n])
      BY <1>2, ForwardedWindow
    <2>2. \/ secw'[n] = secw[n]
          \/ \E j \in 2..Len(secw[n]) : secw'[n][i] = secw[n][j]
      BY <1>2, <2>1, ForwardedWindow
    <2> QED BY <1>1, <2>2 DEF OursOrNone
  <1>3. ASSUME NEW v, secw'[n] = Append(secw[n], v), v.exists => v.owner = "ec"
        PROVE  secw'[n][i].owner = "ec"
    <2>1. i \in 2..Len(secw[n]) \/ i = Len(secw[n]) + 1
      BY <1>t, <1>3, Appended
    <2>2. i \in 2..Len(secw[n]) => i \in 1..Len(secw[n])
      BY <1>t
    <2> QED BY <1>3, <2>1, <2>2, Appended DEF OursOrNone
  <1>4. CASE secw'[n] = Append(secw[n], NoSecret)
    BY <1>3, <1>4 DEF NoSecret
  <1>5. CASE Written(n)
    BY <1>3, <1>5 DEF Written, mutate
  <1> QED BY <1>1, <1>2, <1>4, <1>5, SecretWindows

LEMMA TracedStep ==
    ASSUME NoEdits, TypeOK, RunOK, OursOrNone, Next, NEW n \in Names,
           Traced(n) \/ Written(n)
    PROVE  Traced(n)'
  <1>t. Len(secw[n]) \in Nat /\ Len(secw[n]) >= 1
    BY SecretSeq
  <1>1. CASE secw'[n] = secw[n] /\ Traced(n)
    BY <1>1 DEF Traced, Reported
  <1>2. CASE Forwarded(n) /\ Traced(n)
    <2>1. CASE secw'[n] = secw[n]
      BY <1>1, <1>2, <2>1
    <2>2. CASE \A i \in 1..Len(secw'[n]) :
                 \E j \in 2..Len(secw[n]) : secw'[n][i] = secw[n][j]
      <3>1. \A i \in 1..Len(secw'[n]) :
              secw'[n][i].exists => secw'[n][i].owner = "ec"
        BY <2>2 DEF OursOrNone
      <3> QED BY <3>1 DEF Traced, Reported
    <2> QED BY <1>2, <2>1, <2>2, ForwardedWindow
  <1>3. CASE secw'[n] = Append(secw[n], NoSecret) /\ Traced(n)
    <2>1. /\ Len(secw'[n]) = Len(secw[n]) + 1
          /\ \A i \in 1..Len(secw[n]) : secw'[n][i] = secw[n][i]
          /\ ~secw'[n][Len(secw[n]) + 1].exists
      BY <1>3, Appended DEF NoSecret
    <2>2. \A i \in 1..Len(secw'[n]) :
            i \in 1..Len(secw[n]) \/ i = Len(secw[n]) + 1
      BY <1>t, <2>1
    <2>3. \A i \in 1..Len(secw[n]) : i \in 1..Len(secw'[n])
      BY <1>t, <2>1
    <2> QED BY <1>3, <2>1, <2>2, <2>3 DEF Traced, Reported
  <1>4. CASE Written(n)
    <2> DEFINE v == mutate(CachedSecret(n), ec.spec.keys, token)
    <2>1. Len(secw'[n]) = Len(secw[n]) + 1 /\ secw'[n][Len(secw[n]) + 1] = v
      BY <1>4, Appended DEF Written
    <2>2. v.exists /\ v.owner = "ec"
      BY DEF mutate
    <2>3. Len(secw[n]) + 1 \in 1..Len(secw'[n])
      BY <1>t, <2>1
    <2> QED BY <2>1, <2>2, <2>3 DEF Traced, Reported
  <1> QED BY <1>1, <1>2, <1>3, <1>4, SecretWindows

\* What is there of a Secret stays as it is, goes, or is written anew.
LEMMA WholeStep ==
    ASSUME NoEdits, TypeOK, RunOK, Next, NEW n \in Names, NEW keys,
           \/ Secret(n).exists => Filled(Secret(n), keys)
           \/ Written(n),
           Written(n) => keys = ec.spec.keys
    PROVE  Secret(n)'.exists => Filled(Secret(n)', keys)
  <1>1. CASE secw'[n] = secw[n]
    <2>1. Secret(n)' = Secret(n)
      BY <1>1 DEF Secret
    <2>2. CASE Written(n)
      BY <2>2, WrittenFilled
    <2> QED BY <2>1, <2>2
  <1>2. CASE Forwarded(n) /\ ~Written(n)
    BY <1>2, ForwardedWindow
  <1>3. CASE secw'[n] = Append(secw[n], NoSecret)
    <2>1. Secret(n)' = NoSecret
      BY <1>3, Appended
    <2> QED BY <2>1 DEF NoSecret
  <1>4. CASE Written(n)
    BY <1>4, WrittenFilled
  <1> QED BY <1>1, <1>2, <1>3, <1>4, SecretWindows

----------------------------------------------------------------------------
(* The Secret of the current spec. *)

LEMMA PublishedWholeStep ==
    ASSUME NoEdits, TypeOK, RunOK, OursOrNone, PublishedWhole, Next
    PROVE  PublishedWhole'
  <1> SUFFICES ASSUME pc' \in Published, NEW n \in Names, n = ec'.spec.target
               PROVE  /\ Secret(n)'.exists => Filled(Secret(n)', ec'.spec.keys)
                      /\ Traced(n)'
    BY DEF PublishedWhole
  <1>1. ~Mint
    BY DEF Mint, Published
  <1>2. CASE WriteSecret
    <2>1. /\ pc = "writeSecret" /\ writeTargetSecret /\ ec' = ec
      BY <1>2 DEF WriteSecret
    <2>2. Written(n)
      BY <2>1 DEF writeTargetSecret, PutSecret, Written, TypeOK
    <2> QED BY <2>1, <2>2, WrittenFilled, TracedStep
  <1>3. CASE pc \in Published /\ ec'.spec = ec.spec
    <2>1. ~Written(n)
      BY <1>3 DEF Written, Published
    <2>2. (Secret(n).exists => Filled(Secret(n), ec.spec.keys)) /\ Traced(n)
      BY <1>3 DEF PublishedWhole
    <2> QED BY <1>3, <2>1, <2>2, WholeStep, TracedStep
  <1>4. CASE PersistHandle \/ UpdateStatus
    <2>1. ec' = desired /\ pc \in ECWrites \cap Published
      BY <1>4 DEF PersistHandle, UpdateStatus, Put, Published, ECWrites
    <2> QED BY <1>3, <2>1, DesiredFields
  <1> QED BY <1>1, <1>2, <1>3, <1>4, MintedSteps DEF Minted, Published

LEMMA CurrentWholeStep ==
    ASSUME NoEdits, LifeInv, OursOrNone, PublishedWhole, CurrentWhole, Next
    PROVE  CurrentWhole'
  <1> USE DEF LifeInv, IInv
  <1> SUFFICES ASSUME UpToDate', NEW n \in Names, n = Server'.spec.target
               PROVE  /\ Secret(n)'.exists => Filled(Secret(n)', Server'.spec.keys)
                      /\ Traced(n)'
    BY DEF CurrentWhole
  <1>1. CASE Server' = Server
    <2>1. UpToDate
      BY <1>1 DEF UpToDate
    <2>2. (Secret(n).exists => Filled(Secret(n), Server.spec.keys)) /\ Traced(n)
      BY <1>1, <2>1 DEF CurrentWhole
    <2>3. Written(n) => Server.spec.keys = ec.spec.keys
      BY <2>1, CurrentSpec DEF Written
    <2> QED BY <1>1, <2>2, <2>3, WholeStep, TracedStep
  <1>2. CASE ECWrite
    <2>1. pc \in ECWrites /\ Server' = desired /\ Server = ec
      BY <1>2, ECWriteServer DEF ECWrite
    <2>2. ~Written(n)
      BY <2>1 DEF Written, ECWrites
    <2>3. n = ec.spec.target /\ Server'.spec = ec.spec
      BY <2>1, DesiredFields
    <2>4. (Secret(n).exists => Filled(Secret(n), ec.spec.keys)) /\ Traced(n)
      <3>1. CASE pc = "updateStatus"
        BY <2>3, <3>1 DEF PublishedWhole, Published
      <3>2. CASE pc # "updateStatus"
        <4>1. UpToDate
          BY <2>1, <3>2, DesiredFields DEF UpToDate
        <4> QED BY <2>1, <2>3, <4>1 DEF CurrentWhole
      <3> QED BY <3>1, <3>2
    <2> QED BY <2>2, <2>3, <2>4, WholeStep, TracedStep
  <1> QED BY <1>1, <1>2, ECSteps, ServerKept, EditedNotUpToDate

\* As long as the watch has not woken the controller, the version of ours is
\* still to pass or still there.
LEMMA ReportedStep ==
    ASSUME TypeOK, Next, ~queued', NEW n \in Names, Reported(n)
    PROVE  Reported(n)'
  <1>t. secw \in [Names -> Seq(Secrets)] /\ Len(secw[n]) \in Nat /\ Len(secw[n]) >= 1
    BY SecretSeq DEF TypeOK
  <1>i. PICK i \in 1..Len(secw[n]) : secw[n][i].exists /\ secw[n][i].owner = "ec"
    BY DEF Reported
  <1>a. ASSUME NEW v, secw'[n] = Append(secw[n], v)
        PROVE  Reported(n)'
    <2>1. i \in 1..Len(secw'[n]) /\ secw'[n][i] = secw[n][i]
      BY <1>t, <1>a, Appended
    <2> QED BY <1>i, <2>1 DEF Reported
  <1>1. CASE secw'[n] = secw[n]
    BY <1>i, <1>1 DEF Reported
  <1>2. ~Crash
    BY DEF Crash
  <1>3. ASSUME NEW m \in Names, DeliverSecret(m)
        PROVE  Reported(n)'
    <2>1. CASE m # n
      BY <1>t, <1>1, <1>3, <2>1 DEF DeliverSecret
    <2>2. CASE m = n
      <3>1. /\ secw'[n] = Tail(secw[n]) /\ Len(secw[n]) > 1
            /\ ~Enqueues(secw[n][1], secw[n][2])
        BY <1>t, <1>3, <2>2 DEF DeliverSecret
      <3>2. i # 1
        BY <1>i, <3>1 DEF Enqueues
      <3>3. /\ i - 1 \in 1..Len(secw'[n])
            /\ secw'[n][i - 1] = secw[n][i]
        BY <1>t, <3>1, <3>2
      <3> QED BY <1>i, <3>3 DEF Reported
    <2> QED BY <2>1, <2>2
  <1>4. ASSUME NEW m \in Names, NEW v, PutSecret(m, v)
        PROVE  Reported(n)'
    <2>1. secw'[n] = secw[n] \/ secw'[n] = Append(secw[n], v)
      BY <1>t, <1>4 DEF PutSecret
    <2> QED BY <1>a, <1>1, <2>1
  <1>5. CASE writeTargetSecret
    BY <1>4, <1>5 DEF writeTargetSecret, SecretWritable
  <1>6. ASSUME NEW m \in Names, UserEditsSecret(m)
        PROVE  Reported(n)'
    BY <1>4, <1>6 DEF UserEditsSecret
  <1> QED BY <1>1, <1>2, <1>3, <1>4, <1>5, <1>6, SecretSteps

\* How the controller comes to rest, on an unchanged resource.
LEMMA RestSteps ==
    ASSUME TypeOK, FreshCopy, UnknownFails, StatusNotified, Next, Rests'
    PROVE  /\ Server' = Server
           /\ \/ Rests /\ UNCHANGED <<wakeAt, retrying>>
              \/ /\ secw' = secw /\ UpToDate
                 /\ CachedSecret(Server.spec.target).exists
                 /\ wakeAt' < RotationBound(Server)
  <1>0. /\ Asleep' /\ ~retrying' /\ Server' = Server /\ Server.exists /\ ~Server.deleting
        /\ Server.spec.provider \in Registered
    BY AsleepSteps DEF Rests
  <1>1. CASE Asleep /\ UNCHANGED <<wakeAt, retrying>>
    BY <1>0, <1>1 DEF Rests
  <1>2. ~(ReconcileGone /\ Cached = Server)
    BY <1>0 DEF ReconcileGone
  <1>3. CASE ReconcileSteady /\ Cached = Server
    <2>1. /\ Server.status.expiresAt # NoTime
          /\ Server.generation = Server.status.observedGeneration
          /\ targetSecretExists(Server.spec.target)
          /\ secw' = secw
      BY <1>3 DEF ReconcileSteady, MustMint, needsMint, Dequeue, cluster
    <2>2. UpToDate /\ CachedSecret(Server.spec.target).exists
      BY <1>0, <2>1 DEF UpToDate, targetSecretExists
    <2>3. wakeAt' < RotationBound(Server)
      BY <1>3, SteadyWake
    <2> QED BY <1>0, <2>1, <2>2, <2>3
  <1>4. ~ReturnRateLimited
    BY <1>0 DEF ReturnRateLimited
  <1> QED BY <1>0, <1>1, <1>2, <1>3, <1>4, AsleepSteps

LEMMA RestedStep ==
    ASSUME TypeOK, FreshCopy, UnknownFails, StatusNotified, Rested, Next
    PROVE  Rested'
  <1> SUFFICES ASSUME Rests' PROVE UpToDate' /\ wakeAt' < RotationBound(Server)'
    BY DEF Rested
  <1>1. Server' = Server /\ RotationBound(Server)' = RotationBound(Server)
    BY RestSteps DEF RotationBound
  <1>2. UpToDate /\ wakeAt' < RotationBound(Server)
    BY RestSteps DEF Rested
  <1> QED BY <1>1, <1>2 DEF UpToDate

LEMMA AttendedStep ==
    ASSUME TypeOK, FreshCopy, UnknownFails, StatusNotified, Rested, Attended,
           UpToDate => \A n \in Names : n = Server.spec.target => Traced(n), Next
    PROVE  Attended'
  <1> SUFFICES ASSUME Rests' PROVE Reported(Server.spec.target)'
    BY DEF Attended
  <1>0. Server' = Server /\ UpToDate /\ ~queued'
    BY RestSteps DEF Rested, Rests, Asleep
  <1>1. PICK n \in Names : n = Server.spec.target
    BY <1>0 DEF UpToDate
  <1>2. SUFFICES Reported(n)'
    BY <1>0, <1>1 DEF Reported
  <1>3. CASE Rests
    BY <1>0, <1>1, <1>3, ReportedStep DEF Attended
  <1>4. CASE secw' = secw /\ CachedSecret(n).exists
    <2>1. Traced(n) /\ 1 \in 1..Len(secw[n])
      BY <1>0, <1>1, SecretSeq
    <2>2. Reported(n)
      BY <1>4, <2>1 DEF Traced, CachedSecret
    <2> QED BY <1>4, <2>2 DEF Reported
  <1> QED BY <1>1, <1>3, <1>4, RestSteps

LEMMA WholeInit ==
    Init => OursOrNone /\ PublishedWhole /\ CurrentWhole /\ Rested /\ Attended
  <1> SUFFICES ASSUME Init
               PROVE  /\ OursOrNone /\ PublishedWhole /\ CurrentWhole
                      /\ Rested /\ Attended
    OBVIOUS
  <1>1. PICK s \in Specs : ecw = <<NewEC(s)>>
    BY DEF Init
  <1>2. PICK secrets \in InitialSecrets : secw = [n \in Names |-> <<secrets[n]>>]
    BY DEF Init
  <1>3. \A n \in Names : Len(secw[n]) = 1
    BY <1>2
  <1>4. OursOrNone
    BY <1>3 DEF OursOrNone
  <1>5. Server.status.expiresAt = NoTime
    BY <1>1 DEF Server, NewEC, NoStatus
  <1> QED BY <1>4, <1>5 DEF Init, PublishedWhole, Published, CurrentWhole,
             UpToDate,
                         Rested, Attended, Rests, Asleep

LEMMA ServedInit == Init => ServedInv
  BY WholeInit, KeysInit, WorkInit DEF ServedInv

LEMMA ServedStep == ASSUME NoEdits PROVE ServedInv /\ [Next]_vars => ServedInv'
  <1> SUFFICES ASSUME ServedInv, [Next]_vars PROVE ServedInv'
    OBVIOUS
  <1>1. KeysInv' /\ WorkInv'
    BY KeysStep, WorkStep DEF ServedInv
  <1>2. CASE Next
    <2>1. OursOrNone' /\ PublishedWhole'
      BY <1>2, OursOrNoneStep, PublishedWholeStep DEF ServedInv, WorkInv, IInv
    <2>2. CurrentWhole'
      BY <1>2, CurrentWholeStep DEF ServedInv, KeysInv
    <2>3. Rested' /\ Attended'
      BY <1>2, RestedStep, AttendedStep DEF ServedInv, CurrentWhole, WorkInv,
         IInv
    <2> QED BY <1>1, <2>1, <2>2, <2>3 DEF ServedInv
  <1>3. CASE UNCHANGED vars
    BY <1>1, <1>3 DEF vars, cluster, locals, queue, timer, provider, ServedInv,
       OursOrNone, PublishedWhole, CurrentWhole, Rested, Attended, Rests,
       Traced, Reported, Filled, Asleep, RotationBound, UpToDate,
       Secret, Server
  <1> QED BY <1>2, <1>3

----------------------------------------------------------------------------
(* The window of the current status. *)

LEMMA StartedSteps ==
    ASSUME Next, pc' # "idle"
    PROVE  \/ pc = "idle" /\ started' = now /\ now' = now
           \/ pc # "idle" /\ started' = started
  <1> USE DEF locals
  <1>1. CASE Reconcile
    BY <1>1 DEF Reconcile, Dequeue, ReconcileGone, ReconcileDelete,
       ReconcileNew,
         ReconcileUnknownProvider, ReconcileSteady, ReconcileMint, ReadEC,
         ReturnNil, ReturnAfter, EndRun
  <1>2. CASE Calls
    BY <1>2 DEF Calls, AddFinalizer, SetPending, Mint, MintFails, MintLost,
         WriteSecret, WriteSecretFails, WriteSecretLost, PersistHandle,
         UpdateStatus, Put, RevokePrevious, DeleteExpired, FailStatus,
         RevokeOnDelete, DeleteSecret, DeleteSecretFails, RemoveFinalizer,
         ECWriteFails, ECWriteLost, Fail, ReturnNil, ReturnAfter,
         ReturnRateLimited, EndRun
  <1>3. CASE Deliveries \/ Users \/ Resync \/ Crash \/ Tick
             \/ \E n \in Names : GarbageCollect(n)
    BY <1>3 DEF Deliveries, DeliverEC, TimerFires, DeliverSecret, Users,
         EditSpec, DeleteEC, UserDeletesSecret, UserEditsSecret, Resync, Crash,
         Tick, GarbageCollect, EndRun
  <1> QED BY <1>1, <1>2, <1>3 DEF Next

LEMMA StartedBeforeStep ==
    ASSUME TypeOK, RunOK, StartedBefore, Next
    PROVE  StartedBefore'
  <1>t. now \in Nat /\ Len(ledger) \in Nat /\ (pc # "idle" => started \in Nat)
    BY DEF TypeOK, RunOK
  <1>1. pc' # "idle" => started' <= now'
    BY <1>t, StartedSteps, ClockSteps DEF StartedBefore
  <1>2. ASSUME pc' \in Minted
        PROVE  \E l \in Lifetimes : started' + l <= ledger'[token'].expiry
    <2>1. CASE Mint
      <3>1. PICK l \in Lifetimes : Grant(l)
        BY <2>1 DEF Mint
      <3>2. token' = Len(ledger) + 1 /\ started' = started /\ pc # "idle"
        BY <2>1 DEF Mint
      <3>3. ledger'[token'].expiry = now + l
        BY <3>1, <3>2 DEF Grant, TypeOK
      <3>4. started <= now /\ started \in Nat /\ l \in Nat
        BY <1>t, <3>2, LifetimesAssumption DEF StartedBefore
      <3>5. started + l <= now + l
        BY <1>t, <3>4
      <3> QED BY <3>2, <3>3, <3>5
    <2>2. CASE ~Mint
      <3>1. pc \in Minted /\ token' = token
        BY <1>2, <2>2, MintedSteps DEF WriteSecret, PersistHandle,
           UpdateStatus,
                                       Put, Minted
      <3>2. ledger' = ledger
        BY <3>1, LedgerSteps DEF Minted
      <3>3. started' = started
        BY <1>2, <3>1, StartedSteps DEF Minted
      <3> QED BY <3>1, <3>2, <3>3 DEF StartedBefore
    <2> QED BY <2>1, <2>2
  <1> QED BY <1>1, <1>2 DEF StartedBefore

\* Only UpdateStatus changes what status says of the credential.
LEMMA DesiredTimes ==
    ASSUME TypeOK, pc \in ECWrites, pc # "updateStatus"
    PROVE  /\ desired.status.expiresAt = ec.status.expiresAt
           /\ desired.status.lastRotatedAt = ec.status.lastRotatedAt
  <1>0. ec \in Credentials
    BY DEF TypeOK, LocalsOK
  <1> USE <1>0 DEF Credentials, Statuses
  <1>1. CASE pc = "addFinalizer"
    BY <1>1 DEF desired, withFinalizer
  <1>2. CASE pc = "setPending"
    BY <1>2 DEF desired, pendingStatus
  <1>3. CASE pc = "persistHandle"
    BY <1>3 DEF desired, withHandle
  <1>4. CASE pc = "failStatus"
    BY <1>4 DEF desired, failedStatus
  <1>5. CASE pc = "removeFinalizer"
    BY <1>5 DEF desired, withoutFinalizer
  <1> QED BY <1>1, <1>2, <1>3, <1>4, <1>5 DEF ECWrites

\* A grant that has been through status, where both ends lose less than a
\* second.
LEMMA GrantRounded ==
    ASSUME NEW t \in Nat, NEW e \in Nat, NEW l \in Nat, t + l <= e,
           NEW d \in Nat, l - (Second - 1) >= 2 * (MinRequeueAfter + d)
    PROVE  /\ Persisted(e) - Persisted(t) >= 2 * (MinRequeueAfter + d)
           /\ Persisted(e) # NoTime /\ Persisted(t) # NoTime
  <1> DEFINE E == Persisted(e)
             R == Persisted(t)
  <1>1. E \in Int /\ e - Second < E /\ 0 <= E
    BY PersistedBounds
  <1>2. R \in Int /\ R <= t /\ 0 <= R
    BY PersistedBounds
  <1> HIDE DEF E, R
  <1>3. E - R >= 2 * (MinRequeueAfter + d) /\ E # NoTime /\ R # NoTime
    BY <1>1, <1>2, SecondAssumption, RequeueAssumption DEF NoTime
  <1> QED BY <1>3 DEF E, R

LEMMA GrantCoversStep ==
    ASSUME NEW d \in Nat, AmpleFor(d), TypeOK, RunOK, FreshCopy, StartedBefore,
           GrantCovers(d), Next
    PROVE  GrantCovers(d)'
  <1>1. CASE Server'.status = Server.status
    BY <1>1 DEF GrantCovers, grantedLifetime
  <1>2. CASE ECWrite
    <2>1. pc \in ECWrites /\ Server' = desired /\ Server = ec
      BY <1>2, ECWriteServer DEF ECWrite
    <2>2. CASE pc # "updateStatus"
      BY <2>1, <2>2, DesiredTimes DEF GrantCovers, grantedLifetime
    <2>3. CASE pc = "updateStatus"
      <3>1. PICK l \in Lifetimes : started + l <= ledger[token].expiry
        BY <2>3 DEF StartedBefore, Minted
      <3>2. token \in 1..Len(ledger) /\ started \in Nat
        BY <2>3 DEF RunOK, Minted
      <3>3. ledger[token].expiry \in Nat /\ l \in Nat
            /\ l - (Second - 1) >= 2 * (MinRequeueAfter + d)
        BY <3>2, Expiries, LifetimesAssumption DEF AmpleFor
      <3>4. Persisted(ledger[token].expiry) - Persisted(started)
                >= 2 * (MinRequeueAfter + d)
            /\ Persisted(ledger[token].expiry) # NoTime
            /\ Persisted(started) # NoTime
        BY <3>1, <3>2, <3>3, GrantRounded
      <3>5. /\ Server'.status.expiresAt = Persisted(ledger[token].expiry)
            /\ Server'.status.lastRotatedAt = Persisted(started)
        BY <2>1, <2>3 DEF desired, activeStatus, TypeOK, LocalsOK, Credentials
      <3> QED BY <3>4, <3>5 DEF GrantCovers, grantedLifetime
    <2> QED BY <2>2, <2>3
  <1>3. CASE EditSpec \/ DeleteEC
    BY <1>1, <1>3, EditSpecServer, DeleteECServer
  <1>4. CASE ecw' = ecw \/ DeliverEC \/ Crash
    BY <1>1, <1>4, ServerKept
  <1> QED BY <1>2, <1>3, <1>4, ECSteps

\* So the window it leads to covers the shortest delay.
LEMMA WindowCovers ==
    ASSUME NEW d \in Nat, AmpleFor(d), TypeOK, GrantCovers(d)
    PROVE  RotationBound(Server) <= Server.status.expiresAt - d
  <1> DEFINE req == requestedRotateBefore(Server.spec.rotateBeforeSeconds)
             g == grantedLifetime(Server.status)
             w == clampRotateBefore(req, g)
             m == MinRequeueAfter + d
  <1>0. Server \in Credentials
    BY WindowTypes
  <1>1. Server.status.expiresAt \in Int /\ Server.status.lastRotatedAt \in Int
    BY <1>0 DEF Credentials, Statuses, Times
  <1>m. m \in Nat \ {0}
    BY RequeueAssumption
  <1>2. req \in Nat /\ req >= m
    BY <1>0, SpecFields, RequestedPositive DEF AmpleFor, Credentials
  <1>3. g \in Int /\ (g <= 0 \/ g >= 2 * m)
    BY <1>1 DEF grantedLifetime, GrantCovers
  <1>4. RotationBound(Server) = Server.status.expiresAt + MinRequeueAfter - w
    BY DEF RotationBound, statusWindow
  <1>e. m = MinRequeueAfter + d
    OBVIOUS
  <1> HIDE DEF req, g, m
  <1>5. g >= 2 * m => g \div 2 >= m
    BY <1>3, <1>m, HalfBounds
  <1>6. w \in Int /\ w >= m
    BY <1>2, <1>3, <1>5, <1>m, ClampBounds DEF clampRotateBefore
  <1> HIDE DEF w
  <1> QED BY <1>1, <1>4, <1>6, <1>e, RequeueAssumption

LEMMA StartGrant ==
    ASSUME NEW c, Starts(c)
    PROVE  GrantInv
  <1>1. Server.status.expiresAt = NoTime
    BY DEF Starts, Unused, Server
  <1>2. GrantKept
    BY <1>1 DEF GrantKept, GrantCovers, grantedLifetime
  <1> QED BY <1>2, StartIInv DEF Starts, GrantInv, StartedBefore, Minted

LEMMA GrantInit == Init => GrantInv
  BY InitStarts, StartGrant

LEMMA GrantStep == ASSUME AmpleWindows PROVE GrantInv /\ [Next]_vars => GrantInv'
  <1> SUFFICES ASSUME GrantInv, [Next]_vars PROVE GrantInv'
    OBVIOUS
  <1>1. IInv'
    BY IInvStep DEF GrantInv
  <1>2. CASE Next
    BY <1>1, <1>2, StartedBeforeStep, GrantCoversStep
    DEF AmpleWindows, GrantInv, GrantKept, IInv
  <1>3. CASE UNCHANGED vars
    BY <1>1, <1>3 DEF vars, cluster, locals, queue, timer, provider, GrantInv,
       StartedBefore, GrantKept, GrantCovers, Server
  <1> QED BY <1>2, <1>3

----------------------------------------------------------------------------
(* Consumers are served. *)

\* At rest the credential that status describes is not about to expire,
LEMMA RestsInTime ==
    ASSUME NEW d \in Nat, AmpleFor(d), TypeOK, GrantCovers(d), Woken, Rested,
           Settled, Rests
    PROVE  UpToDate /\ now < Server.status.expiresAt - d
  <1>1. UpToDate /\ wakeAt < RotationBound(Server)
    BY DEF Rested
  <1>2. wakeAt # NoTime /\ ~(wakeAt <= now)
    BY DEF Rests, Woken, Settled
  <1>3. now \in Int /\ wakeAt \in Int
    BY DEF TypeOK, Times
  <1>4. RotationBound(Server) <= Server.status.expiresAt - d
    BY WindowCovers
  <1>5. RotationBound(Server) \in Int /\ Server.status.expiresAt \in Int
    BY WindowTypes, StatusWindowType, RequeueAssumption DEF RotationBound
  <1> QED BY <1>1, <1>2, <1>3, <1>4, <1>5

LEMMA RestsBeforeExpiry ==
    ASSUME AmpleWindows, TypeOK, GrantKept, Woken, Rested, Settled, Rests
    PROVE  UpToDate /\ now < Server.status.expiresAt
  <1>1. UpToDate /\ now < Server.status.expiresAt - 0
    BY RestsInTime DEF AmpleWindows, GrantKept
  <1>2. Server.status.expiresAt \in Int
    BY WindowTypes, StatusWindowType
  <1> QED BY <1>1, <1>2

\* so that the tokens in its Secret are good.
LEMMA TokensGood ==
    ASSUME ExpiryInv, UpToDate, now < Server.status.expiresAt,
           NEW t \in TokensIn(Target)
    PROVE  t \in (1..Len(ledger)) \ revoked /\ now < ledger[t].expiry
  <1>0. IInv /\ TypeOK /\ Server.spec.target \in Names
    BY DEF ExpiryInv, IInv, UpToDate
  <1>1. t \in 1..Len(ledger)
    BY <1>0 DEF ExpiryInv, StatusMinted, Target
  <1>2. t \notin revoked
    BY <1>0 DEF IInv, PublishedNotRevoked
  <1>3. ledger[t].expiry >= Server.status.expiresAt
    BY DEF ExpiryInv, StatusNotAheadOfSecret
  <1>4. ledger[t].expiry \in Nat /\ now \in Nat /\ Server.status.expiresAt \in Int
    BY <1>0, <1>1, Expiries, WindowTypes, StatusWindowType DEF TypeOK
  <1> QED BY <1>1, <1>2, <1>3, <1>4

LEMMA WrittenKeys ==
    ASSUME TypeOK
    PROVE  /\ written(Server.spec.keys) \subseteq DataKeys
           /\ written(ec.spec.keys) \subseteq DataKeys
  <1>1. \A c \in Credentials : written(c.spec.keys) \subseteq DataKeys
    BY SpecFields, OutputsAssumption DEF written, secretKey, KeyMaps
  <1>2. Server \in Credentials /\ ec \in Credentials
    BY WindowTypes DEF TypeOK, LocalsOK
  <1> QED BY <1>1, <1>2

LEMMA ServedState ==
    ASSUME AmpleWindows, ServedInv, ExpiryInv, GrantInv,
           Settled, Server.exists, ~Server.deleting,
           Server.spec.provider \in Registered, ~retrying
    PROVE  ServedNow
  <1>0. TypeOK
    BY DEF GrantInv, IInv
  <1>1. Rests
    BY DEF Settled, Asleep, Rests
  <1>2. UpToDate /\ now < Server.status.expiresAt
    BY <1>0, <1>1, RestsBeforeExpiry DEF ServedInv, WorkInv, GrantInv
  <1>3. Target.exists
    <2>1. Reported(Server.spec.target) /\ Len(secw[Server.spec.target]) = 1
      BY <1>1, <1>2 DEF ServedInv, Attended, Settled, UpToDate
    <2> QED BY <2>1 DEF Reported, Target, Secret
  <1>4. Filled(Target, Server.spec.keys)
    BY <1>2, <1>3 DEF ServedInv, CurrentWhole, Target, UpToDate
  <1>5. \A k \in written(Server.spec.keys) : Target.data[k] \in TokensIn(Target)
    BY <1>0, <1>4, WrittenKeys DEF Filled, TokensIn
  <1> QED BY <1>2, <1>5, TokensGood DEF ServedNow

\* "Consumers reading the Secret see updated contents with no interruption":
\* whenever the controller has come to rest over a resource whose provider it
\* knows, and is not waiting to retry after a failure, every mapped key holds
\* a token that is neither revoked nor expired.  This is through rotations,
\* edits of the spec, deletions of the Secret, failed and lost calls and
\* crashes, however long calls take, for a provider with a fixed lifetime,
\* windows that cover the shortest delay, and Secrets nobody else edits.
THEOREM ConsumersServed ==
    ASSUME NoEdits, FixedLifetime, AmpleWindows
    PROVE  Spec => []ServedWhenSettled
  <1>1. ServedInv /\ ExpiryInv /\ GrantInv => ServedWhenSettled
    <2> SUFFICES ASSUME ServedInv, ExpiryInv, GrantInv, Settled, ~retrying,
                        Server.exists, ~Server.deleting,
                        Server.spec.provider \in Registered
                 PROVE  Server.spec.target \in Names /\ ServedNow
      BY DEF ServedWhenSettled, ServedNow
    <2>1. Rests
      BY DEF Settled, Asleep, Rests
    <2>2. Server.spec.target \in Names
      BY <2>1 DEF ServedInv, Rested, UpToDate
    <2> QED BY <2>2, ServedState
  <1> QED BY <1>1, ServedInit, ServedStep, ExpiryInit, ExpiryStep, GrantInit,
             GrantStep, PTL DEF Spec

----------------------------------------------------------------------------
(* Others may write Secrets, too. *)

\* Only Reconcile and whoever takes a Secret away leave a key without a value.
LEMMA CompleteStep ==
    ASSUME TypeOK, RunOK, Next, NEW n \in Names, NEW keys,
           written(keys) \subseteq DataKeys,
           Complete(Secret(n), keys) \/ Written(n),
           Written(n) => keys = ec.spec.keys
    PROVE  Complete(Secret(n)', keys)
  <1>1. CASE secw'[n] = secw[n] /\ ~Written(n)
    <2>1. Secret(n)' = Secret(n)
      BY <1>1 DEF Secret
    <2> QED BY <1>1, <2>1
  <1>2. CASE Forwarded(n) /\ ~Written(n)
    BY <1>2, ForwardedWindow
  <1>3. CASE secw'[n] = Append(secw[n], NoSecret)
    <2>1. Secret(n)' = NoSecret
      BY <1>3, Appended
    <2> QED BY <2>1 DEF NoSecret, Complete
  <1>4. CASE Written(n)
    BY <1>4, WrittenFilled DEF Filled, Complete
  <1>5. ASSUME NEW v, Edited(v, Secret(n)), secw'[n] = Append(secw[n], v), ~Written(n)
        PROVE  Complete(Secret(n)', keys)
    <2>1. Secret(n)' = v
      BY <1>5, Appended
    <2> QED BY <1>5, <2>1 DEF Edited, Complete, Empty, Foreign
  <1> QED BY <1>1, <1>2, <1>3, <1>4, <1>5, AnyWindows

LEMMA PublishedCompleteStep ==
    ASSUME TypeOK, RunOK, PublishedComplete, Next
    PROVE  PublishedComplete'
  <1> SUFFICES ASSUME pc' \in Published, NEW n \in Names, n = ec'.spec.target
               PROVE  Complete(Secret(n)', ec'.spec.keys)
    BY DEF PublishedComplete
  <1>1. ~Mint
    BY DEF Mint, Published
  <1>2. CASE WriteSecret
    <2>1. pc = "writeSecret" /\ writeTargetSecret /\ ec' = ec
      BY <1>2 DEF WriteSecret
    <2>2. Written(n)
      BY <2>1 DEF writeTargetSecret, PutSecret, Written, TypeOK
    <2> QED BY <2>1, <2>2, WrittenKeys, CompleteStep
  <1>3. CASE pc \in Published /\ ec'.spec = ec.spec
    <2>1. ~Written(n)
      BY <1>3 DEF Written, Published
    <2>2. Complete(Secret(n), ec.spec.keys)
      BY <1>3 DEF PublishedComplete
    <2> QED BY <1>3, <2>1, <2>2, WrittenKeys, CompleteStep
  <1>4. CASE PersistHandle \/ UpdateStatus
    <2>1. ec' = desired /\ pc \in ECWrites \cap Published
      BY <1>4 DEF PersistHandle, UpdateStatus, Put, Published, ECWrites
    <2> QED BY <1>3, <2>1, DesiredFields
  <1> QED BY <1>1, <1>2, <1>3, <1>4, MintedSteps DEF Minted, Published

LEMMA CurrentCompleteStep ==
    ASSUME LifeInv, PublishedComplete, CurrentComplete, Next
    PROVE  CurrentComplete'
  <1> USE DEF LifeInv, IInv
  <1> SUFFICES ASSUME UpToDate', NEW n \in Names, n = Server'.spec.target
               PROVE  Complete(Secret(n)', Server'.spec.keys)
    BY DEF CurrentComplete
  <1>1. CASE Server' = Server
    <2>1. UpToDate
      BY <1>1 DEF UpToDate
    <2>2. Complete(Secret(n), Server.spec.keys)
      BY <1>1, <2>1 DEF CurrentComplete
    <2>3. Written(n) => Server.spec.keys = ec.spec.keys
      BY <2>1, CurrentSpec DEF Written
    <2> QED BY <1>1, <2>2, <2>3, WrittenKeys, CompleteStep
  <1>2. CASE ECWrite
    <2>1. pc \in ECWrites /\ Server' = desired /\ Server = ec
      BY <1>2, ECWriteServer DEF ECWrite
    <2>2. ~Written(n)
      BY <2>1 DEF Written, ECWrites
    <2>3. n = ec.spec.target /\ Server'.spec = ec.spec
      BY <2>1, DesiredFields
    <2>4. Complete(Secret(n), ec.spec.keys)
      <3>1. CASE pc = "updateStatus"
        BY <2>3, <3>1 DEF PublishedComplete, Published
      <3>2. CASE pc # "updateStatus"
        <4>1. UpToDate
          BY <2>1, <3>2, DesiredFields DEF UpToDate
        <4> QED BY <2>1, <2>3, <4>1 DEF CurrentComplete
      <3> QED BY <3>1, <3>2
    <2> QED BY <2>2, <2>3, <2>4, WrittenKeys, CompleteStep
  <1> QED BY <1>1, <1>2, ECSteps, ServerKept, EditedNotUpToDate

LEMMA ProviderKnownStep ==
    ASSUME TypeOK, RunOK, FreshCopy, Observed, ProviderKnown, Next
    PROVE  ProviderKnown'
  <1>1. pc' = "mint" => ec'.spec.provider \in Registered
    BY MintSteps DEF ProviderKnown, ReconcileMint, ReadEC
  <1>2. ASSUME pc' \in Minted
        PROVE  ec'.spec.provider \in Registered
    <2>1. CASE Mint \/ WriteSecret
      BY <2>1 DEF Mint, WriteSecret, ProviderKnown, Minted
    <2>2. CASE PersistHandle \/ UpdateStatus
      <3>1. ec' = desired /\ pc \in ECWrites \cap Minted
        BY <2>2 DEF PersistHandle, UpdateStatus, Put, Minted, ECWrites
      <3> QED BY <3>1, DesiredFields DEF ProviderKnown
    <2>3. CASE UNCHANGED <<pc, ec>>
      BY <1>2, <2>3 DEF ProviderKnown
    <2> QED BY <1>2, <2>1, <2>2, <2>3, MintedSteps
  <1>3. ASSUME UpToDate'
        PROVE  Server'.spec.provider \in Registered
    <2>1. CASE Server' = Server
      BY <1>3, <2>1 DEF ProviderKnown, UpToDate
    <2>2. CASE ECWrite
      <3>1. pc \in ECWrites /\ Server' = desired /\ Server = ec
        BY <2>2, ECWriteServer DEF ECWrite
      <3>2. CASE pc = "updateStatus"
        BY <3>1, <3>2, DesiredFields DEF ProviderKnown, Minted
      <3>3. CASE pc # "updateStatus"
        <4>1. UpToDate
          BY <1>3, <3>1, <3>3, DesiredFields DEF UpToDate
        <4> QED BY <3>1, <4>1, DesiredFields DEF ProviderKnown
      <3> QED BY <3>2, <3>3
    <2> QED BY <1>3, <2>1, <2>2, ECSteps, ServerKept, EditedNotUpToDate
  <1> QED BY <1>1, <1>2, <1>3 DEF ProviderKnown

LEMMA StartCare ==
    ASSUME NEW c, Starts(c)
    PROVE  CareInv
  <1>1. Server.status.expiresAt = NoTime
    BY DEF Starts, Unused, Server
  <1>2. LifeInv /\ ExpiryInv /\ GrantInv /\ WorkInv
    BY StartLife, StartExpiry, StartGrant, StartWork
  <1> QED BY <1>1, <1>2 DEF Starts, CareInv, PublishedComplete, Published,
         CurrentComplete, UpToDate, ProviderKnown, Minted, Rested, Rests, Asleep

LEMMA CareStep ==
    ASSUME FixedLifetime, AmpleWindows
    PROVE  CareInv /\ [Next]_vars => CareInv'
  <1> SUFFICES ASSUME CareInv, [Next]_vars PROVE CareInv'
    OBVIOUS
  <1>1. LifeInv' /\ ExpiryInv' /\ GrantInv' /\ WorkInv'
    BY LifeStep, ExpiryStep, GrantStep, WorkStep DEF CareInv
  <1>2. CASE Next
    <2>1. PublishedComplete' /\ CurrentComplete'
      BY <1>2, PublishedCompleteStep, CurrentCompleteStep DEF CareInv, LifeInv,
         IInv
    <2>2. ProviderKnown' /\ Rested'
      BY <1>2, ProviderKnownStep, RestedStep DEF CareInv, WorkInv, IInv
    <2> QED BY <1>1, <2>1, <2>2 DEF CareInv
  <1>3. CASE UNCHANGED vars
    BY <1>1, <1>3 DEF vars, cluster, locals, queue, timer, provider, CareInv,
       PublishedComplete, CurrentComplete, Complete, ProviderKnown, Rested,
       Rests, Asleep, RotationBound, UpToDate, Secret, Server
  <1> QED BY <1>2, <1>3

LEMMA OthersKeepCare ==
    ASSUME CareInv, OthersStep
    PROVE  CareInv'
  <1>u. /\ UNCHANGED <<now, ecw, pc, ec, token, started, ledger, wakeAt, retrying, queued>>
        /\ Server' = Server
    BY DEF OthersStep, locals, queue, timer, provider, Server
  <1>1. LifeInv' /\ ExpiryInv' /\ WorkInv'
    BY OthersKeepLife, OthersKeepExpiry, OthersKeepWork DEF CareInv
  <1>2. GrantInv'
    BY <1>1, <1>u DEF CareInv, GrantInv, WorkInv, StartedBefore, GrantKept,
                     GrantCovers
  <1>3. ProviderKnown' /\ Rested'
    BY <1>u DEF CareInv, ProviderKnown, Rested, Rests, Asleep,
                RotationBound, UpToDate
  <1>4. ASSUME NEW n \in Names, NEW keys, written(keys) \subseteq DataKeys,
               Complete(Secret(n), keys)
        PROVE  Complete(Secret(n)', keys)
    <2>1. CASE secw'[n] = secw[n]
      <3>1. Secret(n)' = Secret(n)
        BY <2>1 DEF Secret
      <3> QED BY <1>4, <3>1
    <2>2. ASSUME NEW v, Shrunk(v, Secret(n)), secw'[n] = Append(secw[n], v)
          PROVE  Complete(Secret(n)', keys)
      <3>1. Secret(n)' = v
        BY <2>2, Appended DEF CareInv, WorkInv, IInv
      <3> QED BY <1>4, <2>2, <3>1 DEF Shrunk, Complete, Empty, Foreign
    <2> QED BY <2>1, <2>2 DEF OthersStep
  <1>5. /\ written(Server.spec.keys) \subseteq DataKeys
        /\ written(ec.spec.keys) \subseteq DataKeys
    BY WrittenKeys DEF CareInv, WorkInv, IInv
  <1>6. PublishedComplete'
    BY <1>u, <1>4, <1>5 DEF CareInv, PublishedComplete
  <1>7. CurrentComplete'
    BY <1>u, <1>4, <1>5 DEF CareInv, CurrentComplete, UpToDate
  <1> QED BY <1>1, <1>2, <1>3, <1>6, <1>7 DEF CareInv

\* Then the Secret serves, as long as it is there.
LEMMA CareServes ==
    ASSUME AmpleWindows, CareInv, Settled, UpToDate, ~retrying,
           Target.owner = "ec"
    PROVE  \A k \in written(Server.spec.keys) :
              \/ Target.data[k] = Foreign
              \/ /\ Target.data[k] \in (1..Len(ledger)) \ revoked
                 /\ now < ledger[Target.data[k]].expiry
  <1>0. TypeOK
    BY DEF CareInv, WorkInv, IInv
  <1>1. Rests
    BY DEF Settled, Asleep, Rests, CareInv, ProviderKnown, UpToDate
  <1>2. now < Server.status.expiresAt
    BY <1>0, <1>1, RestsBeforeExpiry DEF CareInv, WorkInv, GrantInv
  <1> SUFFICES ASSUME NEW k \in written(Server.spec.keys), Target.data[k] # Foreign
               PROVE  /\ Target.data[k] \in (1..Len(ledger)) \ revoked
                      /\ now < ledger[Target.data[k]].expiry
    OBVIOUS
  <1>3. Target.data[k] # Empty
    BY DEF CareInv, CurrentComplete, Complete, Target, UpToDate
  <1>4. Target.data[k] \in TokensIn(Target)
    BY <1>0, <1>3, WrittenKeys DEF TokensIn
  <1> QED BY <1>2, <1>4, TokensGood DEF CareInv

\* Somebody else's version of a Secret is followed by one of ours.
Reclaimed(w) ==
    \A j \in 1..Len(w) : w[j].exists /\ w[j].owner # "ec" =>
        \E i \in 1..Len(w) : i > j /\ w[i].exists /\ w[i].owner = "ec"

\* Then what the cache shows is ours, or there is one of ours to come, so
\* that the watch still has to tell of it when the controller goes to rest.
LEMMA ReportedAtRest ==
    ASSUME CareInv, Next, Rests', NEW n \in Names, n = Server.spec.target,
           Reclaimed(secw[n]), Rests => Reported(n)
    PROVE  Reported(n)'
  <1>0. /\ TypeOK /\ FreshCopy /\ UnknownFails /\ StatusNotified /\ ~queued'
    BY DEF CareInv, WorkInv, IInv, Rests, Asleep
  <1>1. CASE Rests
    BY <1>0, <1>1, ReportedStep
  <1>2. CASE secw' = secw /\ CachedSecret(n).exists
    <2>1. 1 \in 1..Len(secw[n])
      BY <1>0, SecretSeq
    <2>2. Reported(n)
      BY <1>2, <2>1 DEF Reclaimed, Reported, CachedSecret
    <2> QED BY <1>2, <2>2 DEF Reported
  <1> QED BY <1>0, <1>1, <1>2, RestSteps

LEMMA OthersReport ==
    ASSUME TypeOK, OthersStep, NEW n \in Names, Reported(n)
    PROVE  Reported(n)'
  <1>1. PICK i \in 1..Len(secw[n]) : secw[n][i].exists /\ secw[n][i].owner = "ec"
    BY DEF Reported
  <1>2. CASE secw'[n] = secw[n]
    BY <1>1, <1>2 DEF Reported
  <1>3. ASSUME NEW v, secw'[n] = Append(secw[n], v)
        PROVE  Reported(n)'
    <2>1. i \in 1..Len(secw'[n]) /\ secw'[n][i] = secw[n][i]
      BY <1>3, Appended, SecretSeq
    <2> QED BY <1>1, <2>1 DEF Reported
  <1> QED BY <1>2, <1>3 DEF OthersStep

\* A resource goes to rest, or stays there, with the spec that it had.
LEMMA RestTarget ==
    ASSUME CareInv, Next \/ OthersStep, Rests'
    PROVE  Server' = Server /\ Server.spec.target \in Names
  <1>0. TypeOK /\ FreshCopy /\ UnknownFails /\ StatusNotified /\ Rested
    BY DEF CareInv, WorkInv, IInv
  <1>1. CASE Next
    BY <1>0, <1>1, RestSteps DEF Rested, UpToDate
  <1>2. CASE OthersStep
    <2>1. Server' = Server /\ Rests
      BY <1>2 DEF OthersStep, locals, queue, timer, Server, Rests, Asleep
    <2> QED BY <1>0, <2>1 DEF Rested, UpToDate
  <1> QED BY <1>1, <1>2

\* A Secret of this resource.
Owned(s) == s.exists /\ s.owner = "ec"

LEMMA WatchedStep ==
    ASSUME CareInv, Next \/ OthersStep, Rests', Len(secw'[Server.spec.target]) \in Nat \ {0},
           \/ Owned(Secret(Server.spec.target)')
           \/ /\ Reclaimed(secw[Server.spec.target])
              /\ Rests => Reported(Server.spec.target)
    PROVE  Reported(Server.spec.target)'
  <1>0. TypeOK
    BY DEF CareInv, WorkInv, IInv
  <1>1. Server' = Server
    BY RestTarget
  <1>2. PICK n \in Names : n = Server.spec.target
    BY RestTarget
  <1>3. SUFFICES Reported(n)'
    BY <1>1, <1>2 DEF Reported
  <1>4. CASE Owned(Secret(Server.spec.target)')
    <2>1. Len(secw'[n]) \in 1..Len(secw'[n])
      BY <1>2
    <2>2. Owned(secw'[n][Len(secw'[n])])
      BY <1>1, <1>2, <1>4 DEF Secret
    <2> QED BY <2>1, <2>2 DEF Reported, Owned
  <1>5. CASE Reclaimed(secw[n]) /\ (Rests => Reported(n))
    <2>1. CASE Next
      BY <1>2, <1>5, <2>1, ReportedAtRest
    <2>2. CASE OthersStep
      <3>1. Rests
        BY <2>2 DEF OthersStep, locals, queue, timer, Server, Rests, Asleep
      <3> QED BY <1>0, <1>5, <2>2, <3>1, OthersReport
    <2> QED BY <2>1, <2>2
  <1> QED BY <1>2, <1>4, <1>5

----------------------------------------------------------------------------
(* Another replica may see to the same Secret.  As in BrokerSafetyProofs,  *)
(* what follows is about one of them, for RolloutProofs to put together.   *)

\* Every credential lives as long as it was granted for, and none longer than
\* one granted now.
Granted ==
    /\ \A t \in 1..Len(ledger) : \E l \in Lifetimes :
          ledger[t].expiry = ledger[t].mintedAt + l
    /\ \A t \in 1..Len(ledger) : \A l \in Lifetimes : ledger[t].expiry <= now + l

\* Nor does status say so.
StatusPast == \A l \in Lifetimes : Server.status.expiresAt <= now + l

\* A Secret of ours has a token in it.
TokensHeld == \A n \in Names : Owned(Secret(n)) => TokensIn(Secret(n)) # {}

\* What the Secret discloses lives that long.
Late(n, e) ==
    \A t \in TokensIn(Secret(n)) : t \in 1..Len(ledger) /\ ledger[t].expiry >= e

\* By so much, at most, is the other replica late with its credential.
PublishedLate(d) ==
    pc \in Published => \A n \in Names : n = ec.spec.target =>
        Late(n, ledger[token].expiry - d)

CurrentLate(d) ==
    UpToDate => \A n \in Names : n = Server.spec.target =>
        Late(n, Server.status.expiresAt - d)

\* A credential is written to the Secret within that time of being minted.
Brisk(d) == pc = "writeSecret" => now <= ledger[token].mintedAt + d

\* What both replicas share,
JointInv(d) ==
    /\ GrantCovers(d) /\ Granted /\ StatusPast /\ TokensHeld /\ CurrentLate(d)

\* and what is one's own.
TendsOn ==
    /\ UnknownFails /\ StatusNotified /\ Woken /\ Rested /\ Attended
    /\ OursOrNone /\ ProviderKnown /\ StartedBefore

TendInv(d) == TendsOn /\ PublishedLate(d)

\* The other one's step stores a version of a Secret that is ours or none.
LearnsSecret(n) ==
    \/ secw'[n] = secw[n]
    \/ \E v : (v.exists => v.owner = "ec") /\ secw'[n] = Append(secw[n], v)

LearnsOwned(n) == \E v : Owned(v) /\ secw'[n] = Append(secw[n], v)

\* How a reconcile comes to have published,
LEMMA PublishedSteps ==
    ASSUME TypeOK, Next, pc' \in Published
    PROVE  \/ /\ pc = "writeSecret" /\ UNCHANGED <<ec, token, ledger>>
              /\ \A n \in Names : n = ec.spec.target => Written(n)
           \/ /\ pc \in Published /\ ec'.spec = ec.spec
              /\ UNCHANGED <<token, ledger>>
  <1>1. ~Mint
    BY DEF Mint, Published
  <1>l. pc \in Minted => ledger' = ledger
    BY LedgerSteps DEF Minted
  <1>2. CASE WriteSecret
    BY <1>2 DEF WriteSecret, writeTargetSecret, PutSecret, Written, TypeOK,
       provider
  <1>3. CASE PersistHandle \/ UpdateStatus
    <2>1. ec' = desired /\ pc \in ECWrites \cap Published /\ token' = token
      BY <1>3 DEF PersistHandle, UpdateStatus, Put, Published, ECWrites
    <2> QED BY <1>l, <2>1, DesiredFields DEF Published, Minted
  <1>4. CASE UNCHANGED <<pc, ec, token>>
    BY <1>l, <1>4 DEF Published, Minted
  <1> QED BY <1>1, <1>2, <1>3, <1>4, MintedSteps DEF Minted, Published

\* and status to describe the current spec.
LEMMA CurrentSteps ==
    ASSUME TypeOK, RunOK, FreshCopy, Observed, Next, UpToDate'
    PROVE  \/ /\ UpToDate /\ Server'.spec = Server.spec
              /\ Server'.status.expiresAt = Server.status.expiresAt
           \/ /\ pc = "updateStatus" /\ Server'.spec = ec.spec
              /\ Server'.status.expiresAt = Persisted(ledger[token].expiry)
  <1>1. CASE Server' = Server
    BY <1>1 DEF UpToDate
  <1>2. CASE ECWrite
    <2>1. pc \in ECWrites /\ Server' = desired /\ Server = ec
      BY <1>2, ECWriteServer DEF ECWrite
    <2>2. CASE pc = "updateStatus"
      <3>1. desired.status.expiresAt = Persisted(ledger[token].expiry)
        BY <2>2 DEF desired, activeStatus, TypeOK, LocalsOK, Credentials
      <3> QED BY <2>1, <2>2, <3>1, DesiredFields
    <2>3. CASE pc # "updateStatus"
      <3>1. UpToDate
        BY <2>1, <2>3, DesiredFields DEF UpToDate
      <3> QED BY <2>1, <2>3, <3>1, DesiredFields
    <2> QED BY <2>2, <2>3
  <1> QED BY <1>1, <1>2, ECSteps, ServerKept, EditedNotUpToDate

LEMMA GrantedStep ==
    ASSUME FixedLifetime, TypeOK, Granted, Next
    PROVE  Granted'
  <1>t. now \in Nat /\ Len(ledger) \in Nat /\ \A l \in Lifetimes : l \in Nat
    BY LifetimesAssumption DEF TypeOK
  <1> SUFFICES ASSUME NEW t \in 1..Len(ledger')
               PROVE  /\ \E l \in Lifetimes :
                            ledger'[t].expiry = ledger'[t].mintedAt + l
                      /\ \A l \in Lifetimes : ledger'[t].expiry <= now' + l
    BY DEF Granted
  <1>1. CASE t \in 1..Len(ledger) /\ ledger'[t] = ledger[t]
    <2>1. ledger[t].expiry \in Nat /\ \A l \in Lifetimes : ledger[t].expiry <= now + l
      BY <1>1, Expiries DEF Granted
    <2>2. \A l \in Lifetimes : ledger[t].expiry <= now' + l
      BY <1>t, <2>1, ClockSteps
    <2> QED BY <1>1, <2>2 DEF Granted
  <1>2. ASSUME NEW l \in Lifetimes, Grant(l), now' = now, t = Len(ledger) + 1
        PROVE  /\ \E k \in Lifetimes :
                     ledger'[t].expiry = ledger'[t].mintedAt + k
               /\ \A k \in Lifetimes : ledger'[t].expiry <= now' + k
    <2>1. ledger'[t].expiry = now + l /\ ledger'[t].mintedAt = now
      BY <1>2 DEF Grant, TypeOK
    <2>2. \A k \in Lifetimes : k = l
      BY DEF FixedLifetime
    <2> QED BY <1>t, <1>2, <2>1, <2>2
  <1>3. ASSUME NEW l \in Lifetimes, Grant(l)
        PROVE  t \in 1..Len(ledger) \/ t = Len(ledger) + 1
    BY <1>t, <1>3, GrantType
  <1> QED BY <1>1, <1>2, <1>3, LedgerSteps, LedgerGrows

LEMMA StatusPastStep ==
    ASSUME TypeOK, RunOK, FreshCopy, Granted, StatusPast, Next
    PROVE  StatusPast'
  <1>t. now \in Nat /\ \A l \in Lifetimes : l \in Nat
    BY LifetimesAssumption DEF TypeOK
  <1> SUFFICES ASSUME NEW l \in Lifetimes
               PROVE  Server'.status.expiresAt <= now' + l
    BY DEF StatusPast
  <1>1. CASE Server'.status.expiresAt = Server.status.expiresAt
    <2>1. Server.status.expiresAt \in Int /\ Server.status.expiresAt <= now + l
      BY WindowTypes, StatusWindowType DEF StatusPast
    <2> QED BY <1>t, <1>1, <2>1, ClockSteps
  <1>2. CASE ECWrite
    <2>1. pc \in ECWrites /\ Server' = desired /\ Server = ec
      BY <1>2, ECWriteServer DEF ECWrite
    <2>2. CASE pc # "updateStatus"
      BY <1>1, <2>1, <2>2, DesiredTimes
    <2>3. CASE pc = "updateStatus"
      <3>1. Server'.status.expiresAt = Persisted(ledger[token].expiry)
        BY <2>1, <2>3 DEF desired, activeStatus, TypeOK, LocalsOK, Credentials
      <3>2. token \in 1..Len(ledger)
        BY <2>3 DEF RunOK, Minted
      <3>3. ledger[token].expiry \in Nat /\ ledger[token].expiry <= now + l
        BY <3>2, Expiries DEF Granted
      <3>4. /\ Persisted(ledger[token].expiry) \in Int
            /\ Persisted(ledger[token].expiry) <= ledger[token].expiry
        BY <3>3, PersistedBounds
      <3> QED BY <1>t, <3>1, <3>3, <3>4, ClockSteps
    <2> QED BY <2>2, <2>3
  <1>3. CASE EditSpec \/ DeleteEC
    BY <1>1, <1>3, EditSpecServer, DeleteECServer
  <1>4. CASE ecw' = ecw \/ DeliverEC \/ Crash
    BY <1>1, <1>4, ServerKept
  <1> QED BY <1>2, <1>3, <1>4, ECSteps

LEMMA TokensHeldStep ==
    ASSUME NoEdits, TypeOK, RunOK, TokensHeld, Next
    PROVE  TokensHeld'
  <1> SUFFICES ASSUME NEW n \in Names, Owned(Secret(n)')
               PROVE  TokensIn(Secret(n)') # {}
    BY DEF TokensHeld
  <1>1. CASE Secret(n)' = Secret(n)
    BY <1>1 DEF TokensHeld
  <1>2. CASE secw'[n] = secw[n]
    BY <1>1, <1>2 DEF Secret
  <1>3. CASE Forwarded(n)
    BY <1>1, <1>3, ForwardedWindow
  <1>4. CASE secw'[n] = Append(secw[n], NoSecret)
    <2>1. Secret(n)' = NoSecret
      BY <1>4, Appended
    <2> QED BY <2>1 DEF NoSecret, Owned
  <1>5. CASE Written(n)
    <2>1. PICK o \in Outputs : TRUE
      BY OutputsAssumption
    <2> DEFINE k == secretKey(ec.spec.keys, o)
    <2>2. k \in written(ec.spec.keys) /\ k \in DataKeys
      BY <2>1, WrittenKeys DEF written
    <2> HIDE DEF k
    <2>3. Secret(n)'.data[k] \notin {Empty, Foreign}
      BY <1>5, <2>2, WrittenFilled DEF Filled
    <2> QED BY <2>2, <2>3 DEF TokensIn
  <1> QED BY <1>2, <1>3, <1>4, <1>5, SecretWindows

\* A step leaves no token in the Secret that expires earlier than those it held
\* and than those that a call in time would put there.
LEMMA LateKept ==
    ASSUME NEW d \in Nat, TypeOK, RunOK, TokensManaged, Granted, Brisk(d), Next,
           NEW n \in Names, NEW e \in Int, Late(n, e - d),
           \A l \in Lifetimes : e <= now + l,
           NEW t \in TokensIn(Secret(n))'
    PROVE  t \in 1..Len(ledger') /\ ledger'[t].expiry >= e - d
  <1>1. CASE t \in TokensIn(Secret(n))
    <2>1. t \in 1..Len(ledger) /\ ledger[t].expiry >= e - d
      BY <1>1 DEF Late
    <2> QED BY <2>1, LedgerGrows
  <1>2. CASE pc = "writeSecret" /\ t = token
    <2>1. token \in 1..Len(ledger) /\ now <= ledger[token].mintedAt + d
      BY <1>2 DEF RunOK, Minted, Brisk
    <2>2. PICK l \in Lifetimes :
            ledger[token].expiry = ledger[token].mintedAt + l
      BY <2>1 DEF Granted
    <2>3. now \in Nat /\ ledger[token].mintedAt \in Nat /\ l \in Nat
      BY <2>1, MintTimes, LifetimesAssumption DEF TypeOK
    <2>4. e <= now + l
      OBVIOUS
    <2>5. ledger[token].expiry >= e - d
      BY <2>1, <2>2, <2>3, <2>4
    <2> QED BY <1>2, <2>1, <2>5, LedgerGrows
  <1>3. CASE Shrink
    BY <1>1, <1>3 DEF Shrink
  <1>4. CASE WroteOnly
    <2>1. CASE n = ec.spec.target
      BY <1>2, <1>4, <2>1 DEF WroteOnly
    <2>2. CASE n # ec.spec.target
      <3>1. Secret(n)' = Secret(n)
        BY <1>4, <2>2 DEF WroteOnly
      <3>2. TokensIn(Secret(n))' = TokensIn(Secret(n))
        BY <3>1 DEF TokensIn
      <3> QED BY <1>1, <3>2
    <2> QED BY <2>1, <2>2
  <1> QED BY <1>3, <1>4, SecretTokens

LEMMA PublishedLateStep ==
    ASSUME NEW d \in Nat, TypeOK, RunOK, TokensManaged, Granted, Brisk(d),
           PublishedLate(d), Next
    PROVE  PublishedLate(d)'
  <1> SUFFICES ASSUME pc' \in Published, NEW n \in Names, n = ec'.spec.target,
                      NEW t \in TokensIn(Secret(n))'
               PROVE  /\ t \in 1..Len(ledger')
                      /\ ledger'[t].expiry >= ledger'[token'].expiry - d
    BY DEF PublishedLate, Late
  <1>1. CASE pc = "writeSecret" /\ UNCHANGED <<ec, token, ledger>> /\ Written(n)
    <2>1. token \in 1..Len(ledger) /\ ledger[token].expiry \in Nat
      BY <1>1, Expiries DEF RunOK, Minted
    <2>2. Secret(n)' = mutate(CachedSecret(n), ec.spec.keys, token)
      BY <1>1, WrittenFilled
    <2>3. ec.spec.keys \in KeyMaps /\ token \in Nat
      BY SpecFields DEF TypeOK, LocalsOK
    <2>4. CachedSecret(n) \in Secrets /\ Managed(CachedSecret(n))
      <3>1. CachedSecret(n) \in Secrets
        BY WindowTypes
      <3>2. 1 \in 1..Len(secw[n])
        BY DEF TypeOK
      <3>3. Managed(CachedSecret(n))
        BY <3>2 DEF TokensManaged, Managed, CachedSecret
      <3> QED BY <3>1, <3>3
    <2>5. TokensIn(mutate(CachedSecret(n), ec.spec.keys, token)) \subseteq {token}
      BY <2>3, <2>4, MutateTokens
    <2>6. t = token
      BY <2>2, <2>5 DEF TokensIn
    <2> QED BY <1>1, <2>1, <2>6
  <1>2. CASE pc \in Published /\ ec'.spec = ec.spec /\ UNCHANGED <<token, ledger>>
    <2>1. token \in 1..Len(ledger)
      BY <1>2 DEF RunOK, Minted, Published
    <2>2. PICK e \in Int : e = ledger[token].expiry
      BY <2>1, Expiries
    <2>3. \A l \in Lifetimes : e <= now + l
      BY <2>1, <2>2 DEF Granted
    <2>4. Late(n, e - d)
      BY <1>2, <2>2 DEF PublishedLate
    <2>5. t \in 1..Len(ledger') /\ ledger'[t].expiry >= e - d
      BY <2>3, <2>4, LateKept
    <2> QED BY <1>2, <2>2, <2>5
  <1> QED BY <1>1, <1>2, PublishedSteps

LEMMA CurrentLateStep ==
    ASSUME NEW d \in Nat, TypeOK, RunOK, FreshCopy, Observed, TokensManaged,
           Granted, StatusPast, Brisk(d), PublishedLate(d), CurrentLate(d), Next,
           TypeOK'
    PROVE  CurrentLate(d)'
  <1> SUFFICES ASSUME UpToDate', NEW n \in Names, n = Server'.spec.target,
                      NEW t \in TokensIn(Secret(n))'
               PROVE  /\ t \in 1..Len(ledger')
                      /\ ledger'[t].expiry >= Server'.status.expiresAt - d
    BY DEF CurrentLate, Late
  <1>1. CASE /\ UpToDate /\ Server'.spec = Server.spec
             /\ Server'.status.expiresAt = Server.status.expiresAt
    <2>1. PICK e \in Int : e = Server.status.expiresAt
      BY WindowTypes, StatusWindowType
    <2>2. Late(n, e - d) /\ \A l \in Lifetimes : e <= now + l
      BY <1>1, <2>1 DEF CurrentLate, StatusPast
    <2> QED BY <1>1, <2>1, <2>2, LateKept
  <1>2. CASE /\ pc = "updateStatus" /\ Server'.spec = ec.spec
             /\ Server'.status.expiresAt = Persisted(ledger[token].expiry)
    <2>1. token \in 1..Len(ledger)
      BY <1>2 DEF RunOK, Minted
    <2>2. PICK e \in Nat : e = ledger[token].expiry
      BY <2>1, Expiries
    <2>3. Late(n, e - d) /\ \A l \in Lifetimes : e <= now + l
      BY <1>2, <2>1, <2>2 DEF PublishedLate, Published, Granted
    <2>4. t \in 1..Len(ledger') /\ ledger'[t].expiry >= e - d
      BY <2>3, LateKept
    <2>5. Persisted(e) \in Int /\ Persisted(e) <= e
      BY PersistedBounds
    <2>6. ledger'[t].expiry \in Nat
      <3>1. \A c \in Tokens : c.expiry \in Nat
        BY DEF Tokens
      <3> QED BY <2>4, <3>1 DEF TypeOK
    <2> QED BY <1>2, <2>2, <2>4, <2>5, <2>6
  <1> QED BY <1>1, <1>2, CurrentSteps

\* What the other replica does not disturb.
LEMMA TracedLearned ==
    ASSUME TypeOK, OursOrNone, NEW n \in Names, LearnsSecret(n),
           Traced(n) \/ LearnsOwned(n)
    PROVE  Traced(n)'
  <1>t. Len(secw[n]) \in Nat /\ Len(secw[n]) >= 1
    BY SecretSeq
  <1>1. CASE secw'[n] = secw[n] /\ Traced(n)
    BY <1>1 DEF Traced, Reported
  <1>2. ASSUME NEW v, secw'[n] = Append(secw[n], v)
        PROVE  /\ Len(secw[n]) + 1 \in 1..Len(secw'[n])
               /\ secw'[n][Len(secw[n]) + 1] = v
               /\ \A i \in 1..Len(secw[n]) :
                     i \in 1..Len(secw'[n]) /\ secw'[n][i] = secw[n][i]
               /\ \A i \in 1..Len(secw'[n]) :
                     i \in 1..Len(secw[n]) \/ i = Len(secw[n]) + 1
    BY <1>t, <1>2, Appended
  <1>3. ASSUME NEW v, secw'[n] = Append(secw[n], v), Owned(v)
        PROVE  Traced(n)'
    BY <1>2, <1>3 DEF Traced, Reported, Owned
  <1>4. ASSUME NEW v, secw'[n] = Append(secw[n], v), v.exists => v.owner = "ec",
               Traced(n)
        PROVE  Traced(n)'
    <2>1. CASE v.exists
      BY <1>3, <1>4, <2>1 DEF Owned
    <2>2. CASE ~v.exists
      BY <1>2, <1>4, <2>2 DEF Traced, Reported
    <2> QED BY <2>1, <2>2
  <1>5. CASE LearnsOwned(n)
    BY <1>3, <1>5 DEF LearnsOwned
  <1> QED BY <1>1, <1>4, <1>5 DEF LearnsSecret

LEMMA ReportedLearned ==
    ASSUME TypeOK, NEW n \in Names, LearnsSecret(n), Reported(n)
    PROVE  Reported(n)'
  <1>t. Len(secw[n]) \in Nat /\ Len(secw[n]) >= 1
    BY SecretSeq
  <1>1. CASE secw'[n] = secw[n]
    BY <1>1 DEF Reported
  <1>2. ASSUME NEW v, secw'[n] = Append(secw[n], v)
        PROVE  Reported(n)'
    <2>1. \A i \in 1..Len(secw[n]) :
             i \in 1..Len(secw'[n]) /\ secw'[n][i] = secw[n][i]
      BY <1>t, <1>2, Appended
    <2> QED BY <2>1 DEF Reported
  <1> QED BY <1>1, <1>2 DEF LearnsSecret

LEMMA OursOrNoneLearned ==
    ASSUME TypeOK, OursOrNone, \A n \in Names : LearnsSecret(n)
    PROVE  OursOrNone'
  <1> SUFFICES ASSUME NEW n \in Names, NEW i \in 2..Len(secw'[n]),
                      secw'[n][i].exists
               PROVE  secw'[n][i].owner = "ec"
    BY DEF OursOrNone
  <1>t. Len(secw[n]) \in Nat /\ Len(secw[n]) >= 1
    BY SecretSeq
  <1>1. CASE secw'[n] = secw[n]
    BY <1>1 DEF OursOrNone
  <1>2. ASSUME NEW v, v.exists => v.owner = "ec", secw'[n] = Append(secw[n], v)
        PROVE  secw'[n][i].owner = "ec"
    <2>1. i \in 2..Len(secw[n]) \/ i = Len(secw[n]) + 1
      BY <1>t, <1>2, Appended
    <2>2. i \in 2..Len(secw[n]) => i \in 1..Len(secw[n])
      BY <1>t
    <2> QED BY <1>2, <2>1, <2>2, Appended DEF OursOrNone
  <1> QED BY <1>1, <1>2 DEF LearnsSecret

\* A replica to which the other has something to tell is not asleep.
LEMMA AsleepLearned ==
    ASSUME TypeOK, Learns, Asleep'
    PROVE  Asleep /\ Server' = Server /\ UNCHANGED <<wakeAt, retrying>>
  <1>1. UNCHANGED <<pc, queued, wakeAt, retrying>>
    BY DEF Learns, queue, timer
  <1>2. ASSUME NEW v, ecw' = Append(ecw, v), v \in Credentials
        PROVE  FALSE
    <2>1. Len(ecw') = Len(ecw) + 1 /\ Len(ecw) >= 1 /\ Len(ecw) \in Nat
      BY <1>2 DEF TypeOK
    <2> QED BY <2>1 DEF Asleep
  <1>3. ecw' = ecw
    BY <1>2 DEF Learns, Successor
  <1> QED BY <1>1, <1>3 DEF Asleep, Server

\* What a replica sees to stays so when the other takes a step.
LEMMA TendLearned ==
    ASSUME TypeOK, RunOK, TendsOn, Learns, now' = now \/ now' = now + 1,
           \A n \in Names : LearnsSecret(n),
           UpToDate' => Server'.spec.provider \in Registered
    PROVE  TendsOn'
  <1> USE DEF TendsOn
  <1>u. UNCHANGED <<pc, ec, token, started, fail, queued, wakeAt, retrying>>
    BY DEF Learns, queue, timer
  <1>t. now \in Nat /\ wakeAt \in Int /\ \A d \in BackoffDelays : d \in Nat
    BY BackoffAssumption DEF TypeOK, Times
  <1>1. UnknownFails'
    BY <1>u DEF UnknownFails
  <1>2. StatusNotified'
    <2>1. ASSUME NEW v \in Credentials, ecw' = Append(ecw, v)
          PROVE  Len(ecw') = Len(ecw) + 1 /\ Len(ecw) >= 1 /\ Len(ecw) \in Nat
      BY <2>1 DEF TypeOK
    <2>2. Len(ecw) > 1 => Len(ecw') > 1
      BY <2>1 DEF Learns, Successor
    <2> QED BY <1>u, <2>2 DEF StatusNotified
  <1>3. Woken'
    BY AsleepLearned DEF Woken
  <1>r. ASSUME Rests'
        PROVE  Rests /\ Server' = Server /\ wakeAt' = wakeAt
    BY <1>r, AsleepLearned DEF Rests
  <1>4. Rested'
    BY <1>r DEF Rested, UpToDate, RotationBound
  <1>5. Attended'
    <2> SUFFICES ASSUME Rests' PROVE Reported(Server.spec.target)'
      BY DEF Attended
    <2>1. Rests /\ Server' = Server /\ UpToDate
      BY <1>r DEF Rested
    <2>2. PICK n \in Names : n = Server.spec.target
      BY <2>1 DEF UpToDate
    <2>3. Reported(n)'
      BY <2>1, <2>2, ReportedLearned DEF Attended
    <2> QED BY <2>1, <2>2, <2>3 DEF Reported
  <1>6. OursOrNone'
    BY OursOrNoneLearned
  <1>7. ProviderKnown'
    BY <1>u DEF ProviderKnown
  <1>8. StartedBefore'
    <2>1. pc # "idle" => started \in Nat
      BY DEF RunOK
    <2>2. pc \in Minted => ledger'[token] = ledger[token]
      BY DEF RunOK, Learns
    <2> QED BY <1>t, <1>u, <2>1, <2>2 DEF StartedBefore
  <1> QED BY <1>1, <1>2, <1>3, <1>4, <1>5, <1>6, <1>7, <1>8

\* and when it takes one itself.
LEMMA TendStep ==
    ASSUME NEW d \in Nat, NoEdits, ReplicaInv, Granted, Brisk(d), TendInv(d), Next,
           UpToDate => \A n \in Names : n = Server.spec.target => Traced(n)
    PROVE  TendInv(d)'
  <1> USE DEF ReplicaInv, TendInv, TendsOn
  <1>1. DeletionHeld
    BY Generation DEF Held, Server, DeletionHeld, TypeOK
  <1>2. UnknownFails' /\ StatusNotified'
    BY UnknownFailsStep, StatusNotifiedStep
  <1>3. Woken'
    BY <1>1, WokenStep
  <1>4. Rested' /\ Attended'
    BY RestedStep, AttendedStep
  <1>5. OursOrNone' /\ ProviderKnown' /\ StartedBefore'
    BY OursOrNoneStep, ProviderKnownStep, StartedBeforeStep
  <1>6. PublishedLate(d)'
    BY PublishedLateStep
  <1> QED BY <1>2, <1>3, <1>4, <1>5, <1>6

LEMMA JointStep ==
    ASSUME NEW d \in Nat, NoEdits, FixedLifetime, AmpleFor(d), ReplicaInv,
           Brisk(d), TendInv(d), JointInv(d), Next
    PROVE  JointInv(d)'
  <1> USE DEF ReplicaInv, TendInv, TendsOn, JointInv
  <1>1. GrantCovers(d)'
    BY GrantCoversStep
  <1>2. Granted' /\ StatusPast' /\ TokensHeld'
    BY GrantedStep, StatusPastStep, TokensHeldStep
  <1>3. TypeOK'
    BY ReplicaStep
  <1>4. CurrentLate(d)'
    BY <1>3, CurrentLateStep
  <1> QED BY <1>1, <1>2, <1>4

\* A replica that begins has nothing to see to yet.
LEMMA StartTend ==
    ASSUME NEW c, Starts(c), NEW d \in Nat
    PROVE  JointInv(d) /\ TendInv(d)
  <1>1. Server.status.expiresAt = NoTime /\ ~Server.deleting
    BY DEF Starts, Unused, Server
  <1>2. ledger = <<>> /\ now = 0 /\ pc = "idle" /\ queued
    BY DEF Starts
  <1>3. PICK secrets \in InitialSecrets : secw = [n \in Names |-> <<secrets[n]>>]
    BY DEF Starts
  <1>4. \A n \in Names : Len(secw[n]) = 1 /\ Secret(n) = secrets[n]
    BY <1>3 DEF Secret
  <1>5. GrantCovers(d) /\ Granted
    BY <1>1, <1>2 DEF GrantCovers, grantedLifetime, Granted
  <1>6. StatusPast
    BY <1>1, <1>2, LifetimesAssumption DEF StatusPast, NoTime
  <1>7. TokensHeld
    BY <1>4, InitialSecretsAssumption DEF TokensHeld, Owned
  <1>8. CurrentLate(d) /\ ~UpToDate
    BY <1>1 DEF CurrentLate, UpToDate
  <1>9. OursOrNone
    BY <1>4 DEF OursOrNone
  <1>10. TendInv(d)
    BY <1>2, <1>8, <1>9
    DEF TendInv, TendsOn, UnknownFails, StatusNotified, Woken, Rested, Attended,
        Rests, Asleep, ProviderKnown, Minted, StartedBefore, PublishedLate,
        Published
  <1> QED BY <1>5, <1>6, <1>7, <1>8, <1>10 DEF JointInv

\* Once a replica rests, its consumers are served, whatever the other does.
Serves == \E t \in TokensIn(Target) : t \notin revoked /\ now < ledger[t].expiry

LEMMA RestServes ==
    ASSUME NEW d \in Nat, AmpleFor(d), TypeOK, TendInv(d), JointInv(d),
           PublishedNotRevoked, Settled, UpToDate, ~retrying
    PROVE  Serves
  <1> USE DEF TendInv, TendsOn, JointInv
  <1>1. Rests
    BY DEF Settled, Asleep, Rests, ProviderKnown, UpToDate
  <1>2. now < Server.status.expiresAt - d
    BY <1>1, RestsInTime
  <1>3. PICK n \in Names : n = Server.spec.target
    BY DEF UpToDate
  <1>4. Owned(Secret(n))
    <2>1. Reported(n) /\ Len(secw[n]) = 1
      BY <1>1, <1>3 DEF Attended, Settled
    <2> QED BY <2>1 DEF Reported, Secret, Owned
  <1>5. PICK t : t \in TokensIn(Secret(n))
    BY <1>4 DEF TokensHeld
  <1>6. t \in 1..Len(ledger) /\ ledger[t].expiry >= Server.status.expiresAt - d
    BY <1>3, <1>5 DEF CurrentLate, Late
  <1>7. /\ ledger[t].expiry \in Nat /\ now \in Nat
        /\ Server.status.expiresAt \in Int
    BY <1>6, Expiries, WindowTypes, StatusWindowType DEF TypeOK
  <1>8. now < ledger[t].expiry
    BY <1>2, <1>6, <1>7
  <1> QED BY <1>3, <1>5, <1>8 DEF Serves, Target, PublishedNotRevoked

\* Where time stands still while there is work to do, it is written at once.
LEMMA WorkClock ==
    ASSUME Reconcile \/ Calls \/ Deliveries \/ Crash
    PROVE  now' = now
  BY OwnClock DEF OwnStep, Deliveries, DeliverSecret, Crash

LEMMA BriskStep ==
    ASSUME TypeOK, RunOK, Brisk(0), Next, now' = now \/ pc = "idle"
    PROVE  Brisk(0)'
  <1> SUFFICES ASSUME pc' = "writeSecret"
               PROVE  now' <= ledger'[token'].mintedAt + 0
    BY DEF Brisk
  <1>1. CASE Mint
    <2>1. PICK l \in Lifetimes : Grant(l) /\ token' = Len(ledger) + 1 /\ pc = "mint"
      BY <1>1 DEF Mint
    <2>2. ledger'[token'].mintedAt = now /\ now \in Nat /\ now' = now
      BY <2>1 DEF Grant, TypeOK
    <2> QED BY <2>2
  <1>2. CASE UNCHANGED <<pc, token>>
    <2>1. token \in 1..Len(ledger) /\ now <= ledger[token].mintedAt + 0 /\ now' = now
      BY <1>2 DEF RunOK, Minted, Brisk
    <2>2. ledger'[token] = ledger[token]
      BY <2>1, LedgerGrows
    <2> QED BY <1>2, <2>1, <2>2
  <1>3. ~WriteSecret /\ ~PersistHandle /\ ~UpdateStatus
    BY DEF WriteSecret, PersistHandle, UpdateStatus, Put
  <1> QED BY <1>1, <1>2, <1>3, MintedSteps DEF Minted

LEMMA BriskLearned ==
    ASSUME RunOK, Brisk(0), Learns, now' = now \/ pc = "idle"
    PROVE  Brisk(0)'
  <1>1. UNCHANGED <<pc, token>>
    BY DEF Learns
  <1>2. pc = "writeSecret" => ledger'[token] = ledger[token]
    BY DEF RunOK, Minted, Learns
  <1> QED BY <1>1, <1>2 DEF Brisk
=============================================================================
