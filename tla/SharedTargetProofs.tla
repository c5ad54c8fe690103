------------------------- MODULE SharedTargetProofs -------------------------
(***************************************************************************)
(* Two resources that may name the same target Secret do each other no     *)
(* harm, for every choice of the constants: neither takes a Secret that    *)
(* the other controls, neither makes the other publish what is revoked,    *)
(* and both are woken in time.                                             *)
(*                                                                         *)
(* Each resource is a Broker, so what BrokerProofs and BrokerWorkProofs    *)
(* show of a Broker they show of both; for the second one they are         *)
(* instantiated with its variables.  What remains to be shown is that to   *)
(* each resource a step of the other is one of somebody who changes        *)
(* Secrets without disclosing its tokens (OthersStep), which is what the   *)
(* coupling of the two views of a Secret is for.                           *)
(***************************************************************************)
EXTENDS SharedTarget, BrokerWorkProofs

PeerProofs == INSTANCE BrokerWorkProofs WITH
    ecw <- ecw2, secw <- secw2, pc <- pc2, ec <- ec2, fresh <- fresh2,
    token <- token2, previous <- previous2, started <- started2,
    fail <- fail2, queued <- queued2, wakeAt <- wakeAt2,
    retrying <- retrying2, ledger <- ledger2, revoked <- revoked2

----------------------------------------------------------------------------
(* The invariant. *)

\* Two views of one Secret: it exists for both, at most one of the resources
\* controls it, and no key holds a token of both.
Twins(a, b) ==
    /\ a.exists = b.exists /\ a.managed = b.managed
    /\ \/ a.owner = "none" /\ b.owner = "none"
       \/ a.owner = "other" /\ b.owner \in {"ec", "other"}
       \/ a.owner = "ec" /\ b.owner = "other"
    /\ \A k \in DataKeys :
          /\ a.data[k] = Empty <=> b.data[k] = Empty
          /\ a.data[k] # Empty => a.data[k] = Foreign \/ b.data[k] = Foreign
    /\ ~a.exists => a = NoSecret /\ b = NoSecret

TwinWindows(x, y) ==
    /\ Len(x) = Len(y)
    /\ \A i \in 1..Len(x) : Twins(x[i], y[i])

\* Both resources have seen the same changes of every Secret.
Coupled == \A n \in Names : TwinWindows(secw[n], secw2[n])

SharedInv == WorkInv /\ PeerProofs!WorkInv /\ Coupled

----------------------------------------------------------------------------
(* One resource's change in the eyes of the other. *)

LEMMA TwinWindowsSymmetric ==
    ASSUME NEW x, NEW y, TwinWindows(x, y)
    PROVE  TwinWindows(y, x)
  BY DEF TwinWindows, Twins

LEMMA SeenTwins ==
    ASSUME NEW a \in Secrets, NEW b \in Secrets, Twins(a, b), Managed(b),
           NEW v, Stored(v, a)
    PROVE  /\ Twins(v, Seen(v, a, b)) /\ Shrunk(Seen(v, a, b), b)
           /\ a.owner = "ec" => v.owner # "other"
           /\ b.owner = "ec" => Seen(v, a, b).owner # "other"
  <1> DEFINE w == Seen(v, a, b)
  <1>v. /\ v \in Secrets /\ v.owner \in {"none", "ec", "other"}
        /\ \A k \in DataKeys : v.data[k] \in Int
    BY DEF Stored, Secrets
  <1>b. /\ b.data \in [DataKeys -> {n \in Int : n >= Foreign}]
        /\ b.owner \in {"none", "ec", "other"}
    BY DEF Secrets
  <1>w. /\ w.exists = v.exists /\ w.managed = v.managed
        /\ v.owner = "ec" => w.owner = "other"
        /\ v.owner = "other" => w.owner = b.owner
        /\ v.owner = "none" => w.owner = "none"
        /\ \A k \in DataKeys :
              w.data[k] = IF v.data[k] = a.data[k] THEN b.data[k]
                          ELSE IF v.data[k] = Empty THEN Empty ELSE Foreign
    BY <1>v DEF Seen
  <1>r. w = [exists |-> w.exists, owner |-> w.owner, data |-> w.data,
             managed |-> w.managed]
    <2> DEFINE o == CASE v.owner = "ec" -> "other"
                      [] v.owner = "other" -> b.owner
                      [] v.owner = "none" -> "none"
               d == [k \in DataKeys |->
                       IF v.data[k] = a.data[k] THEN b.data[k]
                       ELSE IF v.data[k] = Empty THEN Empty ELSE Foreign]
    <2>1. w = [exists |-> v.exists, owner |-> o, data |-> d,
               managed |-> v.managed]
      BY DEF Seen
    <2> HIDE DEF o, d, w
    <2> QED BY <2>1
  <1>s. w \in Secrets
    <2>1. w.owner \in {"none", "ec", "other"}
      BY <1>v, <1>b, <1>w
    <2>2. w.data \in [DataKeys -> {n \in Int : n >= Foreign}]
      BY <1>b DEF Seen, Empty, Foreign
    <2>4. w.exists \in BOOLEAN /\ w.managed \in SUBSET DataKeys
      BY <1>v, <1>w DEF Secrets
    <2> HIDE DEF w
    <2> QED BY <1>r, <2>1, <2>2, <2>4 DEF Secrets
  <1>n. v = NoSecret => w = NoSecret
    <2> SUFFICES ASSUME v = NoSecret PROVE w = NoSecret
      OBVIOUS
    <2>1. \A k \in DataKeys : w.data[k] = Empty
      BY <1>w DEF NoSecret, Twins
    <2>2. w.data = [k \in DataKeys |-> Empty]
      BY <1>s, <2>1 DEF Secrets
    <2>3. w.exists = FALSE /\ w.owner = "none" /\ w.managed = {}
      BY <1>w DEF NoSecret
    <2> HIDE DEF w
    <2> QED BY <1>r, <2>2, <2>3 DEF NoSecret
  <1> HIDE DEF w
  <1>d. \A k \in DataKeys :
          /\ v.data[k] = Empty <=> w.data[k] = Empty
          /\ v.data[k] # Empty => v.data[k] = Foreign \/ w.data[k] = Foreign
    BY <1>w DEF Twins, Empty, Foreign
  <1>t. \A k \in DataKeys : w.data[k] \notin {Empty, Foreign} =>
          /\ w.data[k] = b.data[k] /\ k \in w.managed
    <2> SUFFICES ASSUME NEW k \in DataKeys, w.data[k] \notin {Empty, Foreign}
                 PROVE  w.data[k] = b.data[k] /\ k \in w.managed
      OBVIOUS
    <2>1. v.data[k] = a.data[k] /\ w.data[k] = b.data[k]
      BY <1>w
    <2>2. k \in a.managed /\ a.data[k] = Foreign
      BY <2>1 DEF Managed, Twins
    <2>3. CASE v = NoSecret
      BY <1>d, <2>3 DEF NoSecret
    <2>4. CASE Edited(v, a)
      BY <1>w, <2>1, <2>2, <2>4 DEF Edited
    <2>5. ASSUME NEW keys \in KeyMaps, NEW t \in Nat, v = mutate(a, keys, t)
          PROVE  FALSE
      BY <2>1, <2>2, <2>5 DEF mutate, Empty, Foreign
    <2> QED BY <2>1, <2>3, <2>4, <2>5 DEF Stored
  <1>o. /\ v = NoSecret \/ (v.exists /\ (v.owner = a.owner \/ v.owner = "ec"))
        /\ v.owner = "ec" => a.owner # "other"
        /\ v = NoSecret => v.owner = "none"
    BY DEF Stored, Edited, mutate, NoSecret
  <1>1. Twins(v, w)
    <2>1. \/ v.owner = "none" /\ w.owner = "none"
          \/ v.owner = "other" /\ w.owner \in {"ec", "other"}
          \/ v.owner = "ec" /\ w.owner = "other"
      BY <1>v, <1>w, <1>o DEF Twins
    <2>2. ~v.exists => v = NoSecret /\ w = NoSecret
      BY <1>o, <1>n
    <2> QED BY <1>w, <1>d, <2>1, <2>2 DEF Twins
  <1>2. Shrunk(w, b)
    <2>1. w.owner = "ec" =>
            b.owner = "ec" /\ \A k \in DataKeys : w.data[k] \in {b.data[k], Foreign}
      <3> SUFFICES ASSUME w.owner = "ec"
                   PROVE  /\ b.owner = "ec"
                          /\ \A k \in DataKeys : w.data[k] \in {b.data[k], Foreign}
        OBVIOUS
      <3>1. v.owner = "other" /\ b.owner = "ec"
        BY <1>v, <1>w
      <3>2. Edited(v, a)
        BY <3>1 DEF Stored, NoSecret, mutate
      <3> QED BY <1>w, <3>1, <3>2 DEF Edited, Empty, Foreign
    <2> QED BY <1>s, <1>t, <2>1 DEF Shrunk, TokensIn, Managed
  <1>3. a.owner = "ec" => v.owner # "other"
    BY <1>o
  <1>4. b.owner = "ec" => w.owner # "other"
    BY <1>v, <1>w, <1>o DEF Twins
  <1> QED BY <1>1, <1>2, <1>3, <1>4 DEF w

\* The last version in a window.
Latest(x) == x[Len(x)]

LEMMA FollowWindow ==
    ASSUME NEW x \in Seq(Secrets), NEW y \in Seq(Secrets), Len(x) >= 1,
           TwinWindows(x, y), Managed(Latest(y)), NEW x2,
           x2 = x \/ \E v : Stored(v, Latest(x)) /\ x2 = Append(x, v)
    PROVE  /\ TwinWindows(x2, Follow(y, x, x2))
           /\ \/ Follow(y, x, x2) = y
              \/ \E w : Shrunk(w, Latest(y)) /\ Follow(y, x, x2) = Append(y, w)
           /\ Latest(x).owner = "ec" => Latest(x2).owner # "other"
           /\ Latest(y).owner = "ec" => Latest(Follow(y, x, x2)).owner # "other"
  <1>l. /\ Len(x) \in Nat /\ Len(y) = Len(x) /\ Len(x) \in 1..Len(x)
        /\ Latest(x) \in Secrets /\ Latest(y) \in Secrets
        /\ Twins(Latest(x), Latest(y))
    BY DEF TwinWindows, Latest
  <1>1. CASE x2 = x
    <2>1. Follow(y, x, x2) = y
      BY <1>l, <1>1 DEF Follow
    <2> QED BY <1>1, <2>1
  <1>2. ASSUME NEW v, Stored(v, Latest(x)), x2 = Append(x, v)
        PROVE  /\ TwinWindows(x2, Follow(y, x, x2))
               /\ \E w : Shrunk(w, Latest(y)) /\ Follow(y, x, x2) = Append(y, w)
               /\ Latest(x).owner = "ec" => Latest(x2).owner # "other"
               /\ Latest(y).owner = "ec" => Latest(Follow(y, x, x2)).owner # "other"
    <2> DEFINE w == Seen(v, Latest(x), Latest(y))
    <2>1. /\ Twins(v, w) /\ Shrunk(w, Latest(y))
          /\ Latest(x).owner = "ec" => v.owner # "other"
          /\ Latest(y).owner = "ec" => w.owner # "other"
      BY <1>l, <1>2, SeenTwins
    <2>2. v \in Secrets /\ w \in Secrets
      BY <1>2, <2>1 DEF Stored, Shrunk
    <2>3. /\ Len(x2) = Len(x) + 1 /\ x2[Len(x) + 1] = v
          /\ \A i \in 1..Len(x) : x2[i] = x[i]
      BY <1>2, <2>2
    <2>4. Follow(y, x, x2) = Append(y, w)
      BY <1>l, <2>3 DEF Follow, Latest
    <2> HIDE DEF w
    <2>5. /\ Len(Append(y, w)) = Len(x) + 1 /\ Append(y, w)[Len(x) + 1] = w
          /\ \A i \in 1..Len(x) : Append(y, w)[i] = y[i]
      BY <1>l, <2>2
    <2>6. \A i \in 1..(Len(x) + 1) : i \in 1..Len(x) \/ i = Len(x) + 1
      BY <1>l
    <2>7. TwinWindows(x2, Append(y, w))
      BY <2>1, <2>3, <2>5, <2>6 DEF TwinWindows
    <2> QED BY <2>1, <2>3, <2>4, <2>5, <2>7 DEF Latest
  <1> QED BY <1>1, <1>2

----------------------------------------------------------------------------
(* The second resource is a Broker. *)

LEMMA PeerIsBroker ==
    /\ Peer!Reconcile \/ Peer!Calls => PeerProofs!OwnStep
    /\ \/ Peer!DeliverEC \/ Peer!TimerFires \/ Peer!Users
       \/ \E n \in Names : Peer!GarbageCollect(n)
       => PeerProofs!OwnStep
    /\ \A n \in Names : Peer!DeliverSecret(n) <=> PeerProofs!DeliverSecret(n)
    /\ Peer!Settled <=> PeerProofs!Settled
    /\ Peer!PublishedNotRevoked <=> PeerProofs!PublishedNotRevoked
    /\ Peer!WakeupScheduled <=> PeerProofs!WakeupScheduled
    /\ Peer!UpToDate <=> PeerProofs!UpToDate
    /\ Peer!Server = PeerProofs!Server /\ Peer!Target = PeerProofs!Target
    /\ \A n \in Names : Peer!Secret(n) = PeerProofs!Secret(n)
  BY DEF
     Peer!Reconcile, PeerProofs!Reconcile, Peer!Calls, PeerProofs!Calls,
     Peer!DeliverEC, PeerProofs!DeliverEC, Peer!TimerFires,
     PeerProofs!TimerFires, Peer!Users, PeerProofs!Users,
     Peer!GarbageCollect, PeerProofs!GarbageCollect, Peer!DeliverSecret,
     PeerProofs!DeliverSecret, Peer!Settled, PeerProofs!Settled,
     Peer!PublishedNotRevoked, PeerProofs!PublishedNotRevoked,
     Peer!WakeupScheduled, PeerProofs!WakeupScheduled, Peer!ReconcileGone,
     PeerProofs!ReconcileGone, Peer!ReconcileDelete,
     PeerProofs!ReconcileDelete, Peer!ReconcileNew,
     PeerProofs!ReconcileNew, Peer!ReconcileUnknownProvider,
     PeerProofs!ReconcileUnknownProvider, Peer!ReconcileSteady,
     PeerProofs!ReconcileSteady, Peer!ReconcileMint,
     PeerProofs!ReconcileMint, Peer!AddFinalizer, PeerProofs!AddFinalizer,
     Peer!SetPending, PeerProofs!SetPending, Peer!Mint, PeerProofs!Mint,
     Peer!MintFails, PeerProofs!MintFails, Peer!MintLost,
     PeerProofs!MintLost, Peer!WriteSecret, PeerProofs!WriteSecret,
     Peer!WriteSecretFails, PeerProofs!WriteSecretFails,
     Peer!WriteSecretLost, PeerProofs!WriteSecretLost, Peer!PersistHandle,
     PeerProofs!PersistHandle, Peer!UpdateStatus, PeerProofs!UpdateStatus,
     Peer!RevokePrevious, PeerProofs!RevokePrevious, Peer!DeleteExpired,
     PeerProofs!DeleteExpired, Peer!FailStatus, PeerProofs!FailStatus,
     Peer!RevokeOnDelete, PeerProofs!RevokeOnDelete, Peer!DeleteSecret,
     PeerProofs!DeleteSecret, Peer!DeleteSecretFails,
     PeerProofs!DeleteSecretFails, Peer!RemoveFinalizer,
     PeerProofs!RemoveFinalizer, Peer!ECWriteFails,
     PeerProofs!ECWriteFails, Peer!ECWriteLost, PeerProofs!ECWriteLost,
     Peer!locals, PeerProofs!locals, Peer!provider, PeerProofs!provider,
     Peer!NoTime, PeerProofs!NoTime, Peer!cluster, PeerProofs!cluster,
     Peer!EditSpec, PeerProofs!EditSpec, Peer!DeleteEC,
     PeerProofs!DeleteEC, Peer!UserDeletesSecret,
     PeerProofs!UserDeletesSecret, Peer!UserEditsSecret,
     PeerProofs!UserEditsSecret, Peer!Server, PeerProofs!Server,
     Peer!Secret, PeerProofs!Secret, Peer!PutSecret, PeerProofs!PutSecret,
     Peer!NoSecret, PeerProofs!NoSecret, Peer!queue, PeerProofs!queue,
     Peer!Enqueues, PeerProofs!Enqueues, Peer!UpToDate,
     PeerProofs!UpToDate, Peer!TokensIn, PeerProofs!TokensIn, Peer!Target,
     PeerProofs!Target, Peer!RetryScheduled, PeerProofs!RetryScheduled,
     Peer!RotationScheduled, PeerProofs!RotationScheduled, Peer!Dequeue,
     PeerProofs!Dequeue, Peer!Cached, PeerProofs!Cached, Peer!ReturnNil,
     PeerProofs!ReturnNil, Peer!ReadEC, PeerProofs!ReadEC, Peer!GoTo,
     PeerProofs!GoTo, Peer!LacksFinalizer, PeerProofs!LacksFinalizer,
     Peer!Ours, PeerProofs!Ours, Peer!failStatus, PeerProofs!failStatus,
     Peer!MustMint, PeerProofs!MustMint, Peer!ReturnAfter,
     PeerProofs!ReturnAfter, Peer!RotationDelay, PeerProofs!RotationDelay,
     Peer!Accepted, PeerProofs!Accepted, Peer!PutEC, PeerProofs!PutEC,
     Peer!desired, PeerProofs!desired, Peer!ReturnRateLimited,
     PeerProofs!ReturnRateLimited, Peer!buildScope, PeerProofs!buildScope,
     Peer!Grant, PeerProofs!Grant, Peer!Disturb, PeerProofs!Disturb,
     Peer!Fail, PeerProofs!Fail, Peer!writeTargetSecret,
     PeerProofs!writeTargetSecret, Peer!SecretWritable,
     PeerProofs!SecretWritable, Peer!Put, PeerProofs!Put, Peer!Revoke,
     PeerProofs!Revoke, Peer!NextRotation, PeerProofs!NextRotation,
     Peer!deleteTargetSecret, PeerProofs!deleteTargetSecret, Peer!ECWrites,
     PeerProofs!ECWrites, Peer!Foreign, PeerProofs!Foreign, Peer!Empty,
     PeerProofs!Empty, Peer!statusWindow, PeerProofs!statusWindow,
     Peer!EndRun, PeerProofs!EndRun, Peer!NoFail, PeerProofs!NoFail,
     Peer!needsMint, PeerProofs!needsMint, Peer!targetSecretExists,
     PeerProofs!targetSecretExists, Peer!Earliest, PeerProofs!Earliest,
     Peer!requeueAfter, PeerProofs!requeueAfter, Peer!withFinalizer,
     PeerProofs!withFinalizer, Peer!pendingStatus,
     PeerProofs!pendingStatus, Peer!withHandle, PeerProofs!withHandle,
     Peer!activeStatus, PeerProofs!activeStatus, Peer!failedStatus,
     PeerProofs!failedStatus, Peer!withoutFinalizer,
     PeerProofs!withoutFinalizer, Peer!mutate, PeerProofs!mutate,
     Peer!CachedSecret, PeerProofs!CachedSecret, Peer!Revocable,
     PeerProofs!Revocable, Peer!clampRotateBefore,
     PeerProofs!clampRotateBefore, Peer!requestedRotateBefore,
     PeerProofs!requestedRotateBefore, Peer!grantedLifetime,
     PeerProofs!grantedLifetime, Peer!NilEC, PeerProofs!NilEC,
     Peer!windowOpen, PeerProofs!windowOpen, Peer!Persisted,
     PeerProofs!Persisted, Peer!written, PeerProofs!written, Peer!NewEC,
     PeerProofs!NewEC, Peer!secretKey, PeerProofs!secretKey, Peer!NoStatus,
     PeerProofs!NoStatus, Peer!timer, PeerProofs!timer, Peer!Schedule,
     PeerProofs!Schedule, Peer!StoreEC, PeerProofs!StoreEC, Peer!RetrySoon,
     PeerProofs!RetrySoon, Peer!RotationBound, PeerProofs!RotationBound,
     PeerProofs!OwnStep

\* What has been shown of a Broker, for the second resource.
LEMMA PeerFacts ==
    /\ \A c : PeerProofs!Starts(c) => PeerProofs!WorkInv
    /\ PeerProofs!WorkInv /\ [PeerProofs!Next]_PeerProofs!vars => PeerProofs!WorkInv'
    /\ PeerProofs!WorkInv /\ PeerProofs!OthersStep => PeerProofs!WorkInv'
    /\ PeerProofs!WorkInv => PeerProofs!WakeupScheduled
    /\ PeerProofs!TypeOK /\ PeerProofs!Absent /\ PeerProofs!OwnStep =>
          \A n \in Names :
             \/ secw2'[n] = secw2[n]
             \/ \E v : /\ PeerProofs!Stored(v, PeerProofs!Secret(n))
                     /\ secw2'[n] = Append(secw2[n], v)
    /\ PeerProofs!OwnStep => now' = now
    /\ \A c : PeerProofs!Starts(c) => PeerProofs!CareInv
    /\ FixedLifetime /\ AmpleWindows /\ PeerProofs!CareInv
       /\ [PeerProofs!Next]_PeerProofs!vars => PeerProofs!CareInv'
    /\ PeerProofs!CareInv /\ PeerProofs!OthersStep => PeerProofs!CareInv'
    /\ /\ AmpleWindows /\ PeerProofs!CareInv /\ PeerProofs!Settled
       /\ PeerProofs!UpToDate /\ ~retrying2
       /\ PeerProofs!Target.owner = "ec"
       => Served(PeerProofs!Target, PeerProofs!Server.spec.keys, ledger2, revoked2)
    /\ /\ PeerProofs!CareInv /\ (PeerProofs!Next \/ PeerProofs!OthersStep)
       /\ PeerProofs!Rests'
       => /\ PeerProofs!Server' = PeerProofs!Server
          /\ PeerProofs!Server.spec.target \in Names
    /\ /\ PeerProofs!CareInv /\ (PeerProofs!Next \/ PeerProofs!OthersStep)
       /\ PeerProofs!Rests'
       /\ Len(secw2'[PeerProofs!Server.spec.target]) \in Nat \ {0}
       /\ \/ Owned(PeerProofs!Secret(PeerProofs!Server.spec.target)')
          \/ /\ Reclaimed(secw2[PeerProofs!Server.spec.target])
             /\ PeerProofs!Rests => PeerProofs!Reported(PeerProofs!Server.spec.target)
       => PeerProofs!Reported(PeerProofs!Server.spec.target)'
  <1>1. Specs # {} /\ Specs \subseteq PeerProofs!SpecType
    BY SpecsAssumption
    DEF SpecType, PeerProofs!SpecType, KeyMaps, PeerProofs!KeyMaps
  <1>2. \A s \in InitialSecrets :
          /\ s \in [Names -> PeerProofs!Secrets]
          /\ \A n \in Names :
                /\ PeerProofs!TokensIn(s[n]) = {} /\ s[n].owner # "ec"
                /\ ~s[n].exists => s[n] = PeerProofs!NoSecret
    BY InitialSecretsAssumption
    DEF Secrets, PeerProofs!Secrets, TokensIn, PeerProofs!TokensIn, NoSecret,
        PeerProofs!NoSecret, Empty, PeerProofs!Empty, Foreign,
        PeerProofs!Foreign
  <1>3. Disturbances \subseteq PeerProofs!Kinds
    BY DisturbancesAssumption DEF Kinds, PeerProofs!Kinds
  <1> USE <1>1, <1>2, <1>3, SecondAssumption, DefaultAssumption,
          RequeueAssumption, OutputsAssumption, DataKeysAssumption,
          NamesAssumption, RegisteredAssumption, LifetimesAssumption,
          BackoffAssumption, BoundsAssumption, PromptAssumption
  <1>4. \A c : PeerProofs!Starts(c) => PeerProofs!WorkInv
    BY PeerProofs!StartWork
  <1>5. PeerProofs!WorkInv /\ [PeerProofs!Next]_PeerProofs!vars => PeerProofs!WorkInv'
    BY PeerProofs!WorkStep
  <1>6. PeerProofs!WorkInv /\ PeerProofs!OthersStep => PeerProofs!WorkInv'
    BY PeerProofs!OthersKeepWork
  <1>7. PeerProofs!WorkInv => PeerProofs!WakeupScheduled
    BY PeerProofs!WorkWakes
  <1>8. PeerProofs!TypeOK /\ PeerProofs!Absent /\ PeerProofs!OwnStep =>
          \A n \in Names :
             \/ secw2'[n] = secw2[n]
             \/ \E v : /\ PeerProofs!Stored(v, PeerProofs!Secret(n))
                     /\ secw2'[n] = Append(secw2[n], v)
    BY PeerProofs!OwnSecrets
  <1>9. PeerProofs!OwnStep => now' = now
    BY PeerProofs!OwnClock
  <1>10. /\ FixedLifetime => PeerProofs!FixedLifetime
         /\ AmpleWindows => PeerProofs!AmpleWindows
    BY DEF FixedLifetime, PeerProofs!FixedLifetime, AmpleWindows, AmpleFor,
       PeerProofs!AmpleFor, PeerProofs!AmpleWindows, requestedRotateBefore, PeerProofs!requestedRotateBefore
  <1>11. \A c : PeerProofs!Starts(c) => PeerProofs!CareInv
    BY PeerProofs!StartCare
  <1>12. FixedLifetime /\ AmpleWindows /\ PeerProofs!CareInv
         /\ [PeerProofs!Next]_PeerProofs!vars => PeerProofs!CareInv'
    BY <1>10, PeerProofs!CareStep
  <1>13. PeerProofs!CareInv /\ PeerProofs!OthersStep => PeerProofs!CareInv'
    BY PeerProofs!OthersKeepCare
  <1>14. /\ AmpleWindows /\ PeerProofs!CareInv /\ PeerProofs!Settled
         /\ PeerProofs!UpToDate /\ ~retrying2
         /\ PeerProofs!Target.owner = "ec"
         => Served(PeerProofs!Target, PeerProofs!Server.spec.keys, ledger2, revoked2)
    BY <1>10, PeerProofs!CareServes
    DEF Served, written, PeerProofs!written, secretKey, PeerProofs!secretKey,
        Foreign, PeerProofs!Foreign
  <1>16. /\ PeerProofs!CareInv /\ (PeerProofs!Next \/ PeerProofs!OthersStep)
         /\ PeerProofs!Rests'
         => /\ PeerProofs!Server' = PeerProofs!Server
            /\ PeerProofs!Server.spec.target \in Names
    BY PeerProofs!RestTarget
  <1>17. /\ PeerProofs!CareInv /\ (PeerProofs!Next \/ PeerProofs!OthersStep)
         /\ PeerProofs!Rests'
         /\ Len(secw2'[PeerProofs!Server.spec.target]) \in Nat \ {0}
         /\ \/ Owned(PeerProofs!Secret(PeerProofs!Server.spec.target)')
            \/ /\ Reclaimed(secw2[PeerProofs!Server.spec.target])
               /\ PeerProofs!Rests => PeerProofs!Reported(PeerProofs!Server.spec.target)
         => PeerProofs!Reported(PeerProofs!Server.spec.target)'
    BY PeerProofs!WatchedStep
    DEF Owned, PeerProofs!Owned, Reclaimed, PeerProofs!Reclaimed
  <1> QED BY <1>4, <1>5, <1>6, <1>7, <1>8, <1>9, <1>11, <1>12, <1>13, <1>14,
             <1>16, <1>17

LEMMA SameSecrets ==
    /\ PeerProofs!Secrets = Secrets /\ PeerProofs!NoSecret = NoSecret
    /\ \A s : PeerProofs!Managed(s) <=> Managed(s)
    /\ \A v, s : PeerProofs!Stored(v, s) <=> Stored(v, s)
    /\ \A v, s : PeerProofs!Shrunk(v, s) <=> Shrunk(v, s)
  BY DEF PeerProofs!Secrets, Secrets, PeerProofs!NoSecret, NoSecret,
     PeerProofs!Managed, Managed, PeerProofs!Stored, Stored,
     PeerProofs!Shrunk, Shrunk, PeerProofs!Edited, Edited, PeerProofs!mutate,
     mutate, PeerProofs!KeyMaps, KeyMaps, PeerProofs!TokensIn, TokensIn,
     PeerProofs!Empty, Empty, PeerProofs!Foreign, Foreign,
     PeerProofs!written, written, PeerProofs!secretKey, secretKey

\* The two views of the Secrets.
LEMMA Views ==
    ASSUME SharedInv
    PROVE  /\ TypeOK /\ Absent /\ PeerProofs!TypeOK /\ PeerProofs!Absent
           /\ DOMAIN secw = Names /\ DOMAIN secw2 = Names
           /\ \A n \in Names :
                 /\ secw[n] \in Seq(Secrets) /\ Len(secw[n]) >= 1
                 /\ Secret(n) = Latest(secw[n]) /\ Managed(Latest(secw[n]))
                 /\ secw2[n] \in Seq(Secrets) /\ Len(secw2[n]) >= 1
                 /\ PeerProofs!Secret(n) = Latest(secw2[n])
                 /\ Managed(Latest(secw2[n]))
                 /\ TwinWindows(secw[n], secw2[n])
  <1>1. /\ TypeOK /\ TokensManaged
        /\ PeerProofs!TypeOK /\ PeerProofs!TokensManaged
    BY DEF SharedInv, WorkInv, IInv, PeerProofs!WorkInv, PeerProofs!IInv
  <1>2. /\ secw \in [Names -> Seq(Secrets)] /\ \A n \in Names : Len(secw[n]) >= 1
        /\ secw2 \in [Names -> Seq(Secrets)] /\ \A n \in Names : Len(secw2[n]) >= 1
    BY <1>1, SameSecrets DEF TypeOK, PeerProofs!TypeOK
  <1>3. \A n \in Names : TwinWindows(secw[n], secw2[n])
    BY DEF SharedInv, Coupled
  <1>4. Absent /\ PeerProofs!Absent
    BY <1>3, SameSecrets DEF Absent, PeerProofs!Absent, TwinWindows, Twins
  <1>5. \A n \in Names : Managed(Latest(secw[n])) /\ Managed(Latest(secw2[n]))
    <2> SUFFICES ASSUME NEW n \in Names
                 PROVE  Managed(Latest(secw[n])) /\ Managed(Latest(secw2[n]))
      OBVIOUS
    <2>1. Len(secw[n]) \in 1..Len(secw[n]) /\ Len(secw2[n]) \in 1..Len(secw2[n])
      BY <1>2
    <2>2. Managed(Latest(secw[n]))
      BY <1>1, <2>1 DEF TokensManaged, Managed, Latest
    <2>3. PeerProofs!Managed(Latest(secw2[n]))
      BY <1>1, <2>1 DEF PeerProofs!TokensManaged, PeerProofs!Managed, Latest
    <2> QED BY <2>2, <2>3, SameSecrets
  <1>6. \A n \in Names : /\ Secret(n) = Latest(secw[n])
                         /\ PeerProofs!Secret(n) = Latest(secw2[n])
    BY DEF Secret, PeerProofs!Secret, Latest
  <1> QED BY <1>1, <1>2, <1>3, <1>4, <1>5, <1>6

----------------------------------------------------------------------------
(* The invariant is one. *)

\* No Secret passes from the first resource to the second.
NotTaken ==
    \A n \in Names : Secret(n).owner = "ec" => Secret(n)'.owner # "other"

LEMMA FirstStep ==
    ASSUME SharedInv, OfFirst(OwnStep)
    PROVE  SharedInv' /\ NotTaken /\ PeerProofs!OthersStep
  <1>1. /\ OwnStep /\ UNCHANGED own2
        /\ secw2' = [n \in Names |-> Follow(secw2[n], secw[n], secw'[n])]
    BY DEF OfFirst
  <1>2. WorkInv'
    BY <1>1, WorkStep DEF SharedInv, Next, OwnStep, Deliveries
  <1>3. ASSUME NEW n \in Names
        PROVE  /\ TwinWindows(secw[n], secw2[n])'
               /\ \/ secw2'[n] = secw2[n]
                  \/ \E w : /\ PeerProofs!Shrunk(w, PeerProofs!Secret(n))
                          /\ secw2'[n] = Append(secw2[n], w)
               /\ Secret(n).owner = "ec" => Secret(n)'.owner # "other"
    <2>1. \/ secw'[n] = secw[n]
          \/ \E v : Stored(v, Latest(secw[n])) /\ secw'[n] = Append(secw[n], v)
      BY <1>1, OwnSecrets, Views
    <2>2. secw2'[n] = Follow(secw2[n], secw[n], secw'[n])
      BY <1>1
    <2>3. /\ TwinWindows(secw'[n], secw2'[n])
          /\ \/ secw2'[n] = secw2[n]
             \/ \E w : /\ Shrunk(w, Latest(secw2[n]))
                     /\ secw2'[n] = Append(secw2[n], w)
          /\ Latest(secw[n]).owner = "ec" => Latest(secw'[n]).owner # "other"
      BY <2>1, <2>2, FollowWindow, Views
    <2>4. Secret(n)' = Latest(secw'[n]) /\ Secret(n) = Latest(secw[n])
      BY DEF Secret, Latest
    <2> QED BY <2>3, <2>4, Views, SameSecrets
  <1>4. PeerProofs!OthersStep
    <2>1. now' = now /\ used' \in Nat
      BY <1>1, <1>2, OwnClock DEF WorkInv, IInv, TypeOK
    <2>2. secw2' = [n \in Names |-> secw2'[n]]
      BY <1>1
    <2> QED BY <1>1, <1>3, <2>1, <2>2
        DEF PeerProofs!OthersStep, own2, PeerProofs!locals, PeerProofs!queue,
            PeerProofs!timer, PeerProofs!provider
  <1>5. PeerProofs!WorkInv'
    BY <1>4, PeerFacts DEF SharedInv
  <1>6. Coupled'
    BY <1>3 DEF Coupled
  <1> QED BY <1>2, <1>3, <1>4, <1>5, <1>6 DEF SharedInv, NotTaken

LEMMA PeerStep ==
    ASSUME SharedInv, OfPeer(PeerProofs!OwnStep)
    PROVE  SharedInv' /\ NotTaken /\ OthersStep
  <1>1. /\ PeerProofs!OwnStep /\ UNCHANGED own
        /\ secw' = [n \in Names |-> Follow(secw[n], secw2[n], secw2'[n])]
    BY DEF OfPeer
  <1>2. PeerProofs!WorkInv'
    <2>1. PeerProofs!Next
      BY <1>1 DEF PeerProofs!Next, PeerProofs!OwnStep, PeerProofs!Deliveries
    <2> QED BY <2>1, PeerFacts DEF SharedInv
  <1>3. ASSUME NEW n \in Names
        PROVE  /\ TwinWindows(secw[n], secw2[n])'
               /\ \/ secw'[n] = secw[n]
                  \/ \E w : Shrunk(w, Secret(n)) /\ secw'[n] = Append(secw[n], w)
               /\ Secret(n).owner = "ec" => Secret(n)'.owner # "other"
    <2>1. \/ secw2'[n] = secw2[n]
          \/ \E v : Stored(v, Latest(secw2[n])) /\ secw2'[n] = Append(secw2[n], v)
      BY <1>1, PeerFacts, Views, SameSecrets
    <2>2. secw'[n] = Follow(secw[n], secw2[n], secw2'[n])
      BY <1>1
    <2>3. TwinWindows(secw2[n], secw[n])
      BY Views, TwinWindowsSymmetric
    <2>4. /\ TwinWindows(secw2'[n], secw'[n])
          /\ \/ secw'[n] = secw[n]
             \/ \E w : Shrunk(w, Latest(secw[n])) /\ secw'[n] = Append(secw[n], w)
          /\ Latest(secw[n]).owner = "ec" => Latest(secw'[n]).owner # "other"
      BY <2>1, <2>2, <2>3, FollowWindow, Views
    <2>5. Secret(n)' = Latest(secw'[n]) /\ Secret(n) = Latest(secw[n])
      BY DEF Secret, Latest
    <2> QED BY <2>4, <2>5, TwinWindowsSymmetric
  <1>4. OthersStep
    <2>1. now' = now /\ used' \in Nat
      BY <1>1, <1>2, PeerFacts
      DEF PeerProofs!WorkInv, PeerProofs!IInv, PeerProofs!TypeOK
    <2>2. secw' = [n \in Names |-> secw'[n]]
      BY <1>1
    <2> QED BY <1>1, <1>3, <2>1, <2>2 DEF OthersStep, own, locals, queue,
               timer, provider
  <1>5. WorkInv'
    BY <1>4, OthersKeepWork DEF SharedInv
  <1>6. Coupled'
    BY <1>3 DEF Coupled
  <1> QED BY <1>2, <1>3, <1>4, <1>5, <1>6 DEF SharedInv, NotTaken

LEMMA CacheStep ==
    ASSUME SharedInv, NEW n \in Names, CacheSecret(n)
    PROVE  SharedInv' /\ NotTaken
  <1>1. DeliverSecret(n) /\ PeerProofs!DeliverSecret(n)
    BY PeerIsBroker DEF CacheSecret
  <1>2. WorkInv' /\ PeerProofs!WorkInv'
    BY <1>1, WorkStep, PeerFacts
    DEF SharedInv, Next, Deliveries, PeerProofs!Next, PeerProofs!Deliveries
  <1>3. ASSUME NEW m \in Names
        PROVE  /\ TwinWindows(secw'[m], secw2'[m])
               /\ Latest(secw'[m]) = Latest(secw[m])
    <2> DEFINE x == secw[m]
               y == secw2[m]
    <2>1. /\ x \in Seq(Secrets) /\ y \in Seq(Secrets)
          /\ Len(x) \in Nat /\ Len(x) = Len(y)
          /\ \A i \in 1..Len(x) : Twins(x[i], y[i])
      BY Views DEF TwinWindows
    <2>2. CASE m # n
      <3>1. secw'[m] = secw[m] /\ secw2'[m] = secw2[m]
        BY <1>1, <2>2, Views DEF DeliverSecret, PeerProofs!DeliverSecret
      <3> QED BY <3>1, Views
    <2>3. CASE m = n
      <3>1. Len(x) > 1 /\ secw'[m] = Tail(x) /\ secw2'[m] = Tail(y)
        BY <1>1, <2>3, Views DEF DeliverSecret, PeerProofs!DeliverSecret
      <3> HIDE DEF x, y
      <3>2. /\ Len(Tail(x)) = Len(x) - 1 /\ Len(Tail(y)) = Len(x) - 1
            /\ \A i \in 1..(Len(x) - 1) : /\ Tail(x)[i] = x[i + 1]
                                          /\ Tail(y)[i] = y[i + 1]
                                          /\ i + 1 \in 1..Len(x)
            /\ Len(x) - 1 \in 1..(Len(x) - 1)
        BY <2>1, <3>1
      <3>3. TwinWindows(Tail(x), Tail(y))
        BY <2>1, <3>2 DEF TwinWindows
      <3>4. Latest(Tail(x)) = x[(Len(x) - 1) + 1]
        BY <3>2 DEF Latest
      <3>5. (Len(x) - 1) + 1 = Len(x)
        BY <2>1
      <3>6. Latest(Tail(x)) = Latest(x)
        BY <3>4, <3>5 DEF Latest
      <3> QED BY <3>1, <3>3, <3>6 DEF x
    <2> QED BY <2>2, <2>3
  <1>4. Coupled'
    BY <1>3 DEF Coupled
  <1>5. NotTaken
    <2>1. \A m \in Names : Secret(m)' = Latest(secw'[m]) /\ Secret(m) = Latest(secw[m])
      BY DEF Secret, Latest
    <2> QED BY <1>3, <2>1 DEF NotTaken
  <1> QED BY <1>2, <1>4, <1>5 DEF SharedInv

LEMMA TickStep ==
    ASSUME SharedInv, SharedTick
    PROVE  SharedInv' /\ NotTaken
  <1>1. Tick /\ UNCHANGED <<secw2, own2>>
    BY DEF SharedTick
  <1>2. WorkInv'
    BY <1>1, WorkStep DEF SharedInv, Next
  <1>3. PeerProofs!Tick
    <2>1. Prompt => PeerProofs!Settled
      BY PeerIsBroker DEF SharedTick
    <2> QED BY <1>1, <2>1
        DEF Tick, own2, PeerProofs!Tick, PeerProofs!cluster,
            PeerProofs!locals, PeerProofs!queue,
            PeerProofs!timer, PeerProofs!provider
  <1>4. PeerProofs!WorkInv'
    BY <1>3, PeerFacts DEF SharedInv, PeerProofs!Next
  <1>5. secw' = secw /\ secw2' = secw2
    BY <1>1 DEF Tick, cluster
  <1>6. Coupled' /\ NotTaken
    BY <1>5, Views DEF SharedInv, Coupled, NotTaken, Secret
  <1> QED BY <1>2, <1>4, <1>6 DEF SharedInv

LEMMA SharedStutters ==
    ASSUME SharedInv, UNCHANGED sharedVars
    PROVE  SharedInv'
  <1>1. UNCHANGED vars /\ UNCHANGED <<secw2, own2>> /\ now' = now /\ used' = used
    BY DEF sharedVars, vars
  <1>2. UNCHANGED PeerProofs!vars
    BY <1>1 DEF own2, PeerProofs!vars, PeerProofs!cluster,
                PeerProofs!locals, PeerProofs!queue,
            PeerProofs!timer, PeerProofs!provider
  <1>3. WorkInv' /\ PeerProofs!WorkInv'
    BY <1>1, <1>2, WorkStep, PeerFacts DEF SharedInv
  <1>4. Coupled'
    BY <1>1 DEF SharedInv, Coupled, vars, cluster
  <1> QED BY <1>3, <1>4 DEF SharedInv

\* Both resources start as a Broker does.
LEMMA SharedStarts ==
    ASSUME SharedInit
    PROVE  (\E c : Starts(c)) /\ (\E c : PeerProofs!Starts(c))
  <1>1. PICK s \in InitialSpecs : ecw = <<AcceptedEC(s)>>
    BY DEF SharedInit
  <1>2. PICK r \in InitialSpecs : ecw2 = <<AcceptedEC(r)>>
    BY DEF SharedInit
  <1>u. ASSUME NEW q \in InitialSpecs
        PROVE  Unused(AcceptedEC(q))
    <2>1. NewEC(q) \in Credentials
      BY NewECType, InitialSpecsAssumption
    <2>2. AcceptedEC(q) \in Credentials
      BY <2>1 DEF AcceptedEC, Credentials, Statuses, States
    <2> QED BY <2>2 DEF Unused, AcceptedEC, NewEC, NoStatus
  <1>3. Starts(AcceptedEC(s))
    BY <1>1, <1>u DEF Starts, SharedInit
  <1>4. PeerProofs!Starts(AcceptedEC(r))
    <2>1. PeerProofs!Unused(AcceptedEC(r))
      BY <1>u DEF Unused, PeerProofs!Unused, Credentials,
         PeerProofs!Credentials,
        Statuses, PeerProofs!Statuses, States, PeerProofs!States, Times,
        PeerProofs!Times, NoTime, PeerProofs!NoTime
    <2>2. /\ NilEC = PeerProofs!NilEC /\ NoFail = PeerProofs!NoFail
          /\ NoTime = PeerProofs!NoTime
      BY DEF NilEC, PeerProofs!NilEC, NewEC, PeerProofs!NewEC, NoStatus,
        PeerProofs!NoStatus, NoTime, PeerProofs!NoTime, NoFail, PeerProofs!NoFail
    <2> QED BY <1>2, <2>1, <2>2 DEF PeerProofs!Starts, SharedInit
  <1> QED BY <1>3, <1>4

LEMMA SharedStart == SharedInit => SharedInv
  <1> SUFFICES ASSUME SharedInit PROVE SharedInv
    OBVIOUS
  <1>1. WorkInv /\ PeerProofs!WorkInv
    BY SharedStarts, StartWork, PeerFacts
  <1>2. Coupled
    <2>1. PICK secrets \in InitialSecrets : secw = [n \in Names |-> <<secrets[n]>>]
      BY DEF SharedInit
    <2>2. secw2 = secw
      BY DEF SharedInit
    <2> SUFFICES ASSUME NEW n \in Names
                 PROVE  TwinWindows(secw[n], secw2[n])
      BY DEF Coupled
    <2>3. secw[n] = <<secrets[n]>> /\ secw2[n] = <<secrets[n]>>
      BY <2>1, <2>2
    <2>4. /\ secrets[n] \in Secrets /\ TokensIn(secrets[n]) = {}
          /\ secrets[n].owner # "ec"
          /\ ~secrets[n].exists => secrets[n] = NoSecret
      BY InitialSecretsAssumption
    <2>5. Twins(secrets[n], secrets[n])
      <3>1. \A k \in DataKeys : secrets[n].data[k] \in {Empty, Foreign}
        BY <2>4 DEF TokensIn
      <3>2. secrets[n].owner \in {"none", "other"}
        BY <2>4 DEF Secrets
      <3> QED BY <2>4, <3>1, <3>2 DEF Twins
    <2> QED BY <2>3, <2>5 DEF TwinWindows
  <1> QED BY <1>1, <1>2 DEF SharedInv

LEMMA SharedSteps ==
    ASSUME SharedInv, SharedNext
    PROVE  SharedInv' /\ NotTaken
  <1>1. CASE FirstRuns \/ FirstEvents
    <2>1. OfFirst(OwnStep)
      BY <1>1 DEF FirstRuns, FirstEvents, OfFirst, OwnStep
    <2> QED BY <2>1, FirstStep
  <1>2. CASE PeerRuns \/ PeerEvents
    <2>1. OfPeer(PeerProofs!OwnStep)
      BY <1>2, PeerIsBroker DEF PeerRuns, PeerEvents, OfPeer
    <2> QED BY <2>1, PeerStep
  <1>3. CASE SharedTick
    BY <1>3, TickStep
  <1>4. CASE \E n \in Names : CacheSecret(n)
    BY <1>4, CacheStep
  <1> QED BY <1>1, <1>2, <1>3, <1>4 DEF SharedNext

LEMMA SharedStep == SharedInv /\ [SharedNext]_sharedVars => SharedInv'
  BY SharedSteps, SharedStutters

----------------------------------------------------------------------------
(* What history is for: the watch tells of the Secret that goes. *)

\* Under a name where nobody else has had a Secret since, whatever is in the
\* window is followed by a Secret of the resource's own.
Intact ==
    \A n \in Names : /\ n \notin displaced => Reclaimed(secw[n])
                     /\ n \notin displaced2 => Reclaimed(secw2[n])

\* A resource at rest has a Secret of its own that the watch still tells of.
Watched ==
    /\ Rests /\ Server.spec.target \notin displaced => Reported(Server.spec.target)
    /\ /\ PeerProofs!Rests /\ PeerProofs!Server.spec.target \notin displaced2
       => PeerProofs!Reported(PeerProofs!Server.spec.target)

KeptInv == SharedInv /\ CareInv /\ PeerProofs!CareInv /\ Intact /\ Watched

\* A window in which nothing has come but, perhaps, a deletion.
Quiet(x, w) == x = w \/ x = Append(w, NoSecret) \/ (Len(w) > 1 /\ x = Tail(w))

\* A step puts a name back into order only with a Secret of the resource's own.
Recalled ==
    \A n \in Names :
        /\ n \notin displaced' =>
              \/ Owned(Latest(secw'[n]))
              \/ n \notin displaced /\ Quiet(secw'[n], secw[n])
        /\ n \notin displaced2' =>
              \/ Owned(Latest(secw2'[n]))
              \/ n \notin displaced2 /\ Quiet(secw2'[n], secw2[n])

LEMMA OwnedReclaims ==
    ASSUME NEW x \in Seq(Secrets), Len(x) >= 1, Owned(Latest(x))
    PROVE  Reclaimed(x)
  <1>1. Len(x) \in Nat /\ Len(x) \in 1..Len(x)
    OBVIOUS
  <1>2. \A j \in 1..Len(x) : j = Len(x) \/ Len(x) > j
    BY <1>1
  <1> QED BY <1>1, <1>2 DEF Reclaimed, Owned, Latest

LEMMA QuietReclaims ==
    ASSUME NEW w \in Seq(Secrets), NEW x, Quiet(x, w), Reclaimed(w)
    PROVE  Reclaimed(x)
  <1>1. CASE x = Append(w, NoSecret)
    <2>1. NoSecret \in Secrets /\ ~NoSecret.exists
      BY NoSecretType DEF NoSecret
    <2>2. /\ Len(w) \in Nat /\ Len(x) = Len(w) + 1 /\ x[Len(w) + 1] = NoSecret
          /\ \A i \in 1..Len(w) : x[i] = w[i] /\ i \in 1..Len(x)
      BY <1>1, <2>1
    <2>3. \A j \in 1..Len(x) : j \in 1..Len(w) \/ j = Len(w) + 1
      BY <2>2
    <2> QED BY <2>1, <2>2, <2>3 DEF Reclaimed
  <1>2. CASE Len(w) > 1 /\ x = Tail(w)
    <2>1. /\ Len(w) \in Nat /\ Len(x) = Len(w) - 1
          /\ \A i \in 1..Len(x) : x[i] = w[i + 1] /\ i + 1 \in 1..Len(w)
      BY <1>2
    <2> SUFFICES ASSUME NEW j \in 1..Len(x), x[j].exists, x[j].owner # "ec"
                 PROVE  \E i \in 1..Len(x) : i > j /\ x[i].exists /\ x[i].owner = "ec"
      BY DEF Reclaimed
    <2>2. PICK i \in 1..Len(w) : i > j + 1 /\ w[i].exists /\ w[i].owner = "ec"
      BY <2>1 DEF Reclaimed
    <2>3. i - 1 \in 1..Len(x) /\ i - 1 > j /\ (i - 1) + 1 = i
      BY <2>1, <2>2
    <2>4. x[i - 1] = w[(i - 1) + 1]
      BY <2>1, <2>3
    <2> QED BY <2>2, <2>3, <2>4
  <1> QED BY <1>1, <1>2 DEF Quiet

\* What history remembers of a step.
LEMMA Remembered ==
    ASSUME SharedInv, SharedInv', Remember,
           \A n \in Names :
              /\ secw'[n] = secw[n] \/ \E v \in Secrets : secw'[n] = Append(secw[n], v)
              /\ secw2'[n] = secw2[n] \/ \E v \in Secrets : secw2'[n] = Append(secw2[n], v)
    PROVE  Recalled
  <1> SUFFICES ASSUME NEW n \in Names
               PROVE  /\ n \notin displaced' =>
                            \/ Owned(Latest(secw'[n]))
                            \/ n \notin displaced /\ Quiet(secw'[n], secw[n])
                      /\ n \notin displaced2' =>
                            \/ Owned(Latest(secw2'[n]))
                            \/ n \notin displaced2 /\ Quiet(secw2'[n], secw2[n])
    BY DEF Recalled
  <1>v. /\ secw[n] \in Seq(Secrets) /\ secw2[n] \in Seq(Secrets)
        /\ Len(secw[n]) \in Nat /\ Len(secw2[n]) \in Nat
    BY Views
  <1>w. /\ Len(secw'[n]) \in Nat /\ Len(secw'[n]) >= 1
        /\ TwinWindows(secw'[n], secw2'[n])
    <2>1. secw'[n] \in Seq(Secrets) /\ Len(secw'[n]) >= 1
      BY SameSecrets DEF SharedInv, WorkInv, IInv, TypeOK
    <2> QED BY <2>1 DEF SharedInv, Coupled
  <1>l. Secret(n)' = Latest(secw'[n]) /\ Peer!Secret(n)' = Latest(secw2'[n])
    BY DEF Secret, Peer!Secret, Latest
  <1>t. Twins(Latest(secw'[n]), Latest(secw2'[n]))
    BY <1>w DEF TwinWindows, Latest
  <1>n. NoSecret.owner = "none" /\ ~NoSecret.exists
    BY DEF NoSecret
  <1>1. n \notin displaced' =>
          \/ Latest(secw'[n]).owner = "ec"
          \/ n \notin displaced /\ ~Latest(secw'[n]).exists
    BY <1>l DEF Remember, Displaced
  <1>2. n \notin displaced2' =>
          \/ Latest(secw2'[n]).owner = "ec"
          \/ n \notin displaced2 /\ ~Latest(secw2'[n]).exists
    BY <1>l DEF Remember, Displaced
  <1>3. /\ Latest(secw'[n]).owner = "ec" => Latest(secw'[n]).exists
        /\ ~Latest(secw'[n]).exists => Latest(secw'[n]) = NoSecret
        /\ Latest(secw2'[n]).owner = "ec" => Latest(secw2'[n]).exists
        /\ ~Latest(secw2'[n]).exists => Latest(secw2'[n]) = NoSecret
    BY <1>t, <1>n DEF Twins
  <1>4. Latest(secw'[n]) = NoSecret => Quiet(secw'[n], secw[n])
    <2>1. \A v \in Secrets : Latest(Append(secw[n], v)) = v
      BY <1>v DEF Latest
    <2> QED BY <2>1 DEF Quiet
  <1>5. Latest(secw2'[n]) = NoSecret => Quiet(secw2'[n], secw2[n])
    <2>1. \A v \in Secrets : Latest(Append(secw2[n], v)) = v
      BY <1>v DEF Latest
    <2> QED BY <2>1 DEF Quiet
  <1> QED BY <1>1, <1>2, <1>3, <1>4, <1>5 DEF Owned

\* Each step is, to each resource, one of its own or one of somebody else, and
\* history tells what became of the Secrets.
LEMMA BothStep ==
    ASSUME SharedInv, SharedNext
    PROVE  /\ Next \/ OthersStep
           /\ PeerProofs!Next \/ PeerProofs!OthersStep
           /\ Recalled
  <1>0. SharedInv'
    BY SharedSteps
  <1>1. CASE FirstRuns \/ FirstEvents
    <2>1. OfFirst(OwnStep)
      BY <1>1 DEF FirstRuns, FirstEvents, OfFirst, OwnStep
    <2>2. OwnStep /\ Remember /\ PeerProofs!OthersStep
      BY <2>1, FirstStep DEF OfFirst
    <2>3. Next
      BY <2>2 DEF Next, OwnStep, Deliveries
    <2>4. \A n \in Names :
            /\ secw'[n] = secw[n] \/ \E v \in Secrets : secw'[n] = Append(secw[n], v)
            /\ secw2'[n] = secw2[n] \/ \E v \in Secrets : secw2'[n] = Append(secw2[n], v)
      <3>1. \A v, r : /\ Stored(v, r) => v \in Secrets
                      /\ PeerProofs!Shrunk(v, r) => v \in Secrets
        BY SameSecrets DEF Stored, Shrunk
      <3>2. \A n \in Names :
              secw'[n] = secw[n] \/ \E v \in Secrets : secw'[n] = Append(secw[n], v)
        BY <2>2, <3>1, OwnSecrets, Views
      <3> QED BY <2>2, <3>1, <3>2 DEF PeerProofs!OthersStep
    <2> QED BY <1>0, <2>2, <2>3, <2>4, Remembered
  <1>2. CASE PeerRuns \/ PeerEvents
    <2>1. OfPeer(PeerProofs!OwnStep)
      BY <1>2, PeerIsBroker DEF PeerRuns, PeerEvents, OfPeer
    <2>2. PeerProofs!OwnStep /\ Remember /\ OthersStep
      BY <2>1, PeerStep DEF OfPeer
    <2>3. PeerProofs!Next
      BY <2>2 DEF PeerProofs!Next, PeerProofs!OwnStep, PeerProofs!Deliveries
    <2>4. \A n \in Names :
            /\ secw'[n] = secw[n] \/ \E v \in Secrets : secw'[n] = Append(secw[n], v)
            /\ secw2'[n] = secw2[n] \/ \E v \in Secrets : secw2'[n] = Append(secw2[n], v)
      <3>1. \A v, r : /\ PeerProofs!Stored(v, r) => v \in Secrets
                      /\ Shrunk(v, r) => v \in Secrets
        BY SameSecrets DEF Stored, Shrunk
      <3>2. \A n \in Names :
              secw2'[n] = secw2[n] \/ \E v \in Secrets : secw2'[n] = Append(secw2[n], v)
        BY <2>2, <3>1, PeerFacts, Views
      <3> QED BY <2>2, <3>1, <3>2 DEF OthersStep
    <2> QED BY <1>0, <2>2, <2>3, <2>4, Remembered
  <1>3. CASE SharedTick
    <2>1. Tick /\ UNCHANGED <<secw2, own2>> /\ UNCHANGED history
      BY <1>3 DEF SharedTick
    <2>2. PeerProofs!Tick
      <3>1. Prompt => PeerProofs!Settled
        BY <1>3, PeerIsBroker DEF SharedTick
      <3> QED BY <2>1, <3>1
          DEF Tick, own2, PeerProofs!Tick, PeerProofs!cluster,
              PeerProofs!locals, PeerProofs!queue,
            PeerProofs!timer, PeerProofs!provider
    <2>3. Recalled
      BY <2>1 DEF Tick, cluster, history, Recalled, Quiet
    <2> QED BY <2>1, <2>2, <2>3 DEF Next, PeerProofs!Next
  <1>4. ASSUME NEW m \in Names, CacheSecret(m)
        PROVE  /\ Next /\ PeerProofs!Next /\ Recalled
    <2>1. DeliverSecret(m) /\ PeerProofs!DeliverSecret(m) /\ UNCHANGED history
      BY <1>4, PeerIsBroker DEF CacheSecret
    <2>2. ASSUME NEW n \in Names
          PROVE  Quiet(secw'[n], secw[n]) /\ Quiet(secw2'[n], secw2[n])
      BY <2>1, Views DEF DeliverSecret, PeerProofs!DeliverSecret, Quiet
    <2>3. Recalled
      BY <2>1, <2>2 DEF history, Recalled
    <2> QED BY <2>1, <2>3 DEF Next, Deliveries, PeerProofs!Next,
               PeerProofs!Deliveries
  <1> QED BY <1>1, <1>2, <1>3, <1>4 DEF SharedNext

LEMMA IntactStep ==
    ASSUME SharedInv, SharedInv', Intact, Recalled
    PROVE  Intact'
  <1> SUFFICES ASSUME NEW n \in Names
               PROVE  /\ n \notin displaced' => Reclaimed(secw'[n])
                      /\ n \notin displaced2' => Reclaimed(secw2'[n])
    BY DEF Intact
  <1>1. /\ secw[n] \in Seq(Secrets) /\ secw2[n] \in Seq(Secrets)
        /\ n \notin displaced => Reclaimed(secw[n])
        /\ n \notin displaced2 => Reclaimed(secw2[n])
    BY Views DEF Intact
  <1>2. /\ secw'[n] \in Seq(Secrets) /\ Len(secw'[n]) >= 1
        /\ secw2'[n] \in Seq(Secrets) /\ Len(secw2'[n]) >= 1
    BY SameSecrets
    DEF SharedInv, WorkInv, IInv, TypeOK, PeerProofs!WorkInv, PeerProofs!IInv,
        PeerProofs!TypeOK
  <1>3. n \notin displaced' => Reclaimed(secw'[n])
    BY <1>1, <1>2, OwnedReclaims, QuietReclaims DEF Recalled
  <1>4. n \notin displaced2' => Reclaimed(secw2'[n])
    BY <1>1, <1>2, OwnedReclaims, QuietReclaims DEF Recalled
  <1> QED BY <1>3, <1>4

LEMMA StillWatched ==
    ASSUME KeptInv, SharedInv', Recalled, Next \/ OthersStep,
           PeerProofs!Next \/ PeerProofs!OthersStep
    PROVE  Watched'
  <1>0. /\ SharedInv /\ CareInv /\ PeerProofs!CareInv /\ Intact /\ Watched
    BY DEF KeptInv
  <1>l. \A n \in Names : /\ Len(secw'[n]) \in Nat \ {0}
                         /\ Len(secw2'[n]) \in Nat \ {0}
    BY SameSecrets
    DEF SharedInv, WorkInv, IInv, TypeOK, PeerProofs!WorkInv, PeerProofs!IInv,
        PeerProofs!TypeOK
  <1>1. ASSUME Rests', Server'.spec.target \notin displaced'
        PROVE  Reported(Server.spec.target)'
    <2>1. Server' = Server
      BY <1>0, <1>1, RestTarget
    <2>2. PICK n \in Names : n = Server.spec.target
      BY <1>0, <1>1, RestTarget
    <2>3. CASE Owned(Latest(secw'[n]))
      <3>1. Owned(Secret(Server.spec.target)')
        BY <2>1, <2>2, <2>3 DEF Secret, Latest
      <3> QED BY <1>0, <1>1, <1>l, <2>2, <3>1, WatchedStep
    <2>4. CASE n \notin displaced
      <3>1. Reclaimed(secw[n]) /\ (Rests => Reported(n))
        BY <1>0, <2>2, <2>4 DEF Intact, Watched
      <3> QED BY <1>0, <1>1, <1>l, <2>2, <3>1, WatchedStep
    <2> QED BY <1>1, <2>1, <2>2, <2>3, <2>4 DEF Recalled
  <1>2. ASSUME PeerProofs!Rests', PeerProofs!Server'.spec.target \notin displaced2'
        PROVE  PeerProofs!Reported(PeerProofs!Server.spec.target)'
    <2>1. PeerProofs!Server' = PeerProofs!Server
      BY <1>0, <1>2, PeerFacts
    <2>2. PICK n \in Names : n = PeerProofs!Server.spec.target
      BY <1>0, <1>2, PeerFacts
    <2>3. CASE Owned(Latest(secw2'[n]))
      <3>1. Owned(PeerProofs!Secret(PeerProofs!Server.spec.target)')
        BY <2>1, <2>2, <2>3 DEF PeerProofs!Secret, Latest
      <3> QED BY <1>0, <1>2, <1>l, <2>2, <3>1, PeerFacts
    <2>4. CASE n \notin displaced2
      <3>1. Reclaimed(secw2[n]) /\ (PeerProofs!Rests => PeerProofs!Reported(n))
        BY <1>0, <2>2, <2>4 DEF Intact, Watched
      <3> QED BY <1>0, <1>2, <1>l, <2>2, <3>1, PeerFacts
    <2> QED BY <1>2, <2>1, <2>2, <2>3, <2>4 DEF Recalled
  <1> QED BY <1>1, <1>2 DEF Watched

LEMMA KeptStep ==
    ASSUME FixedLifetime, AmpleWindows
    PROVE  KeptInv /\ [SharedNext]_sharedVars => KeptInv'
  <1> SUFFICES ASSUME KeptInv, [SharedNext]_sharedVars PROVE KeptInv'
    OBVIOUS
  <1>0. SharedInv /\ SharedInv'
    BY SharedStep DEF KeptInv
  <1>1. CASE SharedNext
    <2>1. /\ Next \/ OthersStep
          /\ PeerProofs!Next \/ PeerProofs!OthersStep
          /\ Recalled
      BY <1>0, <1>1, BothStep
    <2>2. CareInv'
      BY <2>1, CareStep, OthersKeepCare DEF KeptInv
    <2>3. PeerProofs!CareInv'
      BY <2>1, PeerFacts DEF KeptInv
    <2> QED BY <1>0, <2>1, <2>2, <2>3, IntactStep, StillWatched DEF KeptInv
  <1>2. CASE UNCHANGED sharedVars
    <2>1. UNCHANGED vars /\ UNCHANGED <<secw2, own2, history>> /\ now' = now /\ used' = used
      BY <1>2 DEF sharedVars, vars
    <2>2. UNCHANGED PeerProofs!vars
      BY <2>1 DEF own2, PeerProofs!vars, PeerProofs!cluster,
                  PeerProofs!locals, PeerProofs!queue,
            PeerProofs!timer, PeerProofs!provider
    <2>3. CareInv' /\ PeerProofs!CareInv'
      BY <2>1, <2>2, CareStep, PeerFacts DEF KeptInv
    <2>4. Intact' /\ Watched'
      BY <2>1, <2>2
      DEF KeptInv, Intact, Watched, history, vars, cluster, locals, queue,
          timer, Rests, Asleep, Server, Reported, PeerProofs!vars,
          PeerProofs!cluster, PeerProofs!locals, PeerProofs!queue,
          PeerProofs!timer, PeerProofs!Rests, PeerProofs!Asleep, PeerProofs!Server,
          PeerProofs!Reported
    <2> QED BY <1>0, <2>3, <2>4 DEF KeptInv
  <1> QED BY <1>1, <1>2

LEMMA KeptStart == SharedInit => KeptInv
  <1> SUFFICES ASSUME SharedInit PROVE KeptInv
    OBVIOUS
  <1>0. SharedInv
    BY SharedStart
  <1>1. CareInv /\ PeerProofs!CareInv
    BY SharedStarts, StartCare, PeerFacts
  <1>2. Intact
    <2>1. PICK secrets \in InitialSecrets : secw = [n \in Names |-> <<secrets[n]>>]
      BY DEF SharedInit
    <2> SUFFICES ASSUME NEW n \in Names
                 PROVE  /\ n \notin displaced => Reclaimed(secw[n])
                        /\ n \notin displaced2 => Reclaimed(secw2[n])
      BY DEF Intact
    <2>2. /\ secw[n] = <<secrets[n]>> /\ secw2[n] = <<secrets[n]>>
          /\ secrets[n].owner # "ec" /\ Secret(n) = secrets[n]
          /\ displaced2 = displaced
      BY <2>1, InitialSecretsAssumption DEF SharedInit, Secret
    <2>3. n \notin displaced => ~secrets[n].exists
      BY <2>2 DEF SharedInit, Displaced
    <2> QED BY <2>2, <2>3 DEF Reclaimed
  <1>3. Watched
    <2>1. queued /\ queued2
      BY DEF SharedInit
    <2> QED BY <2>1 DEF Watched, Rests, Asleep, PeerProofs!Rests,
               PeerProofs!Asleep
  <1> QED BY <1>0, <1>1, <1>2, <1>3 DEF KeptInv

----------------------------------------------------------------------------
(* The theorems. *)

\* Neither resource makes the other's Secret, or its own, hold a token that
\* has been revoked, although both may write to one Secret and delete it.
THEOREM NeitherSpoilsOther == SharedSpec => []BothPublished
  <1>1. SharedInv => BothPublished
    BY PeerIsBroker
    DEF SharedInv, WorkInv, IInv, PeerProofs!WorkInv, PeerProofs!IInv,
        BothPublished
  <1> QED BY <1>1, SharedStart, SharedStep, PTL DEF SharedSpec

\* writeTargetSecret never takes a Secret that another resource controls,
\* however far the cache that it reads the controller from is behind.
THEOREM OwnersRespected == SharedSpec => NeverTakenOver
  <1>1. SharedInv /\ [SharedNext]_sharedVars =>
          [\A n \in Names : Secret(n).owner = "ec" =>
              Secret(n)'.owner # "other"]_sharedVars
    BY SharedSteps DEF NotTaken
  <1> QED BY <1>1, SharedStart, SharedStep, PTL DEF SharedSpec, NeverTakenOver

\* Whatever one resource does to the other's Secret, neither is left without
\* a timer: each wakes for its next rotation in time, or for the retry the
\* rate limiter has scheduled.
THEOREM BothAlwaysWoken == SharedSpec => []BothWoken
  <1>1. SharedInv => BothWoken
    BY WorkWakes, PeerFacts, PeerIsBroker DEF SharedInv, BothWoken
  <1> QED BY <1>1, SharedStart, SharedStep, PTL DEF SharedSpec

\* A resource is served when everything has settled and no retry is to come.
LEMMA KeptServes ==
    ASSUME AmpleWindows, KeptInv, Settled, UpToDate, ~retrying,
           Server.spec.target \notin displaced
    PROVE  Served(Target, Server.spec.keys, ledger, revoked)
  <1>1. Rests
    BY DEF Settled, Asleep, Rests, KeptInv, CareInv, ProviderKnown, UpToDate
  <1>2. Reported(Server.spec.target) /\ Len(secw[Server.spec.target]) = 1
    BY <1>1 DEF KeptInv, Watched, Settled, UpToDate
  <1>3. Target.owner = "ec"
    BY <1>2 DEF Reported, Target, Secret
  <1> QED BY <1>3, CareServes DEF KeptInv, Served

LEMMA KeptServesPeer ==
    ASSUME AmpleWindows, KeptInv, PeerProofs!Settled, PeerProofs!UpToDate,
           ~retrying2, PeerProofs!Server.spec.target \notin displaced2
    PROVE  Served(PeerProofs!Target, PeerProofs!Server.spec.keys, ledger2, revoked2)
  <1>1. PeerProofs!Rests
    BY DEF PeerProofs!Settled, PeerProofs!Asleep, PeerProofs!Rests, KeptInv,
       PeerProofs!CareInv, PeerProofs!ProviderKnown, PeerProofs!UpToDate
  <1>2. /\ PeerProofs!Reported(PeerProofs!Server.spec.target)
        /\ Len(secw2[PeerProofs!Server.spec.target]) = 1
    BY <1>1 DEF KeptInv, Watched, PeerProofs!Settled, PeerProofs!UpToDate
  <1>3. PeerProofs!Target.owner = "ec"
    BY <1>2 DEF PeerProofs!Reported, PeerProofs!Target, PeerProofs!Secret
  <1> QED BY <1>3, PeerFacts DEF KeptInv

\* deleteTargetSecret does not ask who controls a Secret, but the watch on
\* owned Secrets tells: a resource whose reconcile is done, with no retry to
\* come, has its Secret, with a live token or a user's value under each key,
\* unless somebody else has had a Secret under the name in between.
THEOREM OwnersServed ==
    ASSUME FixedLifetime, AmpleWindows
    PROVE  SharedSpec => []OwnerServed
  <1>1. KeptInv => OwnerServed
    BY KeptServes, KeptServesPeer, PeerIsBroker DEF OwnerServed
  <1>2. KeptInv /\ [SharedNext]_sharedVars => KeptInv'
    BY KeptStep
  <1> QED BY <1>1, <1>2, KeptStart, PTL DEF SharedSpec
=============================================================================
