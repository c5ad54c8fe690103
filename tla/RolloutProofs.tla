--------------------------- MODULE RolloutProofs ----------------------------
(***************************************************************************)
(* Two replicas of the broker at work on one resource do what one alone    *)
(* does, for every choice of the constants: neither revokes what the other *)
(* has published, a deletion revokes the credential recorded last,         *)
(* whichever of them recorded it, and once either has come to rest the     *)
(* Secret holds a token that is good, whichever wrote it.                  *)
(*                                                                         *)
(* Each replica is a Broker, so the steps of a replica are those of        *)
(* BrokerSafetyProofs and BrokerWorkProofs; for the new one they are       *)
(* instantiated with its variables.  The two halves of the proof, a step   *)
(* of the old replica and one of the new, are the same argument with the   *)
(* roles exchanged.                                                        *)
(***************************************************************************)
EXTENDS Rollout, BrokerWorkProofs

NewProofs == INSTANCE BrokerWorkProofs WITH
    ecw <- ecw2, secw <- secw2, pc <- pc2, ec <- ec2, fresh <- fresh2,
    token <- token2, previous <- previous2, started <- started2,
    fail <- fail2, queued <- queued2, wakeAt <- wakeAt2,
    retrying <- retrying2

----------------------------------------------------------------------------
(* The invariant. *)

\* The windows of both end with what the API server holds.
Agree ==
    /\ Server = NewProofs!Server
    /\ \A n \in Names : Secret(n) = NewProofs!Secret(n)

\* Neither knows the credential that the other has only minted yet.
Apart ==
    /\ pc = "writeSecret" => NewProofs!Unknown(token)
    /\ pc2 = "writeSecret" => Unknown(token2)

\* No Secret that status describes, or is about to, discloses what either
\* replica has revoked or is about to revoke.
Undisclosed ==
    /\ CurrentSafe(NewProofs!Retired) /\ NewProofs!CurrentSafe(Retired)
    /\ CopySafe(NewProofs!Retired) /\ NewProofs!CopySafe(Retired)

RolloutInv ==
    /\ ReplicaInv /\ NewProofs!ReplicaInv
    /\ Unpublished /\ NewProofs!Unpublished
    /\ Agree /\ Apart /\ Undisclosed

CleanInv ==
    RolloutInv /\ Cleaned /\ NewProofs!Cleaned /\ RevokedWhenGone

\* Between either cache and the server there is a version of ours of the
\* Secret that was published, or nothing but absence.
TracedInv ==
    /\ pc \in Published => \A n \in Names : n = ec.spec.target =>
          Traced(n) /\ NewProofs!Traced(n)
    /\ pc2 \in Published => \A n \in Names : n = ec2.spec.target =>
          Traced(n) /\ NewProofs!Traced(n)
    /\ UpToDate => \A n \in Names : n = Server.spec.target =>
          Traced(n) /\ NewProofs!Traced(n)

\* Both see to the Secret, and neither writes a credential to it that was
\* minted more than d before.
ServeInv(d) ==
    /\ RolloutInv /\ TracedInv
    /\ TendInv(d) /\ NewProofs!TendInv(d) /\ JointInv(d)

----------------------------------------------------------------------------
(* The new replica is a Broker. *)

\* The assumptions of Broker do not depend on the replica.
LEMMA NewAssumptions ==
    /\ Specs # {} /\ Specs \subseteq NewProofs!SpecType
    /\ \A s \in InitialSecrets :
          /\ s \in [Names -> NewProofs!Secrets]
          /\ \A n \in Names :
                /\ NewProofs!TokensIn(s[n]) = {} /\ s[n].owner # "ec"
                /\ ~s[n].exists => s[n] = NewProofs!NoSecret
    /\ Disturbances \subseteq NewProofs!Kinds
    /\ Second \in Nat \ {0} /\ DefaultRotateBefore \in Nat \ {0}
    /\ MinRequeueAfter \in Nat \ {0}
    /\ Outputs # {} /\ Outputs \subseteq DataKeys /\ "" \notin DataKeys
    /\ "" \notin Names /\ Registered \subseteq STRING
    /\ Lifetimes \subseteq Nat \ {0}
    /\ BackoffDelays # {} /\ BackoffDelays \subseteq Nat
    /\ MaxDisturbances \in Nat /\ MaxTokens \in Nat /\ MaxTime \in Nat
    /\ Prompt \in BOOLEAN
  <1>1. Specs # {} /\ Specs \subseteq NewProofs!SpecType
    BY SpecsAssumption
    DEF SpecType, NewProofs!SpecType, KeyMaps, NewProofs!KeyMaps
  <1>2. \A s \in InitialSecrets :
          /\ s \in [Names -> NewProofs!Secrets]
          /\ \A n \in Names :
                /\ NewProofs!TokensIn(s[n]) = {} /\ s[n].owner # "ec"
                /\ ~s[n].exists => s[n] = NewProofs!NoSecret
    BY InitialSecretsAssumption
    DEF Secrets, NewProofs!Secrets, TokensIn, NewProofs!TokensIn, NoSecret,
        NewProofs!NoSecret, Empty, NewProofs!Empty, Foreign,
        NewProofs!Foreign
  <1>3. Disturbances \subseteq NewProofs!Kinds
    BY DisturbancesAssumption DEF Kinds, NewProofs!Kinds
  <1> QED
    BY <1>1, <1>2, <1>3, SecondAssumption, DefaultAssumption,
       RequeueAssumption, OutputsAssumption, DataKeysAssumption,
       NamesAssumption, RegisteredAssumption, LifetimesAssumption,
       BackoffAssumption, BoundsAssumption, PromptAssumption

LEMMA NewIsBroker ==
    ASSUME New!Reconcile \/ New!Calls \/ New!Deliveries \/ New!Crash
    PROVE  NewProofs!Next /\ now' = now
  <1>1. \/ NewProofs!Reconcile \/ NewProofs!Calls \/ NewProofs!Deliveries
        \/ NewProofs!Crash
    <2> USE DEF
     New!Reconcile, NewProofs!Reconcile, New!Calls, NewProofs!Calls,
     New!Deliveries, NewProofs!Deliveries, New!Crash, NewProofs!Crash,
     New!ReconcileGone, NewProofs!ReconcileGone, New!ReconcileDelete,
     NewProofs!ReconcileDelete, New!ReconcileNew, NewProofs!ReconcileNew,
     New!ReconcileUnknownProvider, NewProofs!ReconcileUnknownProvider,
     New!ReconcileSteady, NewProofs!ReconcileSteady, New!ReconcileMint,
     NewProofs!ReconcileMint, New!AddFinalizer, NewProofs!AddFinalizer,
     New!SetPending, NewProofs!SetPending, New!Mint, NewProofs!Mint,
     New!MintFails, NewProofs!MintFails, New!MintLost, NewProofs!MintLost,
     New!WriteSecret, NewProofs!WriteSecret, New!WriteSecretFails,
     NewProofs!WriteSecretFails, New!WriteSecretLost,
     NewProofs!WriteSecretLost, New!PersistHandle, NewProofs!PersistHandle,
     New!UpdateStatus, NewProofs!UpdateStatus, New!RevokePrevious,
     NewProofs!RevokePrevious, New!DeleteExpired, NewProofs!DeleteExpired,
     New!FailStatus, NewProofs!FailStatus, New!RevokeOnDelete,
     NewProofs!RevokeOnDelete, New!DeleteSecret, NewProofs!DeleteSecret,
     New!DeleteSecretFails, NewProofs!DeleteSecretFails,
     New!RemoveFinalizer, NewProofs!RemoveFinalizer, New!ECWriteFails,
     NewProofs!ECWriteFails, New!ECWriteLost, NewProofs!ECWriteLost,
     New!DeliverEC, NewProofs!DeliverEC, New!TimerFires,
     NewProofs!TimerFires, New!DeliverSecret, NewProofs!DeliverSecret,
     New!Disturb, NewProofs!Disturb, New!EndRun, NewProofs!EndRun,
     New!Server, NewProofs!Server, New!Secret, NewProofs!Secret, New!NoTime,
     NewProofs!NoTime, New!provider, NewProofs!provider, New!Dequeue,
     NewProofs!Dequeue, New!Cached, NewProofs!Cached, New!ReturnNil,
     NewProofs!ReturnNil, New!ReadEC, NewProofs!ReadEC, New!GoTo,
     NewProofs!GoTo, New!LacksFinalizer, NewProofs!LacksFinalizer, New!Ours,
     NewProofs!Ours, New!failStatus, NewProofs!failStatus, New!MustMint,
     NewProofs!MustMint, New!ReturnAfter, NewProofs!ReturnAfter,
     New!RotationDelay, NewProofs!RotationDelay, New!Accepted,
     NewProofs!Accepted, New!PutEC, NewProofs!PutEC, New!desired,
     NewProofs!desired, New!ReturnRateLimited, NewProofs!ReturnRateLimited,
     New!buildScope, NewProofs!buildScope, New!Grant, NewProofs!Grant,
     New!cluster, NewProofs!cluster, New!queue, NewProofs!queue, New!Fail,
     NewProofs!Fail, New!writeTargetSecret, NewProofs!writeTargetSecret,
     New!SecretWritable, NewProofs!SecretWritable, New!Put, NewProofs!Put,
     New!Revoke, NewProofs!Revoke, New!NextRotation, NewProofs!NextRotation,
     New!deleteTargetSecret, NewProofs!deleteTargetSecret, New!ECWrites,
     NewProofs!ECWrites, New!locals, NewProofs!locals, New!Enqueues,
     NewProofs!Enqueues, New!NilEC, NewProofs!NilEC, New!NoFail,
     NewProofs!NoFail, New!needsMint, NewProofs!needsMint,
     New!targetSecretExists, NewProofs!targetSecretExists, New!Earliest,
     NewProofs!Earliest, New!requeueAfter, NewProofs!requeueAfter,
     New!statusWindow, NewProofs!statusWindow, New!withFinalizer,
     NewProofs!withFinalizer, New!pendingStatus, NewProofs!pendingStatus,
     New!withHandle, NewProofs!withHandle, New!activeStatus,
     NewProofs!activeStatus, New!failedStatus, NewProofs!failedStatus,
     New!withoutFinalizer, NewProofs!withoutFinalizer, New!PutSecret,
     NewProofs!PutSecret, New!mutate, NewProofs!mutate, New!CachedSecret,
     NewProofs!CachedSecret, New!Revocable, NewProofs!Revocable,
     New!clampRotateBefore, NewProofs!clampRotateBefore,
     New!requestedRotateBefore, NewProofs!requestedRotateBefore,
     New!NoSecret, NewProofs!NoSecret, New!NewEC, NewProofs!NewEC,
     New!windowOpen, NewProofs!windowOpen, New!grantedLifetime,
     NewProofs!grantedLifetime, New!Persisted, NewProofs!Persisted,
     New!written, NewProofs!written, New!Empty, NewProofs!Empty,
     New!NoStatus, NewProofs!NoStatus, New!secretKey, NewProofs!secretKey,
     New!timer, NewProofs!timer, New!Schedule, NewProofs!Schedule,
     New!StoreEC, NewProofs!StoreEC
    <2>1. New!Reconcile => NewProofs!Reconcile
      OBVIOUS
    <2>2. New!Calls => NewProofs!Calls
      OBVIOUS
    <2>3. New!Deliveries => NewProofs!Deliveries
      OBVIOUS
    <2>4. New!Crash => NewProofs!Crash
      OBVIOUS
    <2> HIDE DEF New!Reconcile, NewProofs!Reconcile, New!Calls, NewProofs!Calls,
         New!Deliveries, NewProofs!Deliveries, New!Crash, NewProofs!Crash
    <2> QED BY <2>1, <2>2, <2>3, <2>4
  <1> QED BY <1>1, NewProofs!WorkClock, NewAssumptions DEF NewProofs!Next

\* Nor do the sets of values.
LEMMA SameTypes ==
    /\ NewProofs!Credentials = Credentials /\ NewProofs!Tokens = Tokens
    /\ NewProofs!Secrets = Secrets /\ NewProofs!Minted = Minted
    /\ NewProofs!Published = Published
    /\ \A s : NewProofs!Managed(s) <=> Managed(s)
  BY DEF NewProofs!Credentials, Credentials, NewProofs!Statuses, Statuses,
     NewProofs!States, States, NewProofs!Times, Times, NewProofs!NoTime,
     NoTime, NewProofs!Tokens, Tokens, NewProofs!Secrets, Secrets,
     NewProofs!Minted, Minted, NewProofs!Published, Published,
     NewProofs!Managed, Managed, NewProofs!Empty, Empty, NewProofs!Foreign,
     Foreign

LEMMA SameHypotheses ==
    /\ NewProofs!NoEdits <=> NoEdits
    /\ NewProofs!FixedLifetime <=> FixedLifetime
    /\ \A d : NewProofs!AmpleFor(d) <=> AmpleFor(d)
  BY DEF NewProofs!NoEdits, NoEdits, NewProofs!FixedLifetime, FixedLifetime,
     NewProofs!AmpleFor, AmpleFor, NewProofs!requestedRotateBefore,
     requestedRotateBefore

\* What the replicas share is the same for both, before a step
LEMMA SharedSame ==
    ASSUME NEW d, Agree
    PROVE  NewProofs!JointInv(d) <=> JointInv(d)
  <1>1. \A n \in Names :
          /\ NewProofs!Owned(NewProofs!Secret(n)) <=> Owned(Secret(n))
          /\ NewProofs!TokensIn(NewProofs!Secret(n)) = TokensIn(Secret(n))
    BY DEF Agree, NewProofs!Owned, Owned, NewProofs!TokensIn, TokensIn,
       NewProofs!Empty, Empty, NewProofs!Foreign, Foreign
  <1>2. /\ NewProofs!GrantCovers(d) <=> GrantCovers(d)
        /\ (NewProofs!StatusPast <=> StatusPast) /\ (NewProofs!UpToDate <=> UpToDate)
    BY DEF Agree, NewProofs!GrantCovers, GrantCovers,
       NewProofs!grantedLifetime,
       grantedLifetime, NewProofs!StatusPast, StatusPast, NewProofs!UpToDate,
       UpToDate, NewProofs!NoTime, NoTime
  <1>3. (NewProofs!Granted <=> Granted) /\ (NewProofs!TokensHeld <=> TokensHeld)
    BY <1>1 DEF NewProofs!Granted, Granted, NewProofs!TokensHeld, TokensHeld
  <1>4. NewProofs!CurrentLate(d) <=> CurrentLate(d)
    BY <1>1, <1>2 DEF Agree, NewProofs!CurrentLate, CurrentLate,
       NewProofs!Late, Late
  <1> QED BY <1>2, <1>3, <1>4 DEF NewProofs!JointInv, JointInv

\* and after it.
LEMMA SharedSameNext ==
    ASSUME NEW d, Agree'
    PROVE  NewProofs!JointInv(d)' <=> JointInv(d)'
  <1>1. \A n \in Names :
          /\ NewProofs!Owned(NewProofs!Secret(n))' <=> Owned(Secret(n))'
          /\ NewProofs!TokensIn(NewProofs!Secret(n))' = TokensIn(Secret(n))'
    BY DEF Agree, NewProofs!Owned, Owned, NewProofs!TokensIn, TokensIn,
       NewProofs!Empty, Empty, NewProofs!Foreign, Foreign
  <1>2. /\ NewProofs!GrantCovers(d)' <=> GrantCovers(d)'
        /\ (NewProofs!StatusPast' <=> StatusPast') /\ (NewProofs!UpToDate' <=> UpToDate')
    BY DEF Agree, NewProofs!GrantCovers, GrantCovers,
       NewProofs!grantedLifetime,
       grantedLifetime, NewProofs!StatusPast, StatusPast, NewProofs!UpToDate,
       UpToDate, NewProofs!NoTime, NoTime
  <1>3. (NewProofs!Granted' <=> Granted') /\ (NewProofs!TokensHeld' <=> TokensHeld')
    BY <1>1 DEF NewProofs!Granted, Granted, NewProofs!TokensHeld, TokensHeld
  <1>4. NewProofs!CurrentLate(d)' <=> CurrentLate(d)'
    BY <1>1, <1>2 DEF Agree, NewProofs!CurrentLate, CurrentLate,
       NewProofs!Late, Late
  <1> QED BY <1>2, <1>3, <1>4 DEF NewProofs!JointInv, JointInv

----------------------------------------------------------------------------
(* A step of the old replica. *)

LEMMA OldTeaches ==
    ASSUME RolloutInv, Next, NewLearns
    PROVE  NewProofs!Learns /\ Agree'
  <1>i. ReplicaInv /\ NewProofs!ReplicaInv /\ Agree
    BY DEF RolloutInv
  <1>t. TypeOK /\ NewProofs!TypeOK /\ TokensManaged
    BY <1>i DEF ReplicaInv, NewProofs!ReplicaInv
  <1>n. ReplicaInv'
    BY <1>i, ReplicaStep
  <1>p. TypeOK'
    BY <1>n DEF ReplicaInv
  <1>1. /\ \/ ecw2' = ecw2 /\ fresh2' = fresh2
           \/ fresh2' = FALSE /\ \E v : NewProofs!Successor(v) /\ ecw2' = Append(ecw2, v)
        /\ Server' = NewProofs!Server'
    <2>l. /\ ecw \in Seq(Credentials) /\ Len(ecw) >= 1
          /\ ecw2 \in Seq(Credentials) /\ Len(ecw2) >= 1
          /\ Len(ecw') \in Nat /\ fresh2 \in BOOLEAN
      BY <1>t, <1>p, SameTypes
      DEF TypeOK, NewProofs!TypeOK, NewProofs!LocalsOK
    <2>v. \/ Len(ecw') <= Len(ecw) /\ Server' = Server
          \/ \E v : Successor(v) /\ ecw' = Append(ecw, v)
      BY <1>i, VersionStep
    <2>1. CASE Len(ecw') <= Len(ecw) /\ Server' = Server
      <3>1. ecw2' = ecw2
        BY <2>l, <2>1 DEF NewLearns, Learn
      <3>2. fresh2' = fresh2
        BY <2>l, <2>1 DEF NewLearns
      <3>3. NewProofs!Server' = NewProofs!Server
        BY <3>1 DEF NewProofs!Server
      <3> QED BY <1>i, <2>1, <3>1, <3>2, <3>3 DEF Agree
    <2>2. ASSUME NEW v, Successor(v), ecw' = Append(ecw, v)
          PROVE  /\ fresh2' = FALSE /\ NewProofs!Successor(v) /\ ecw2' = Append(ecw2, v)
                 /\ Server' = NewProofs!Server'
      <3>1. v \in Credentials
        BY <2>2, SameTypes DEF Successor
      <3>2. Len(ecw') = Len(ecw) + 1 /\ ecw'[Len(ecw')] = v
        BY <2>l, <2>2, <3>1
      <3>g. Len(ecw') > Len(ecw) /\ ~(Len(ecw') <= Len(ecw))
        BY <2>l, <3>2
      <3>f. fresh2' = FALSE
        BY <3>g DEF NewLearns
      <3>3. ecw2' = Append(ecw2, v)
        BY <3>2, <3>g DEF NewLearns, Learn
      <3>4. ecw2'[Len(ecw2')] = v
        BY <2>l, <3>1, <3>3
      <3>5. NewProofs!Successor(v)
        BY <1>i, <2>2, SameTypes DEF Agree, Successor, NewProofs!Successor
      <3> QED BY <3>2, <3>f, <3>3, <3>4, <3>5 DEF Server, NewProofs!Server
    <2> QED BY <2>v, <2>1, <2>2
  <1>2. ASSUME NEW n \in Names
        PROVE  /\ \/ secw2'[n] = secw2[n]
                  \/ \E v \in Secrets :
                        Managed(v) /\ secw2'[n] = Append(secw2[n], v)
               /\ Secret(n)' = NewProofs!Secret(n)'
    <2>l. /\ secw[n] \in Seq(Secrets) /\ Len(secw[n]) >= 1
          /\ secw2[n] \in Seq(Secrets) /\ Len(secw2[n]) >= 1
          /\ Len(secw'[n]) \in Nat
          /\ secw2'[n] = Learn(secw2[n], secw[n], secw'[n])
      BY <1>t, <1>p, SameTypes
      DEF TypeOK, NewProofs!TypeOK, NewLearns
    <2>v. \/ Len(secw'[n]) <= Len(secw[n]) /\ Secret(n)' = Secret(n)
          \/ \E v \in Secrets :
                Managed(v) /\ secw'[n] = Append(secw[n], v)
      BY <1>t, SecretVersionStep
    <2>1. CASE Len(secw'[n]) <= Len(secw[n]) /\ Secret(n)' = Secret(n)
      <3>1. secw2'[n] = secw2[n]
        BY <2>l, <2>1 DEF Learn
      <3>2. NewProofs!Secret(n)' = NewProofs!Secret(n)
        BY <3>1 DEF NewProofs!Secret
      <3> QED BY <1>i, <2>1, <3>1, <3>2 DEF Agree
    <2>2. ASSUME NEW v \in Secrets, Managed(v), secw'[n] = Append(secw[n], v)
          PROVE  secw2'[n] = Append(secw2[n], v) /\ Secret(n)' = NewProofs!Secret(n)'
      <3>1. Len(secw'[n]) = Len(secw[n]) + 1 /\ secw'[n][Len(secw'[n])] = v
        BY <2>l, <2>2
      <3>2. secw2'[n] = Append(secw2[n], v)
        BY <2>l, <3>1 DEF Learn
      <3>3. secw2'[n][Len(secw2'[n])] = v
        BY <2>l, <3>2
      <3> QED BY <3>1, <3>2, <3>3 DEF Secret, NewProofs!Secret
    <2> QED BY <2>v, <2>1, <2>2, SameTypes
  <1>3. secw2' = [n \in Names |-> secw2'[n]]
    BY DEF NewLearns
  <1>4. /\ Len(ledger) <= Len(ledger')
        /\ \A t \in 1..Len(ledger) : ledger'[t] = ledger[t]
        /\ revoked \subseteq revoked'
    BY <1>t, LedgerGrows, RevokedGrows
  <1>5. /\ now' \in Nat /\ used' \in Nat
        /\ ledger' \in Seq(Tokens) /\ revoked' \subseteq 1..Len(ledger')
    BY <1>p, SameTypes DEF TypeOK
  <1>6. UNCHANGED <<pc2, ec2, token2, previous2, started2, fail2, NewProofs!queue>>
    BY DEF NewLearns, rest2, NewProofs!queue, NewProofs!timer
  <1>7. NewProofs!Learns
    BY <1>1, <1>2, <1>3, <1>4, <1>5, <1>6, SameTypes DEF NewProofs!Learns
  <1> QED BY <1>1, <1>2, <1>7 DEF Agree

LEMMA OldStep ==
    ASSUME RolloutInv, Next, NewLearns
    PROVE  RolloutInv'
  <1>i. /\ ReplicaInv /\ NewProofs!ReplicaInv /\ Unpublished /\ NewProofs!Unpublished
        /\ Agree /\ Apart /\ Undisclosed
    BY DEF RolloutInv
  <1>1. NewProofs!Learns /\ Agree'
    BY OldTeaches
  <1>2. ReplicaInv' /\ Unpublished'
    BY <1>i, ReplicaStep, UnpublishedStep
  <1>3. NewProofs!ReplicaInv'
    BY <1>i, <1>1, NewProofs!LearnsKeeps, NewAssumptions
  <1>u. UNCHANGED <<pc2, ec2, token2, previous2>>
    BY <1>1 DEF NewProofs!Learns
  <1>r. NewProofs!Retired' = NewProofs!Retired /\ NewProofs!InUse' = NewProofs!InUse
    BY <1>u DEF NewProofs!Retired, NewProofs!InUse
  <1>h. Server'.handle \in Handles' /\ NewProofs!Server' = Server'
    <2>1. Len(ecw') \in 1..Len(ecw')
      BY <1>2 DEF ReplicaInv, TypeOK
    <2>2. Server'.handle \in Handles'
      BY <2>1 DEF Server, Handles
    <2> QED BY <1>1, <2>2 DEF Agree
  <1>b. /\ Len(ledger) \in Nat /\ \A h \in NewProofs!Handles : h \in 0..Len(ledger)
        /\ \A h \in NewProofs!InUse \cup revoked : h \in 1..Len(ledger)
    BY <1>i, NewProofs!HandleBounds, NewAssumptions
  <1>4. ASSUME pc2 = "writeSecret"
        PROVE  token2 \notin Handles' \cup InUse' \cup revoked'
    <2>1. Unknown(token2)
      BY <1>i, <1>4 DEF Apart
    <2>2. token2 \in 1..Len(ledger)
      BY <1>i, <1>4 DEF NewProofs!ReplicaInv, NewProofs!RunOK, NewProofs!Minted
    <2> QED BY <1>i, <2>1, <2>2, UnknownStep
  <1>5. NewProofs!Unpublished'
    <2> SUFFICES ASSUME pc2 = "writeSecret"
                 PROVE  token2 \notin NewProofs!Handles' \cup revoked'
      BY <1>u DEF NewProofs!Unpublished
    <2>1. token2 \notin NewProofs!Handles
      BY <1>i DEF NewProofs!Unpublished
    <2>2. token2 # NewProofs!Server'.handle /\ token2 \notin revoked'
      BY <1>4, <1>h
    <2>3. NewProofs!TypeOK
      BY <1>i DEF NewProofs!ReplicaInv
    <2>4. token2 \notin NewProofs!Handles'
      BY <1>1, <2>1, <2>2, <2>3, NewProofs!LearnsUnknown, NewAssumptions
    <2> QED BY <2>2, <2>4
  <1>6. ASSUME pc' = "writeSecret"
        PROVE  token' \notin NewProofs!Handles' \cup NewProofs!InUse' \cup revoked'
    <2>1. token' \notin Handles' \cup revoked'
      BY <1>2, <1>6 DEF Unpublished
    <2>2. token' = Len(ledger) + 1 \/ (pc = "writeSecret" /\ token' = token)
      BY <1>6, FirstInHand
    <2>3. token' \notin NewProofs!Handles \cup NewProofs!InUse
      <3>1. CASE token' = Len(ledger) + 1
        BY <1>b, <3>1
      <3>2. CASE pc = "writeSecret" /\ token' = token
        BY <1>i, <3>2 DEF Apart, NewProofs!Unknown
      <3> QED BY <2>2, <3>1, <3>2
    <2>4. NewProofs!TypeOK
      BY <1>i DEF NewProofs!ReplicaInv
    <2>5. token' # NewProofs!Server'.handle
      BY <1>h, <2>1
    <2>6. token' \notin NewProofs!Handles'
      BY <1>1, <2>3, <2>4, <2>5, NewProofs!LearnsUnknown, NewAssumptions
    <2> QED BY <1>r, <2>1, <2>3, <2>6
  <1>7. Apart'
    BY <1>u, <1>4, <1>6 DEF Apart, Unknown, NewProofs!Unknown
  <1>w. ASSUME pc = "writeSecret"
        PROVE  token \notin NewProofs!Retired /\ token # previous2
    BY <1>i, <1>w DEF Apart, NewProofs!Unknown, NewProofs!Retired,
       NewProofs!Handles
  <1>8. ASSUME UpToDate', NEW n \in Names, n = Server'.spec.target,
               NEW t \in TokensIn(Secret(n))'
        PROVE  t \notin revoked' \cup Retired' \cup NewProofs!Retired
    <2>1. CurrentSafe(NewProofs!Retired) /\ CopySafe(NewProofs!Retired)
      BY <1>i DEF Undisclosed
    <2> QED BY <1>i, <1>w, <1>8, <2>1, CurrentSafeStep
  <1>9. ASSUME fresh', pc' \in {"persistHandle", "updateStatus"},
               NEW n \in Names, n = ec'.spec.target,
               NEW t \in TokensIn(Secret(n))'
        PROVE  t \notin revoked' \cup Retired' \cup (NewProofs!Retired \cup {previous'})
    <2>1. CopySafe(NewProofs!Retired)
      BY <1>i DEF Undisclosed
    <2> QED BY <1>i, <1>w, <1>9, <2>1, CopySafeStep
  <1>10. ASSUME fresh2', pc2 \in {"persistHandle", "updateStatus"},
                NEW n \in Names, n = ec2.spec.target,
                NEW t \in TokensIn(Secret(n))'
         PROVE  t \notin revoked' \cup Retired' \cup {previous2}
    <2>l. Len(ecw) \in Nat /\ Len(ecw') \in Nat
      BY <1>i, <1>2 DEF ReplicaInv, TypeOK
    <2>f. fresh2 /\ Len(ecw') <= Len(ecw)
      BY <1>10 DEF NewLearns
    <2>1. fresh2 /\ ~(Len(ecw') > Len(ecw))
      BY <2>f, <2>l
    <2>d. ec2 = NewProofs!Server /\ ec2 = Server /\ ~Server.deleting
      BY <1>i, <1>10, <2>1 DEF NewProofs!ReplicaInv, NewProofs!FreshCopy,
         NewProofs!Wanted, NewProofs!Minted, Agree
    <2>2. Safe(n, {previous2})
      <3>1. NewProofs!Safe(n, Retired \cup {previous2})
        BY <1>i, <1>10, <2>1 DEF Undisclosed, NewProofs!CopySafe
      <3>2. TokensIn(Secret(n)) = NewProofs!TokensIn(NewProofs!Secret(n))
        BY <1>i DEF Agree, TokensIn, NewProofs!TokensIn, Empty,
           NewProofs!Empty, Foreign, NewProofs!Foreign
      <3> QED BY <3>1, <3>2 DEF Safe, NewProofs!Safe
    <2>3. CASE Retired' \subseteq Retired
      <3>1. pc = "writeSecret" => token \notin {previous2}
        BY <1>w
      <3>2. Retired' \subseteq Retired \cup {previous2}
        BY <2>3
      <3> QED BY <1>i, <1>10, <2>d, <2>2, <3>1, <3>2, SafeStep
    <2>4. CASE UpdateStatus /\ Retired' = {previous}
      <3>1. fresh /\ pc = "updateStatus"
        BY <2>4 DEF UpdateStatus, Put, Accepted
      <3>2. ec = Server
        BY <1>i, <3>1 DEF ReplicaInv, FreshCopy
      <3>3. Safe(n, NewProofs!Retired \cup {previous})
        BY <1>i, <1>10, <2>d, <3>1, <3>2 DEF Undisclosed, CopySafe
      <3>4. Safe(n, {previous, previous2})
        BY <2>2, <3>3 DEF Safe
      <3>5. Retired' \subseteq Retired \cup {previous, previous2}
        BY <2>4
      <3>6. pc = "writeSecret" => token \notin {previous, previous2}
        BY <3>1
      <3> QED BY <1>i, <1>10, <2>d, <3>4, <3>5, <3>6, SafeStep
    <2> QED BY <1>i, <2>3, <2>4, RetiredSteps
  <1>s. /\ UpToDate' <=> NewProofs!UpToDate'
        /\ \A n \in Names : TokensIn(Secret(n))' = NewProofs!TokensIn(NewProofs!Secret(n))'
    BY <1>1 DEF Agree, UpToDate, NewProofs!UpToDate, NoTime, NewProofs!NoTime,
       TokensIn, NewProofs!TokensIn, Empty, NewProofs!Empty, Foreign,
       NewProofs!Foreign
  <1>11. (CurrentSafe(NewProofs!Retired) /\ NewProofs!CurrentSafe(Retired))'
    BY <1>r, <1>h, <1>s, <1>8
    DEF CurrentSafe, NewProofs!CurrentSafe, Safe, NewProofs!Safe
  <1>12. CopySafe(NewProofs!Retired)'
    BY <1>r, <1>9 DEF CopySafe, Safe
  <1>13. NewProofs!CopySafe(Retired)'
    <2>1. pc2 \in {"persistHandle", "updateStatus"} => NewProofs!Retired' = {}
      BY <1>r DEF NewProofs!Retired
    <2> QED BY <1>u, <1>s, <1>10, <2>1 DEF NewProofs!CopySafe, NewProofs!Safe
  <1>14. Undisclosed'
    BY <1>11, <1>12, <1>13 DEF Undisclosed
  <1> QED BY <1>1, <1>2, <1>3, <1>5, <1>7, <1>14 DEF RolloutInv

LEMMA OldCleans ==
    ASSUME RevokeSucceeds, CleanInv, Next, NewLearns
    PROVE  CleanInv'
  <1>1. RolloutInv /\ ReplicaInv /\ NewProofs!ReplicaInv /\ Agree /\ Cleaned /\ NewProofs!Cleaned
    BY DEF CleanInv, RolloutInv
  <1>2. RolloutInv' /\ Agree'
    BY <1>1, OldStep DEF RolloutInv
  <1>3. NewProofs!Learns
    BY <1>1, OldTeaches
  <1>t. /\ TypeOK /\ HandlesMinted /\ NewProofs!TypeOK /\ NewProofs!HandlesMinted
    BY <1>1 DEF ReplicaInv, NewProofs!ReplicaInv
  <1>4. Cleaned'
    BY <1>1, <1>t, CleanedStep DEF RevokeSucceeds, NewProofs!RevokeSucceeds
  <1>5. NewProofs!Cleaned'
    BY <1>1, <1>3, <1>t, NewProofs!LearnsCleaned, NewAssumptions
  <1>6. RevokedWhenGone
    BY <1>1 DEF CleanInv, Agree, RevokedWhenGone, NewProofs!RevokedWhenGone,
       Revocable, NewProofs!Revocable
  <1>7. RevokedWhenGone'
    BY <1>1, <1>6, ReplicaGone
  <1>8. RevokedWhenGone'
    BY <1>2, <1>7 DEF Agree, RevokedWhenGone, NewProofs!RevokedWhenGone,
       Revocable, NewProofs!Revocable
  <1> QED BY <1>2, <1>4, <1>5, <1>8 DEF CleanInv

LEMMA OldTeachesOurs ==
    ASSUME NoEdits, RolloutInv, Next, NewLearns, NEW n \in Names
    PROVE  NewProofs!LearnsSecret(n) /\ (Written(n) => NewProofs!LearnsOwned(n))
  <1>t. TypeOK /\ NewProofs!TypeOK /\ NoEdits
    BY SameHypotheses DEF RolloutInv, ReplicaInv, NewProofs!ReplicaInv
  <1>l. /\ secw[n] \in Seq(Secrets) /\ Len(secw[n]) \in Nat
        /\ Len(secw[n]) >= 1
        /\ secw2'[n] = Learn(secw2[n], secw[n], secw'[n])
    BY <1>t, SameTypes DEF TypeOK, NewLearns
  <1>1. ASSUME NEW v, secw'[n] = Append(secw[n], v)
        PROVE  secw2'[n] = Append(secw2[n], v)
    <2>1. Len(secw'[n]) = Len(secw[n]) + 1 /\ secw'[n][Len(secw[n]) + 1] = v
      BY <1>t, <1>1, Appended
    <2> QED BY <1>l, <2>1 DEF Learn
  <1>2. ASSUME Written(n)
        PROVE  NewProofs!LearnsSecret(n) /\ NewProofs!LearnsOwned(n)
    <2> DEFINE v == mutate(CachedSecret(n), ec.spec.keys, token)
    <2>1. v.exists /\ v.owner = "ec"
      BY DEF mutate
    <2>2. secw'[n] = Append(secw[n], v)
      BY <1>2 DEF Written
    <2> HIDE DEF v
    <2> QED BY <1>1, <2>1, <2>2 DEF NewProofs!LearnsSecret,
               NewProofs!LearnsOwned, NewProofs!Owned
  <1>3. CASE secw'[n] = secw[n]
    <2>1. secw2'[n] = secw2[n]
      BY <1>l, <1>3 DEF Learn
    <2> QED BY <1>2, <2>1 DEF NewProofs!LearnsSecret
  <1>4. CASE Forwarded(n)
    <2>1. Len(secw'[n]) \in Nat /\ Len(secw'[n]) <= Len(secw[n])
      <3>1. CASE Len(secw[n]) > 1 /\ secw'[n] = Tail(secw[n])
        BY <1>l, <3>1
      <3>2. CASE secw'[n] = <<Secret(n)>>
        <4>1. Len(secw'[n]) = 1
          BY <3>2
        <4> QED BY <1>l, <4>1
      <3> QED BY <1>4, <3>1, <3>2 DEF Forwarded
    <2>2. secw2'[n] = secw2[n]
      BY <1>l, <2>1 DEF Learn
    <2> QED BY <1>2, <2>2 DEF NewProofs!LearnsSecret
  <1>5. CASE secw'[n] = Append(secw[n], NoSecret)
    BY <1>1, <1>2, <1>5 DEF NoSecret, NewProofs!LearnsSecret
  <1> QED BY <1>t, <1>2, <1>3, <1>4, <1>5, SecretWindows

LEMMA OldTraces ==
    ASSUME NoEdits, RolloutInv, TracedInv, TendsOn, NewProofs!TendsOn, Next,
           NewLearns
    PROVE  TracedInv'
  <1>i. /\ ReplicaInv /\ NewProofs!ReplicaInv /\ Agree
        /\ OursOrNone /\ NewProofs!OursOrNone /\ NoEdits
    BY SameHypotheses DEF RolloutInv, TendsOn, NewProofs!TendsOn
  <1>t. /\ TypeOK /\ RunOK /\ FreshCopy /\ Observed /\ NewProofs!TypeOK
    BY <1>i DEF ReplicaInv, NewProofs!ReplicaInv
  <1>1. ASSUME NEW n \in Names, Written(n) \/ (Traced(n) /\ NewProofs!Traced(n))
        PROVE  Traced(n)' /\ NewProofs!Traced(n)'
    <2>1. NewProofs!LearnsSecret(n) /\ (Written(n) => NewProofs!LearnsOwned(n))
      BY OldTeachesOurs
    <2>2. Traced(n)'
      BY <1>i, <1>t, <1>1, TracedStep
    <2>3. NewProofs!Traced(n)'
      BY <1>i, <1>t, <1>1, <2>1, NewProofs!TracedLearned, NewAssumptions
    <2> QED BY <2>2, <2>3
  <1>2. ASSUME pc' \in Published, NEW n \in Names, n = ec'.spec.target
        PROVE  Traced(n)' /\ NewProofs!Traced(n)'
    <2>1. \/ /\ pc = "writeSecret" /\ UNCHANGED <<ec, token, ledger>>
             /\ \A m \in Names : m = ec.spec.target => Written(m)
          \/ /\ pc \in Published /\ ec'.spec = ec.spec
             /\ UNCHANGED <<token, ledger>>
      BY <1>t, <1>2, SameTypes, PublishedSteps
    <2> QED BY <1>1, <1>2, <2>1 DEF TracedInv
  <1>3. ASSUME pc2' \in Published, NEW n \in Names, n = ec2'.spec.target
        PROVE  Traced(n)' /\ NewProofs!Traced(n)'
    BY <1>1, <1>3 DEF TracedInv, NewLearns, rest2
  <1>u. UpToDate <=> UpToDate
    BY <1>i DEF Agree, UpToDate, NewProofs!UpToDate, NoTime, NewProofs!NoTime
  <1>4. ASSUME UpToDate', NEW n \in Names, n = Server'.spec.target
        PROVE  Traced(n)' /\ NewProofs!Traced(n)'
    <2>1. \/ UpToDate /\ Server'.spec = Server.spec
          \/ pc = "updateStatus" /\ Server'.spec = ec.spec
      BY <1>t, <1>4, CurrentSteps
    <2>2. CASE UpToDate /\ Server'.spec = Server.spec
      BY <1>i, <1>u, <1>1, <1>4, <2>2 DEF TracedInv, Agree
    <2>3. CASE pc = "updateStatus" /\ Server'.spec = ec.spec
      BY <1>1, <1>4, <2>3 DEF TracedInv, Published
    <2> QED BY <2>1, <2>2, <2>3
  <1>5. Agree'
    BY OldTeaches
  <1>6. (UpToDate' <=> UpToDate') /\ Server' = Server'
    BY <1>5 DEF Agree, UpToDate, NewProofs!UpToDate, NoTime, NewProofs!NoTime
  <1> QED BY <1>2, <1>3, <1>4, <1>6 DEF TracedInv

LEMMA OldServes ==
    ASSUME NEW d \in Nat, NoEdits, FixedLifetime, AmpleFor(d), ServeInv(d),
           Brisk(d), Next, NewLearns
    PROVE  ServeInv(d)'
  <1>i. /\ RolloutInv /\ TracedInv /\ ReplicaInv /\ NewProofs!ReplicaInv /\ Agree
        /\ TendInv(d) /\ NewProofs!TendInv(d) /\ JointInv(d)
    BY DEF ServeInv, RolloutInv
  <1>t. /\ TypeOK /\ RunOK /\ TokensManaged /\ NewProofs!TypeOK /\ NewProofs!RunOK
        /\ TendsOn /\ NewProofs!TendsOn
    BY <1>i DEF ReplicaInv, NewProofs!ReplicaInv, TendInv, NewProofs!TendInv
  <1>h. NoEdits /\ FixedLifetime /\ AmpleFor(d)
    BY SameHypotheses
  <1>s. JointInv(d) /\ Granted
    BY <1>i, SharedSame DEF JointInv, NewProofs!JointInv
  <1>1. NewProofs!Learns /\ Agree' /\ RolloutInv'
    BY <1>i, OldTeaches, OldStep
  <1>2. \A n \in Names : NewProofs!LearnsSecret(n)
    BY <1>i, OldTeachesOurs
  <1>3. TracedInv'
    BY <1>i, <1>t, OldTraces
  <1>4. TendInv(d)'
    <2>1. UpToDate => \A n \in Names : n = Server.spec.target => Traced(n)
      BY <1>i DEF TracedInv, Agree, UpToDate, NewProofs!UpToDate, NoTime,
         NewProofs!NoTime
    <2> QED BY <1>i, <1>h, <1>s, <2>1, TendStep
  <1>5. JointInv(d)'
    <2>1. JointInv(d)'
      BY <1>i, <1>h, <1>s, JointStep
    <2> QED BY <1>1, <2>1, SharedSameNext
  <1>6. NewProofs!TendsOn'
    <2>1. UpToDate' => Server'.spec.provider \in Registered
      BY <1>4 DEF TendInv, TendsOn, ProviderKnown
    <2>2. NewProofs!UpToDate' => NewProofs!Server'.spec.provider \in Registered
      BY <1>1, <2>1 DEF Agree, UpToDate, NewProofs!UpToDate, NoTime,
         NewProofs!NoTime
    <2>3. now' = now \/ now' = now + 1
      BY ClockSteps
    <2> QED BY <1>t, <1>1, <1>2, <2>2, <2>3, NewProofs!TendLearned,
               NewAssumptions
  <1>7. NewProofs!PublishedLate(d)'
    <2>u. UNCHANGED <<pc2, ec2, token2>>
      BY <1>1 DEF NewProofs!Learns
    <2> SUFFICES ASSUME pc2 \in Published, NEW n \in Names, n = ec2.spec.target,
                        NEW t \in NewProofs!TokensIn(NewProofs!Secret(n))'
                 PROVE  /\ t \in 1..Len(ledger')
                        /\ ledger'[t].expiry >= ledger'[token2].expiry - d
      BY <2>u, SameTypes DEF NewProofs!PublishedLate, NewProofs!Late
    <2>1. token2 \in 1..Len(ledger)
      BY <1>t, SameTypes DEF NewProofs!RunOK, Minted, Published
    <2>x. ledger[token2].expiry \in Nat
      BY <1>t, <2>1, NewProofs!Expiries, NewAssumptions
    <2>2. PICK e \in Int : e = ledger[token2].expiry
      BY <2>x
    <2>3. \A l \in Lifetimes : e <= now + l
      BY <1>s, <2>1, <2>2 DEF Granted
    <2>4. TokensIn(Secret(n)) = NewProofs!TokensIn(NewProofs!Secret(n))
      BY <1>i DEF Agree, TokensIn, NewProofs!TokensIn, Empty, NewProofs!Empty,
         Foreign, NewProofs!Foreign
    <2>5. Late(n, e - d)
      <3>1. NewProofs!Late(n, e - d)
        BY <1>i, <2>2, SameTypes DEF NewProofs!TendInv, NewProofs!PublishedLate
      <3> QED BY <2>4, <3>1 DEF Late, NewProofs!Late
    <2>6. t \in TokensIn(Secret(n))'
      BY <1>1 DEF Agree, TokensIn, NewProofs!TokensIn, Empty, NewProofs!Empty,
         Foreign, NewProofs!Foreign
    <2>7. t \in 1..Len(ledger') /\ ledger'[t].expiry >= e - d
      BY <1>t, <1>s, <2>3, <2>5, <2>6, LateKept
    <2>8. ledger'[token2] = ledger[token2]
      BY <1>1, <2>1 DEF NewProofs!Learns
    <2> QED BY <2>2, <2>7, <2>8
  <1> QED BY <1>1, <1>3, <1>4, <1>5, <1>6, <1>7
          DEF ServeInv, TendInv, NewProofs!TendInv


----------------------------------------------------------------------------
(* A step of the new replica. *)

LEMMA NewTeaches ==
    ASSUME RolloutInv, NewProofs!Next, OldLearns
    PROVE  Learns /\ Agree'
  <1>i. NewProofs!ReplicaInv /\ ReplicaInv /\ Agree
    BY DEF RolloutInv
  <1>t. NewProofs!TypeOK /\ TypeOK /\ NewProofs!TokensManaged
    BY <1>i DEF ReplicaInv, NewProofs!ReplicaInv
  <1>n. NewProofs!ReplicaInv'
    BY <1>i, NewProofs!ReplicaStep, NewAssumptions
  <1>p. NewProofs!TypeOK'
    BY <1>n DEF NewProofs!ReplicaInv
  <1>1. /\ \/ ecw' = ecw /\ fresh' = fresh
           \/ fresh' = FALSE /\ \E v : Successor(v) /\ ecw' = Append(ecw, v)
        /\ NewProofs!Server' = Server'
    <2>l. /\ ecw2 \in Seq(Credentials) /\ Len(ecw2) >= 1
          /\ ecw \in Seq(Credentials) /\ Len(ecw) >= 1
          /\ Len(ecw2') \in Nat /\ fresh \in BOOLEAN
      BY <1>t, <1>p, SameTypes
      DEF TypeOK, NewProofs!TypeOK, LocalsOK
    <2>v. \/ Len(ecw2') <= Len(ecw2) /\ NewProofs!Server' = NewProofs!Server
          \/ \E v : NewProofs!Successor(v) /\ ecw2' = Append(ecw2, v)
      BY <1>i, NewProofs!VersionStep, NewAssumptions
    <2>1. CASE Len(ecw2') <= Len(ecw2) /\ NewProofs!Server' = NewProofs!Server
      <3>1. ecw' = ecw
        BY <2>l, <2>1 DEF OldLearns, Learn
      <3>2. fresh' = fresh
        BY <2>l, <2>1 DEF OldLearns
      <3>3. Server' = Server
        BY <3>1 DEF Server
      <3> QED BY <1>i, <2>1, <3>1, <3>2, <3>3 DEF Agree
    <2>2. ASSUME NEW v, NewProofs!Successor(v), ecw2' = Append(ecw2, v)
          PROVE  /\ fresh' = FALSE /\ Successor(v) /\ ecw' = Append(ecw, v)
                 /\ NewProofs!Server' = Server'
      <3>1. v \in Credentials
        BY <2>2, SameTypes DEF NewProofs!Successor
      <3>2. Len(ecw2') = Len(ecw2) + 1 /\ ecw2'[Len(ecw2')] = v
        BY <2>l, <2>2, <3>1
      <3>g. Len(ecw2') > Len(ecw2) /\ ~(Len(ecw2') <= Len(ecw2))
        BY <2>l, <3>2
      <3>f. fresh' = FALSE
        BY <3>g DEF OldLearns
      <3>3. ecw' = Append(ecw, v)
        BY <3>2, <3>g DEF OldLearns, Learn
      <3>4. ecw'[Len(ecw')] = v
        BY <2>l, <3>1, <3>3
      <3>5. Successor(v)
        BY <1>i, <2>2, SameTypes DEF Agree, Successor, NewProofs!Successor
      <3> QED BY <3>2, <3>f, <3>3, <3>4, <3>5 DEF Server, NewProofs!Server
    <2> QED BY <2>v, <2>1, <2>2
  <1>2. ASSUME NEW n \in Names
        PROVE  /\ \/ secw'[n] = secw[n]
                  \/ \E v \in Secrets :
                        Managed(v) /\ secw'[n] = Append(secw[n], v)
               /\ NewProofs!Secret(n)' = Secret(n)'
    <2>l. /\ secw2[n] \in Seq(Secrets) /\ Len(secw2[n]) >= 1
          /\ secw[n] \in Seq(Secrets) /\ Len(secw[n]) >= 1
          /\ Len(secw2'[n]) \in Nat
          /\ secw'[n] = Learn(secw[n], secw2[n], secw2'[n])
      BY <1>t, <1>p, SameTypes
      DEF TypeOK, NewProofs!TypeOK, OldLearns
    <2>v. \/ Len(secw2'[n]) <= Len(secw2[n]) /\ NewProofs!Secret(n)' = NewProofs!Secret(n)
          \/ \E v \in NewProofs!Secrets :
                NewProofs!Managed(v) /\ secw2'[n] = Append(secw2[n], v)
      BY <1>t, NewProofs!SecretVersionStep, NewAssumptions
    <2>1. CASE Len(secw2'[n]) <= Len(secw2[n]) /\ NewProofs!Secret(n)' = NewProofs!Secret(n)
      <3>1. secw'[n] = secw[n]
        BY <2>l, <2>1 DEF Learn
      <3>2. Secret(n)' = Secret(n)
        BY <3>1 DEF Secret
      <3> QED BY <1>i, <2>1, <3>1, <3>2 DEF Agree
    <2>2. ASSUME NEW v \in Secrets, Managed(v), secw2'[n] = Append(secw2[n], v)
          PROVE  secw'[n] = Append(secw[n], v) /\ NewProofs!Secret(n)' = Secret(n)'
      <3>1. Len(secw2'[n]) = Len(secw2[n]) + 1 /\ secw2'[n][Len(secw2'[n])] = v
        BY <2>l, <2>2
      <3>2. secw'[n] = Append(secw[n], v)
        BY <2>l, <3>1 DEF Learn
      <3>3. secw'[n][Len(secw'[n])] = v
        BY <2>l, <3>2
      <3> QED BY <3>1, <3>2, <3>3 DEF Secret, NewProofs!Secret
    <2> QED BY <2>v, <2>1, <2>2, SameTypes
  <1>3. secw' = [n \in Names |-> secw'[n]]
    BY DEF OldLearns
  <1>4. /\ Len(ledger) <= Len(ledger')
        /\ \A t \in 1..Len(ledger) : ledger'[t] = ledger[t]
        /\ revoked \subseteq revoked'
    BY <1>t, NewProofs!LedgerGrows, NewProofs!RevokedGrows, NewAssumptions
  <1>5. /\ now' \in Nat /\ used' \in Nat
        /\ ledger' \in Seq(Tokens) /\ revoked' \subseteq 1..Len(ledger')
    BY <1>p, SameTypes DEF NewProofs!TypeOK
  <1>6. UNCHANGED <<pc, ec, token, previous, started, fail, queue>>
    BY DEF OldLearns, rest, queue, timer
  <1>7. Learns
    BY <1>1, <1>2, <1>3, <1>4, <1>5, <1>6, SameTypes DEF Learns
  <1> QED BY <1>1, <1>2, <1>7 DEF Agree

LEMMA NewStep ==
    ASSUME RolloutInv, NewProofs!Next, OldLearns
    PROVE  RolloutInv'
  <1>i. /\ NewProofs!ReplicaInv /\ ReplicaInv /\ NewProofs!Unpublished /\ Unpublished
        /\ Agree /\ Apart /\ Undisclosed
    BY DEF RolloutInv
  <1>1. Learns /\ Agree'
    BY NewTeaches
  <1>2. NewProofs!ReplicaInv' /\ NewProofs!Unpublished'
    BY <1>i, NewProofs!ReplicaStep, NewProofs!UnpublishedStep, NewAssumptions
  <1>3. ReplicaInv'
    BY <1>i, <1>1, LearnsKeeps
  <1>u. UNCHANGED <<pc, ec, token, previous>>
    BY <1>1 DEF Learns
  <1>r. Retired' = Retired /\ InUse' = InUse
    BY <1>u DEF Retired, InUse
  <1>h. NewProofs!Server'.handle \in NewProofs!Handles' /\ Server' = NewProofs!Server'
    <2>1. Len(ecw2') \in 1..Len(ecw2')
      BY <1>2 DEF NewProofs!ReplicaInv, NewProofs!TypeOK
    <2>2. NewProofs!Server'.handle \in NewProofs!Handles'
      BY <2>1 DEF NewProofs!Server, NewProofs!Handles
    <2> QED BY <1>1, <2>2 DEF Agree
  <1>b. /\ Len(ledger) \in Nat /\ \A h \in Handles : h \in 0..Len(ledger)
        /\ \A h \in InUse \cup revoked : h \in 1..Len(ledger)
    BY <1>i, HandleBounds
  <1>4. ASSUME pc = "writeSecret"
        PROVE  token \notin NewProofs!Handles' \cup NewProofs!InUse' \cup revoked'
    <2>1. NewProofs!Unknown(token)
      BY <1>i, <1>4 DEF Apart
    <2>2. token \in 1..Len(ledger)
      BY <1>i, <1>4 DEF ReplicaInv, RunOK, Minted
    <2> QED BY <1>i, <2>1, <2>2, NewProofs!UnknownStep, NewAssumptions
  <1>5. Unpublished'
    <2> SUFFICES ASSUME pc = "writeSecret"
                 PROVE  token \notin Handles' \cup revoked'
      BY <1>u DEF Unpublished
    <2>1. token \notin Handles
      BY <1>i DEF Unpublished
    <2>2. token # Server'.handle /\ token \notin revoked'
      BY <1>4, <1>h
    <2>3. TypeOK
      BY <1>i DEF ReplicaInv
    <2>4. token \notin Handles'
      BY <1>1, <2>1, <2>2, <2>3, LearnsUnknown
    <2> QED BY <2>2, <2>4
  <1>6. ASSUME pc2' = "writeSecret"
        PROVE  token2' \notin Handles' \cup InUse' \cup revoked'
    <2>1. token2' \notin NewProofs!Handles' \cup revoked'
      BY <1>2, <1>6 DEF NewProofs!Unpublished
    <2>2. token2' = Len(ledger) + 1 \/ (pc2 = "writeSecret" /\ token2' = token2)
      BY <1>6, NewProofs!FirstInHand, NewAssumptions
    <2>3. token2' \notin Handles \cup InUse
      <3>1. CASE token2' = Len(ledger) + 1
        BY <1>b, <3>1
      <3>2. CASE pc2 = "writeSecret" /\ token2' = token2
        BY <1>i, <3>2 DEF Apart, Unknown
      <3> QED BY <2>2, <3>1, <3>2
    <2>4. TypeOK
      BY <1>i DEF ReplicaInv
    <2>5. token2' # Server'.handle
      BY <1>h, <2>1
    <2>6. token2' \notin Handles'
      BY <1>1, <2>3, <2>4, <2>5, LearnsUnknown
    <2> QED BY <1>r, <2>1, <2>3, <2>6
  <1>7. Apart'
    BY <1>u, <1>4, <1>6 DEF Apart, Unknown, NewProofs!Unknown
  <1>w. ASSUME pc2 = "writeSecret"
        PROVE  token2 \notin Retired /\ token2 # previous
    BY <1>i, <1>w DEF Apart, Unknown, Retired, Handles
  <1>8. ASSUME NewProofs!UpToDate', NEW n \in Names, n = NewProofs!Server'.spec.target,
               NEW t \in NewProofs!TokensIn(NewProofs!Secret(n))'
        PROVE  t \notin revoked' \cup NewProofs!Retired' \cup Retired
    <2>1. NewProofs!CurrentSafe(Retired) /\ NewProofs!CopySafe(Retired)
      BY <1>i DEF Undisclosed
    <2> QED BY <1>i, <1>w, <1>8, <2>1, NewProofs!CurrentSafeStep,
               NewAssumptions
  <1>9. ASSUME fresh2', pc2' \in {"persistHandle", "updateStatus"},
               NEW n \in Names, n = ec2'.spec.target,
               NEW t \in NewProofs!TokensIn(NewProofs!Secret(n))'
        PROVE  t \notin revoked' \cup NewProofs!Retired' \cup (Retired \cup {previous2'})
    <2>1. NewProofs!CopySafe(Retired)
      BY <1>i DEF Undisclosed
    <2> QED BY <1>i, <1>w, <1>9, <2>1, NewProofs!CopySafeStep, NewAssumptions
  <1>10. ASSUME fresh', pc \in {"persistHandle", "updateStatus"},
                NEW n \in Names, n = ec.spec.target,
                NEW t \in NewProofs!TokensIn(NewProofs!Secret(n))'
         PROVE  t \notin revoked' \cup NewProofs!Retired' \cup {previous}
    <2>l. Len(ecw2) \in Nat /\ Len(ecw2') \in Nat
      BY <1>i, <1>2 DEF NewProofs!ReplicaInv, NewProofs!TypeOK
    <2>f. fresh /\ Len(ecw2') <= Len(ecw2)
      BY <1>10 DEF OldLearns
    <2>1. fresh /\ ~(Len(ecw2') > Len(ecw2))
      BY <2>f, <2>l
    <2>d. ec = Server /\ ec = NewProofs!Server /\ ~NewProofs!Server.deleting
      BY <1>i, <1>10, <2>1 DEF ReplicaInv, FreshCopy, Wanted, Minted, Agree
    <2>2. NewProofs!Safe(n, {previous})
      <3>1. Safe(n, NewProofs!Retired \cup {previous})
        BY <1>i, <1>10, <2>1 DEF Undisclosed, CopySafe
      <3>2. NewProofs!TokensIn(NewProofs!Secret(n)) = TokensIn(Secret(n))
        BY <1>i DEF Agree, TokensIn, NewProofs!TokensIn, Empty,
           NewProofs!Empty, Foreign, NewProofs!Foreign
      <3> QED BY <3>1, <3>2 DEF Safe, NewProofs!Safe
    <2>3. CASE NewProofs!Retired' \subseteq NewProofs!Retired
      <3>1. pc2 = "writeSecret" => token2 \notin {previous}
        BY <1>w
      <3>2. NewProofs!Retired' \subseteq NewProofs!Retired \cup {previous}
        BY <2>3
      <3> QED BY <1>i, <1>10, <2>d, <2>2, <3>1, <3>2, NewProofs!SafeStep,
                 NewAssumptions
    <2>4. CASE NewProofs!UpdateStatus /\ NewProofs!Retired' = {previous2}
      <3>1. fresh2 /\ pc2 = "updateStatus"
        BY <2>4 DEF NewProofs!UpdateStatus, NewProofs!Put, NewProofs!Accepted
      <3>2. ec2 = NewProofs!Server
        BY <1>i, <3>1 DEF NewProofs!ReplicaInv, NewProofs!FreshCopy
      <3>3. NewProofs!Safe(n, Retired \cup {previous2})
        BY <1>i, <1>10, <2>d, <3>1, <3>2 DEF Undisclosed, NewProofs!CopySafe
      <3>4. NewProofs!Safe(n, {previous, previous2})
        BY <2>2, <3>3 DEF NewProofs!Safe
      <3>5. NewProofs!Retired' \subseteq NewProofs!Retired \cup {previous, previous2}
        BY <2>4
      <3>6. pc2 = "writeSecret" => token2 \notin {previous, previous2}
        BY <3>1
      <3>7. NewProofs!ReplicaInv /\ NewProofs!Unpublished /\ NewProofs!Next
        BY <1>i
      <3> QED BY <1>10, <2>d, <3>4, <3>5, <3>6, <3>7, NewProofs!SafeStep,
                 NewAssumptions, ZenonT(30)
    <2> QED BY <1>i, <2>3, <2>4, NewProofs!RetiredSteps, NewAssumptions
  <1>s. /\ NewProofs!UpToDate' <=> UpToDate'
        /\ \A n \in Names : NewProofs!TokensIn(NewProofs!Secret(n))' = TokensIn(Secret(n))'
    BY <1>1 DEF Agree, UpToDate, NewProofs!UpToDate, NoTime, NewProofs!NoTime,
       TokensIn, NewProofs!TokensIn, Empty, NewProofs!Empty, Foreign,
       NewProofs!Foreign
  <1>11. (NewProofs!CurrentSafe(Retired) /\ CurrentSafe(NewProofs!Retired))'
    BY <1>r, <1>h, <1>s, <1>8
    DEF CurrentSafe, NewProofs!CurrentSafe, Safe, NewProofs!Safe
  <1>12. NewProofs!CopySafe(Retired)'
    BY <1>r, <1>9 DEF NewProofs!CopySafe, NewProofs!Safe
  <1>13. CopySafe(NewProofs!Retired)'
    <2>1. pc \in {"persistHandle", "updateStatus"} => Retired' = {}
      BY <1>r DEF Retired
    <2> QED BY <1>u, <1>s, <1>10, <2>1 DEF CopySafe, Safe
  <1>14. Undisclosed'
    BY <1>11, <1>12, <1>13 DEF Undisclosed
  <1> QED BY <1>1, <1>2, <1>3, <1>5, <1>7, <1>14 DEF RolloutInv

LEMMA NewCleans ==
    ASSUME RevokeSucceeds, CleanInv, NewProofs!Next, OldLearns
    PROVE  CleanInv'
  <1>1. RolloutInv /\ NewProofs!ReplicaInv /\ ReplicaInv /\ Agree /\ NewProofs!Cleaned /\ Cleaned
    BY DEF CleanInv, RolloutInv
  <1>2. RolloutInv' /\ Agree'
    BY <1>1, NewStep DEF RolloutInv
  <1>3. Learns
    BY <1>1, NewTeaches
  <1>t. /\ NewProofs!TypeOK /\ NewProofs!HandlesMinted /\ TypeOK /\ HandlesMinted
    BY <1>1 DEF ReplicaInv, NewProofs!ReplicaInv
  <1>4. NewProofs!Cleaned'
    BY <1>1, <1>t, NewProofs!CleanedStep, NewAssumptions DEF RevokeSucceeds,
       NewProofs!RevokeSucceeds
  <1>5. Cleaned'
    BY <1>1, <1>3, <1>t, LearnsCleaned
  <1>6. NewProofs!RevokedWhenGone
    BY <1>1 DEF CleanInv, Agree, RevokedWhenGone, NewProofs!RevokedWhenGone,
       Revocable, NewProofs!Revocable
  <1>7. NewProofs!RevokedWhenGone'
    BY <1>1, <1>6, NewProofs!ReplicaGone, NewAssumptions
  <1>8. RevokedWhenGone'
    BY <1>2, <1>7 DEF Agree, RevokedWhenGone, NewProofs!RevokedWhenGone,
       Revocable, NewProofs!Revocable
  <1> QED BY <1>2, <1>4, <1>5, <1>8 DEF CleanInv

LEMMA NewTeachesOurs ==
    ASSUME NoEdits, RolloutInv, NewProofs!Next, OldLearns, NEW n \in Names
    PROVE  LearnsSecret(n) /\ (NewProofs!Written(n) => LearnsOwned(n))
  <1>t. NewProofs!TypeOK /\ TypeOK /\ NewProofs!NoEdits
    BY SameHypotheses DEF RolloutInv, ReplicaInv, NewProofs!ReplicaInv
  <1>l. /\ secw2[n] \in Seq(Secrets) /\ Len(secw2[n]) \in Nat
        /\ Len(secw2[n]) >= 1
        /\ secw'[n] = Learn(secw[n], secw2[n], secw2'[n])
    BY <1>t, SameTypes DEF NewProofs!TypeOK, OldLearns
  <1>1. ASSUME NEW v, secw2'[n] = Append(secw2[n], v)
        PROVE  secw'[n] = Append(secw[n], v)
    <2>1. Len(secw2'[n]) = Len(secw2[n]) + 1 /\ secw2'[n][Len(secw2[n]) + 1] = v
      BY <1>t, <1>1, NewProofs!Appended, NewAssumptions
    <2> QED BY <1>l, <2>1 DEF Learn
  <1>2. ASSUME NewProofs!Written(n)
        PROVE  LearnsSecret(n) /\ LearnsOwned(n)
    <2> DEFINE v == NewProofs!mutate(NewProofs!CachedSecret(n), ec2.spec.keys, token2)
    <2>1. v.exists /\ v.owner = "ec"
      BY DEF NewProofs!mutate
    <2>2. secw2'[n] = Append(secw2[n], v)
      BY <1>2 DEF NewProofs!Written
    <2> HIDE DEF v
    <2> QED BY <1>1, <2>1, <2>2 DEF LearnsSecret, LearnsOwned, Owned
  <1>3. CASE secw2'[n] = secw2[n]
    <2>1. secw'[n] = secw[n]
      BY <1>l, <1>3 DEF Learn
    <2> QED BY <1>2, <2>1 DEF LearnsSecret
  <1>4. CASE NewProofs!Forwarded(n)
    <2>1. Len(secw2'[n]) \in Nat /\ Len(secw2'[n]) <= Len(secw2[n])
      <3>1. CASE Len(secw2[n]) > 1 /\ secw2'[n] = Tail(secw2[n])
        BY <1>l, <3>1
      <3>2. CASE secw2'[n] = <<NewProofs!Secret(n)>>
        <4>1. Len(secw2'[n]) = 1
          BY <3>2
        <4> QED BY <1>l, <4>1
      <3> QED BY <1>4, <3>1, <3>2 DEF NewProofs!Forwarded
    <2>2. secw'[n] = secw[n]
      BY <1>l, <2>1 DEF Learn
    <2> QED BY <1>2, <2>2 DEF LearnsSecret
  <1>5. CASE secw2'[n] = Append(secw2[n], NewProofs!NoSecret)
    BY <1>1, <1>2, <1>5 DEF NewProofs!NoSecret, LearnsSecret
  <1> QED BY <1>t, <1>2, <1>3, <1>4, <1>5, NewProofs!SecretWindows,
             NewAssumptions

LEMMA NewTraces ==
    ASSUME NoEdits, RolloutInv, TracedInv, NewProofs!TendsOn, TendsOn, NewProofs!Next,
           OldLearns
    PROVE  TracedInv'
  <1>i. /\ NewProofs!ReplicaInv /\ ReplicaInv /\ Agree
        /\ NewProofs!OursOrNone /\ OursOrNone /\ NewProofs!NoEdits
    BY SameHypotheses DEF RolloutInv, TendsOn, NewProofs!TendsOn
  <1>t. /\ NewProofs!TypeOK /\ NewProofs!RunOK /\ NewProofs!FreshCopy
        /\ NewProofs!Observed /\ TypeOK
    BY <1>i DEF ReplicaInv, NewProofs!ReplicaInv
  <1>1. ASSUME NEW n \in Names, NewProofs!Written(n) \/ (NewProofs!Traced(n) /\ Traced(n))
        PROVE  NewProofs!Traced(n)' /\ Traced(n)'
    <2>1. LearnsSecret(n) /\ (NewProofs!Written(n) => LearnsOwned(n))
      BY NewTeachesOurs
    <2>2. NewProofs!Traced(n)'
      BY <1>i, <1>t, <1>1, NewProofs!TracedStep, NewAssumptions
    <2>3. Traced(n)'
      BY <1>i, <1>t, <1>1, <2>1, TracedLearned
    <2> QED BY <2>2, <2>3
  <1>2. ASSUME pc2' \in Published, NEW n \in Names, n = ec2'.spec.target
        PROVE  NewProofs!Traced(n)' /\ Traced(n)'
    <2>1. \/ /\ pc2 = "writeSecret" /\ UNCHANGED <<ec2, token2, ledger>>
             /\ \A m \in Names : m = ec2.spec.target => NewProofs!Written(m)
          \/ /\ pc2 \in Published /\ ec2'.spec = ec2.spec
             /\ UNCHANGED <<token2, ledger>>
      BY <1>t, <1>2, SameTypes, NewProofs!PublishedSteps, NewAssumptions
    <2> QED BY <1>1, <1>2, <2>1 DEF TracedInv
  <1>3. ASSUME pc' \in Published, NEW n \in Names, n = ec'.spec.target
        PROVE  NewProofs!Traced(n)' /\ Traced(n)'
    BY <1>1, <1>3 DEF TracedInv, OldLearns, rest
  <1>u. NewProofs!UpToDate <=> UpToDate
    BY <1>i DEF Agree, UpToDate, NewProofs!UpToDate, NoTime, NewProofs!NoTime
  <1>4. ASSUME NewProofs!UpToDate', NEW n \in Names, n = NewProofs!Server'.spec.target
        PROVE  NewProofs!Traced(n)' /\ Traced(n)'
    <2>1. \/ NewProofs!UpToDate /\ NewProofs!Server'.spec = NewProofs!Server.spec
          \/ pc2 = "updateStatus" /\ NewProofs!Server'.spec = ec2.spec
      BY <1>t, <1>4, NewProofs!CurrentSteps, NewAssumptions
    <2>2. CASE NewProofs!UpToDate /\ NewProofs!Server'.spec = NewProofs!Server.spec
      BY <1>i, <1>u, <1>1, <1>4, <2>2 DEF TracedInv, Agree
    <2>3. CASE pc2 = "updateStatus" /\ NewProofs!Server'.spec = ec2.spec
      BY <1>1, <1>4, <2>3 DEF TracedInv, Published
    <2> QED BY <2>1, <2>2, <2>3
  <1>5. Agree'
    BY NewTeaches
  <1>6. (NewProofs!UpToDate' <=> UpToDate') /\ NewProofs!Server' = Server'
    BY <1>5 DEF Agree, UpToDate, NewProofs!UpToDate, NoTime, NewProofs!NoTime
  <1> QED BY <1>2, <1>3, <1>4, <1>6 DEF TracedInv

LEMMA NewServes ==
    ASSUME NEW d \in Nat, NoEdits, FixedLifetime, AmpleFor(d), ServeInv(d),
           NewProofs!Brisk(d), NewProofs!Next, OldLearns
    PROVE  ServeInv(d)'
  <1>i. /\ RolloutInv /\ TracedInv /\ NewProofs!ReplicaInv /\ ReplicaInv /\ Agree
        /\ NewProofs!TendInv(d) /\ TendInv(d) /\ JointInv(d)
    BY DEF ServeInv, RolloutInv
  <1>t. /\ NewProofs!TypeOK /\ NewProofs!RunOK /\ NewProofs!TokensManaged /\ TypeOK /\ RunOK
        /\ NewProofs!TendsOn /\ TendsOn
    BY <1>i DEF ReplicaInv, NewProofs!ReplicaInv, TendInv, NewProofs!TendInv
  <1>h. NewProofs!NoEdits /\ NewProofs!FixedLifetime /\ NewProofs!AmpleFor(d)
    BY SameHypotheses
  <1>s. NewProofs!JointInv(d) /\ NewProofs!Granted
    BY <1>i, SharedSame DEF JointInv, NewProofs!JointInv
  <1>1. Learns /\ Agree' /\ RolloutInv'
    BY <1>i, NewTeaches, NewStep
  <1>2. \A n \in Names : LearnsSecret(n)
    BY <1>i, NewTeachesOurs
  <1>3. TracedInv'
    BY <1>i, <1>t, NewTraces
  <1>4. NewProofs!TendInv(d)'
    <2>1. NewProofs!UpToDate =>
            \A n \in Names :
              n = NewProofs!Server.spec.target => NewProofs!Traced(n)
      BY <1>i DEF TracedInv, Agree, UpToDate, NewProofs!UpToDate, NoTime,
         NewProofs!NoTime
    <2> QED BY <1>i, <1>h, <1>s, <2>1, NewProofs!TendStep, NewAssumptions
  <1>5. JointInv(d)'
    <2>1. NewProofs!JointInv(d)'
      BY <1>i, <1>h, <1>s, NewProofs!JointStep, NewAssumptions
    <2> QED BY <1>1, <2>1, SharedSameNext
  <1>6. TendsOn'
    <2>1. NewProofs!UpToDate' => NewProofs!Server'.spec.provider \in Registered
      BY <1>4 DEF NewProofs!TendInv, NewProofs!TendsOn, NewProofs!ProviderKnown
    <2>2. UpToDate' => Server'.spec.provider \in Registered
      BY <1>1, <2>1 DEF Agree, UpToDate, NewProofs!UpToDate, NoTime,
         NewProofs!NoTime
    <2>3. now' = now \/ now' = now + 1
      BY NewProofs!ClockSteps, NewAssumptions
    <2> QED BY <1>t, <1>1, <1>2, <2>2, <2>3, TendLearned
  <1>7. PublishedLate(d)'
    <2>u. UNCHANGED <<pc, ec, token>>
      BY <1>1 DEF Learns
    <2> SUFFICES ASSUME pc \in Published, NEW n \in Names, n = ec.spec.target,
                        NEW t \in TokensIn(Secret(n))'
                 PROVE  /\ t \in 1..Len(ledger')
                        /\ ledger'[t].expiry >= ledger'[token].expiry - d
      BY <2>u, SameTypes DEF PublishedLate, Late
    <2>1. token \in 1..Len(ledger)
      BY <1>t, SameTypes DEF RunOK, Minted, Published
    <2>x. ledger[token].expiry \in Nat
      BY <1>t, <2>1, Expiries
    <2>2. PICK e \in Int : e = ledger[token].expiry
      BY <2>x
    <2>3. \A l \in Lifetimes : e <= now + l
      BY <1>s, <2>1, <2>2 DEF NewProofs!Granted
    <2>4. NewProofs!TokensIn(NewProofs!Secret(n)) = TokensIn(Secret(n))
      BY <1>i DEF Agree, TokensIn, NewProofs!TokensIn, Empty, NewProofs!Empty,
         Foreign, NewProofs!Foreign
    <2>5. NewProofs!Late(n, e - d)
      <3>1. Late(n, e - d)
        BY <1>i, <2>2, SameTypes DEF TendInv, PublishedLate
      <3> QED BY <2>4, <3>1 DEF Late, NewProofs!Late
    <2>6. t \in NewProofs!TokensIn(NewProofs!Secret(n))'
      BY <1>1 DEF Agree, TokensIn, NewProofs!TokensIn, Empty, NewProofs!Empty,
         Foreign, NewProofs!Foreign
    <2>7. t \in 1..Len(ledger') /\ ledger'[t].expiry >= e - d
      BY <1>t, <1>s, <2>3, <2>5, <2>6, NewProofs!LateKept, NewAssumptions
    <2>8. ledger'[token] = ledger[token]
      BY <1>1, <2>1 DEF Learns
    <2> QED BY <2>2, <2>7, <2>8
  <1> QED BY <1>1, <1>3, <1>4, <1>5, <1>6, <1>7
          DEF ServeInv, TendInv, NewProofs!TendInv


----------------------------------------------------------------------------
(* The two together. *)

\* Both replicas begin with the resource that the old one has accepted.
LEMMA RolloutStarts ==
    ASSUME RolloutInit
    PROVE  \E c : /\ Starts(c) /\ NewProofs!Starts(c) /\ c.finalizer
                  /\ c.exists /\ ecw = <<c>> /\ c.status.expiresAt = NoTime
  <1>1. PICK s \in Specs : ecw = <<AcceptedEC(s)>>
    BY DEF RolloutInit
  <1> DEFINE c == AcceptedEC(s)
  <1>2. /\ c \in Credentials /\ ~c.deleting /\ c.handle = 0 /\ c.finalizer
        /\ c.status.expiresAt = NoTime /\ c.status.observedGeneration = 0
        /\ c.exists
    <2>1. c.status = [state |-> "Pending", ready |-> "False",
                      expiresAt |-> NoTime, lastRotatedAt |-> NoTime,
                      observedGeneration |-> 0]
      BY DEF AcceptedEC, NewEC, NoStatus
    <2>2. c.status \in Statuses /\ c.status.expiresAt = NoTime
          /\ c.status.observedGeneration = 0
      BY <2>1 DEF Statuses, States, Times, NoTime
    <2>3. c \in Credentials /\ ~c.deleting /\ c.handle = 0 /\ c.finalizer /\ c.exists
      BY NewECType, <2>2 DEF AcceptedEC, NewEC, Credentials, NoStatus,
         Statuses,
         States, Times, NoTime
    <2> QED BY <2>2, <2>3
  <1>e. ecw = <<c>>
    BY <1>1
  <1> HIDE DEF c
  <1>3. Starts(c)
    BY <1>2, <1>e DEF RolloutInit, Starts, Unused
  <1>4. NewProofs!Starts(c)
    BY <1>3, SameTypes DEF RolloutInit, Starts, Unused, NewProofs!Starts,
       NewProofs!Unused, NewProofs!NoTime, NoTime, NewProofs!NilEC, NilEC,
       NewProofs!NewEC, NewEC, NewProofs!NoStatus, NoStatus,
       NewProofs!NoFail, NoFail
  <1> QED BY <1>2, <1>3, <1>4, <1>e

LEMMA RolloutStart == RolloutInit => CleanInv
  <1> SUFFICES ASSUME RolloutInit PROVE CleanInv
    OBVIOUS
  <1>1. PICK c : /\ Starts(c) /\ NewProofs!Starts(c) /\ c.finalizer
                 /\ c.exists /\ ecw = <<c>> /\ c.status.expiresAt = NoTime
    BY RolloutStarts
  <1>2. ReplicaInv /\ Unpublished /\ Cleaned
    BY <1>1, StartReplica
  <1>3. NewProofs!ReplicaInv /\ NewProofs!Unpublished /\ NewProofs!Cleaned
    BY <1>1, NewProofs!StartReplica, NewAssumptions
  <1>4. Agree
    BY DEF RolloutInit, Agree, Server, NewProofs!Server, Secret,
       NewProofs!Secret
  <1>5. Apart
    BY DEF RolloutInit, Apart
  <1>6. Server = c
    BY <1>1 DEF Server
  <1>7. ~UpToDate /\ ~NewProofs!UpToDate /\ RevokedWhenGone
    BY <1>1, <1>4, <1>6 DEF UpToDate, NewProofs!UpToDate, NewProofs!NoTime,
       NoTime, Agree, RevokedWhenGone
  <1>8. Undisclosed
    BY <1>7 DEF RolloutInit, Undisclosed, CurrentSafe, NewProofs!CurrentSafe,
       CopySafe, NewProofs!CopySafe
  <1> QED BY <1>2, <1>3, <1>4, <1>5, <1>7, <1>8 DEF RolloutInv, CleanInv

LEMMA ServeStart ==
    ASSUME NEW d \in Nat, RolloutInit
    PROVE  ServeInv(d) /\ Brisk(d) /\ NewProofs!Brisk(d)
  <1>1. PICK c : /\ Starts(c) /\ NewProofs!Starts(c) /\ ecw = <<c>>
                 /\ c.status.expiresAt = NoTime
    BY RolloutStarts
  <1>2. JointInv(d) /\ TendInv(d)
    BY <1>1, StartTend
  <1>3. NewProofs!TendInv(d)
    BY <1>1, NewProofs!StartTend, NewAssumptions
  <1>4. ~UpToDate
    BY <1>1 DEF UpToDate, Server
  <1>5. TracedInv /\ Brisk(d) /\ NewProofs!Brisk(d)
    BY <1>4 DEF RolloutInit, TracedInv, Published, Brisk, NewProofs!Brisk
  <1>6. RolloutInv
    BY RolloutStart DEF CleanInv
  <1> QED BY <1>2, <1>3, <1>5, <1>6 DEF ServeInv

\* Whoever takes the step, the other learns of it.
LEMMA RolloutSteps ==
    ASSUME RolloutInv, RolloutNext
    PROVE  /\ (Next /\ NewLearns) \/ (NewProofs!Next /\ OldLearns)
           /\ now' = now \/ (Prompt => pc = "idle" /\ pc2 = "idle")
  <1>1. CASE OldReplica \/ Surroundings
    <2>1. Next /\ NewLearns
      BY <1>1 DEF OldReplica, Surroundings, Next
    <2>2. now' = now
      BY <1>1, WorkClock, OwnClock DEF OldReplica, Surroundings, OwnStep
    <2> QED BY <2>1, <2>2
  <1>2. CASE NewReplica
    BY <1>2, NewIsBroker DEF NewReplica
  <1>3. CASE SharedTick
    <2>1. /\ secw2 \in [Names -> Seq(Secrets)] /\ fresh2 \in BOOLEAN
          /\ Len(ecw) \in Nat /\ \A n \in Names : Len(secw[n]) \in Nat
      BY SameTypes DEF RolloutInv, ReplicaInv, NewProofs!ReplicaInv, TypeOK,
         NewProofs!TypeOK, NewProofs!LocalsOK
    <2>2. UNCHANGED <<ecw, secw, ecw2, secw2, fresh2, rest2>> /\ Tick
      BY <1>3 DEF SharedTick, Tick, cluster
    <2>3. ~(Len(ecw) > Len(ecw)) /\ Len(ecw) <= Len(ecw)
          /\ \A n \in Names : ~(Len(secw[n]) > Len(secw[n]))
      BY <2>1
    <2>4. ecw2' = Learn(ecw2, ecw, ecw')
      BY <2>2, <2>3 DEF Learn
    <2>5. secw2' = [n \in Names |-> Learn(secw2[n], secw[n], secw'[n])]
      BY <2>1, <2>2, <2>3 DEF Learn
    <2>6. fresh2' = (fresh2 /\ Len(ecw') <= Len(ecw))
      BY <2>1, <2>2, <2>3
    <2>7. Prompt => pc = "idle" /\ pc2 = "idle"
      BY <1>3 DEF SharedTick, Tick, Settled, New!Settled
    <2> QED BY <2>2, <2>4, <2>5, <2>6, <2>7 DEF NewLearns, Next
  <1> QED BY <1>1, <1>2, <1>3 DEF RolloutNext

LEMMA RolloutStutter ==
    ASSUME UNCHANGED vars2
    PROVE  /\ RolloutInv => RolloutInv'
           /\ CleanInv => CleanInv'
  <1> USE DEF vars2, vars, cluster, locals, queue, timer, provider, rest2
  <1>1. ReplicaInv => ReplicaInv'
    BY DEF ReplicaInv, TypeOK, LocalsOK, RunOK, FreshCopy, Observed,
       DeletionFinal,
       HandlesMinted, TokensManaged, Wanted, Held, Server
  <1>2. NewProofs!ReplicaInv => NewProofs!ReplicaInv'
    BY DEF NewProofs!ReplicaInv, NewProofs!TypeOK, NewProofs!LocalsOK,
       NewProofs!RunOK,
       NewProofs!FreshCopy, NewProofs!Observed, NewProofs!DeletionFinal,
       NewProofs!HandlesMinted, NewProofs!TokensManaged, NewProofs!Wanted,
       NewProofs!Held, NewProofs!Server
  <1>3. /\ Unpublished => Unpublished'
        /\ NewProofs!Unpublished => NewProofs!Unpublished'
        /\ Apart => Apart'
    BY DEF Apart, Unpublished, Unknown, Handles, InUse, Retired,
       NewProofs!Unpublished,
       NewProofs!Unknown, NewProofs!Handles, NewProofs!InUse,
       NewProofs!Retired
  <1>4. Agree => Agree'
    BY DEF Agree, Server, NewProofs!Server, Secret, NewProofs!Secret
  <1>5. Undisclosed => Undisclosed'
    BY DEF Undisclosed, CurrentSafe, CopySafe, Safe, Retired, UpToDate, Server,
       Secret, TokensIn,
       NewProofs!CurrentSafe, NewProofs!CopySafe, NewProofs!Safe,
       NewProofs!Retired, NewProofs!UpToDate, NewProofs!Server,
       NewProofs!Secret, NewProofs!TokensIn
  <1>6. /\ Cleaned => Cleaned'
        /\ NewProofs!Cleaned => NewProofs!Cleaned'
        /\ RevokedWhenGone => RevokedWhenGone'
    BY DEF RevokedWhenGone, Server, Cleaned, Revocable, NewProofs!Cleaned,
       NewProofs!Revocable
  <1> QED BY <1>1, <1>2, <1>3, <1>4, <1>5, <1>6 DEF RolloutInv, CleanInv

LEMMA RolloutStep == RolloutInv /\ [RolloutNext]_vars2 => RolloutInv'
  BY RolloutSteps, RolloutStutter, OldStep, NewStep

LEMMA CleanStep ==
    ASSUME RevokeSucceeds
    PROVE  CleanInv /\ [RolloutNext]_vars2 => CleanInv'
  BY RolloutSteps, RolloutStutter, OldCleans, NewCleans DEF CleanInv

\* Neither replica revokes what the other has published: whatever order two
\* replicas mint, write the Secret, record their credential and revoke the
\* previous one in, with failures, crashes and edits in between, the Secret
\* of a resource whose spec has been handled holds no revoked token.
THEOREM ReplicasNeverRevokePublished == RolloutSpec => []PublishedNotRevoked
  <1>1. RolloutInit => RolloutInv
    BY RolloutStart DEF CleanInv
  <1>2. RolloutInv => PublishedNotRevoked
    <2> SUFFICES ASSUME RolloutInv, UpToDate
                 PROVE  TokensIn(Target) \cap revoked = {}
      BY DEF PublishedNotRevoked
    <2>1. Server.spec.target \in Names
      BY DEF UpToDate
    <2> QED BY <2>1 DEF RolloutInv, Undisclosed, CurrentSafe, Safe, Target
  <1> QED BY <1>1, <1>2, RolloutStep, PTL DEF RolloutSpec

\* The credential that a deleted resource recorded last is revoked, even if
\* one replica recorded it while the other was cleaning up: the finalizer
\* goes only with the version whose handle was revoked.  Revoke is best
\* effort, so this is for a provider that does answer.
THEOREM ReplicasCleanUp ==
    ASSUME RevokeSucceeds
    PROVE  RolloutSpec => []RevokedWhenGone
  <1>1. CleanInv => RevokedWhenGone
    BY DEF CleanInv
  <1> QED BY <1>1, RolloutStart, CleanStep, PTL DEF RolloutSpec

----------------------------------------------------------------------------
(* Consumers are served, whichever replica wrote the Secret. *)

LEMMA ServeStutter ==
    ASSUME NEW d, ServeInv(d), UNCHANGED vars2
    PROVE  ServeInv(d)'
  <1> USE DEF vars2, vars, cluster, locals, queue, timer, provider, rest2
  <1>1. RolloutInv'
    BY RolloutStutter DEF ServeInv
  <1>2. TracedInv'
    BY DEF ServeInv, TracedInv, UpToDate, Server, Traced, Reported,
       NewProofs!Traced, NewProofs!Reported
  <1>3. TendInv(d)'
    BY SMTT(30)
    DEF ServeInv, TendInv, TendsOn, UnknownFails, StatusNotified, Woken,
       Asleep, Rested,
       Rests, RetrySoon, RotationBound, Attended, Reported, OursOrNone,
       ProviderKnown, StartedBefore, PublishedLate, Late, UpToDate, Server,
       Secret, TokensIn
  <1>4. NewProofs!TendInv(d)'
    BY SMTT(30)
    DEF ServeInv, NewProofs!TendInv, NewProofs!TendsOn,
       NewProofs!UnknownFails, NewProofs!StatusNotified, NewProofs!Woken,
       NewProofs!Asleep, NewProofs!Rested, NewProofs!Rests,
       NewProofs!RetrySoon, NewProofs!RotationBound, NewProofs!Attended,
       NewProofs!Reported, NewProofs!OursOrNone, NewProofs!ProviderKnown,
       NewProofs!StartedBefore, NewProofs!PublishedLate, NewProofs!Late,
       NewProofs!UpToDate, NewProofs!Server, NewProofs!Secret,
       NewProofs!TokensIn
  <1>5. JointInv(d)'
    <2>1. GrantCovers(d)' /\ Granted' /\ StatusPast'
      BY DEF ServeInv, JointInv, GrantCovers, Granted, StatusPast, Server
    <2>2. TokensHeld'
      BY DEF ServeInv, JointInv, TokensHeld, Secret, TokensIn
    <2>3. CurrentLate(d)'
      BY DEF ServeInv, JointInv, CurrentLate, Late, UpToDate, Server, Secret,
         TokensIn
    <2> QED BY <2>1, <2>2, <2>3 DEF JointInv
  <1> QED BY <1>1, <1>2, <1>3, <1>4, <1>5 DEF ServeInv

LEMMA ServeStep ==
    ASSUME NEW d \in Nat, NoEdits, FixedLifetime, AmpleFor(d), ServeInv(d),
           Brisk(d), NewProofs!Brisk(d), [RolloutNext]_vars2
    PROVE  ServeInv(d)'
  <1>1. CASE UNCHANGED vars2
    BY <1>1, ServeStutter
  <1>2. CASE RolloutNext
    <2>1. (Next /\ NewLearns) \/ (NewProofs!Next /\ OldLearns)
      BY <1>2, RolloutSteps DEF ServeInv
    <2> QED BY <2>1, OldServes, NewServes
  <1> QED BY <1>1, <1>2

LEMMA ServeState ==
    ASSUME NEW d \in Nat, AmpleFor(d), ServeInv(d)
    PROVE  ServedByEither
  <1> SUFFICES ASSUME (Settled /\ ~retrying) \/ (New!Settled /\ ~retrying2), UpToDate
               PROVE  Serves
    BY DEF ServedByEither, Serves
  <1>i. /\ TypeOK /\ NewProofs!TypeOK /\ Agree /\ Undisclosed
        /\ TendInv(d) /\ NewProofs!TendInv(d) /\ JointInv(d)
    BY DEF ServeInv, RolloutInv, ReplicaInv, NewProofs!ReplicaInv
  <1>p. PublishedNotRevoked
    <2>1. Server.spec.target \in Names
      BY DEF UpToDate
    <2> QED BY <1>i, <2>1 DEF PublishedNotRevoked, Undisclosed, CurrentSafe,
               Safe, Target
  <1>1. CASE Settled /\ ~retrying
    BY <1>i, <1>p, <1>1, RestServes
  <1>2. CASE New!Settled /\ ~retrying2
    <2>0. NewProofs!Settled
      BY <1>2 DEF New!Settled, NewProofs!Settled, New!NoTime, NewProofs!NoTime
    <2>1. NewProofs!JointInv(d) /\ NewProofs!AmpleFor(d)
      BY <1>i, SharedSame, SameHypotheses
    <2>u. NewProofs!UpToDate /\ NewProofs!Server.spec.target \in Names
      BY <1>i DEF Agree, UpToDate, NewProofs!UpToDate, NoTime, NewProofs!NoTime
    <2>t. NewProofs!TokensIn(NewProofs!Target) = TokensIn(Target)
      <3>1. NewProofs!Target = Target
        BY <1>i, <2>u DEF Agree, Target, NewProofs!Target
      <3> QED BY <3>1 DEF TokensIn, NewProofs!TokensIn, Empty, NewProofs!Empty,
                 Foreign,
                 NewProofs!Foreign
    <2>2. NewProofs!PublishedNotRevoked
      BY <1>p, <2>u, <2>t DEF PublishedNotRevoked,
         NewProofs!PublishedNotRevoked
    <2>3. NewProofs!Serves
      BY <1>i, <1>2, <2>0, <2>1, <2>2, <2>u, NewProofs!RestServes, NewAssumptions
    <2> QED BY <2>t, <2>3 DEF Serves, NewProofs!Serves
  <1> QED BY <1>1, <1>2

\* While a Deployment replaces one replica by another both may mint, and the
\* one that records its credential need not be the one that wrote the Secret
\* last.  As soon as either has come to rest over a resource that status
\* describes, and is not waiting to retry, the Secret nevertheless holds a
\* token that is neither revoked nor expired.  No replica may hold on to a
\* credential for more than d before it writes it, and the windows cover that
\* delay: Reconcile compares the expiry that status records, which may be
\* that of the other credential.
THEOREM ReplicaAtRestServes ==
    ASSUME NEW d \in Nat, NoEdits, FixedLifetime, AmpleFor(d)
    PROVE  RolloutSpec /\ [](Brisk(d) /\ NewProofs!Brisk(d)) => []ServedByEither
  <1>1. RolloutInit => ServeInv(d)
    BY ServeStart
  <1>2. ServeInv(d) /\ Brisk(d) /\ NewProofs!Brisk(d) /\ [RolloutNext]_vars2
            => ServeInv(d)'
    BY ServeStep
  <1>3. ServeInv(d) => ServedByEither
    BY ServeState
  <1> QED BY <1>1, <1>2, <1>3, PTL DEF RolloutSpec

\* Where time stands still while there is work to do, as in the run of
\* ServedByEither, both write at once.
LEMMA PromptIsBrisk ==
    ASSUME Prompt
    PROVE  RolloutSpec => [](Brisk(0) /\ NewProofs!Brisk(0))
  <1> DEFINE Inv == RolloutInv /\ Brisk(0) /\ NewProofs!Brisk(0)
  <1>1. RolloutInit => Inv
    BY ServeStart DEF ServeInv
  <1>2. Inv /\ [RolloutNext]_vars2 => Inv'
    <2> SUFFICES ASSUME Inv, [RolloutNext]_vars2 PROVE Inv'
      OBVIOUS
    <2>1. RolloutInv'
      BY RolloutStep
    <2>i. /\ RolloutInv /\ TypeOK /\ RunOK /\ NewProofs!TypeOK /\ NewProofs!RunOK
      BY DEF RolloutInv, ReplicaInv, NewProofs!ReplicaInv
    <2>2. CASE UNCHANGED vars2
      BY <2>1, <2>2 DEF vars2, vars, locals, provider, rest2, Brisk,
         NewProofs!Brisk
    <2>3. CASE RolloutNext
      <3>1. /\ (Next /\ NewLearns) \/ (NewProofs!Next /\ OldLearns)
            /\ now' = now \/ (pc = "idle" /\ pc2 = "idle")
        BY <2>i, <2>3, RolloutSteps
      <3>2. CASE Next /\ NewLearns
        <4>1. NewProofs!Learns
          BY <2>i, <3>2, OldTeaches
        <4>2. Brisk(0)'
          BY <2>i, <3>1, <3>2, BriskStep
        <4>3. NewProofs!Brisk(0)'
          BY <2>i, <3>1, <4>1, NewProofs!BriskLearned, NewAssumptions
        <4> QED BY <2>1, <4>2, <4>3
      <3>3. CASE NewProofs!Next /\ OldLearns
        <4>1. Learns
          BY <2>i, <3>3, NewTeaches
        <4>2. NewProofs!Brisk(0)'
          BY <2>i, <3>1, <3>3, NewProofs!BriskStep, NewAssumptions
        <4>3. Brisk(0)'
          BY <2>i, <3>1, <4>1, BriskLearned
        <4> QED BY <2>1, <4>2, <4>3
      <3> QED BY <3>1, <3>2, <3>3
    <2> QED BY <2>2, <2>3
  <1> HIDE DEF Inv
  <1>3. Inv => Brisk(0) /\ NewProofs!Brisk(0)
    BY DEF Inv
  <1> QED BY <1>1, <1>2, <1>3, PTL DEF RolloutSpec
=============================================================================
