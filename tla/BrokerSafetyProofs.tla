------------------------- MODULE BrokerSafetyProofs -------------------------
(***************************************************************************)
(* What else Broker guarantees for every choice of its constants: a        *)
(* finalizer before every credential, no credential for a resource that is *)
(* gone, no token under a key nobody asked for, none left behind by a      *)
(* deletion, and none in the Secret that expires before status says so.    *)
(***************************************************************************)
EXTENDS BrokerProofs

----------------------------------------------------------------------------
(* The versions of the resource, from the cached one to the current one. *)

\* A later version is not of an earlier generation, nor is a deletion undone.
Ordered ==
    \A i, j \in 1..Len(ecw) : i <= j =>
        /\ ecw[i].generation <= ecw[j].generation
        /\ ecw[i].deleting => ecw[j].deleting

\* A version of the current generation has the current spec, and status
\* observes no generation that the cache has not shown yet.
Generations ==
    \A i \in 1..Len(ecw) :
        /\ ecw[i].generation = Server.generation => ecw[i].spec = Server.spec
        /\ Server.status.observedGeneration <= ecw[i].generation

\* A running reconcile works on a resource that existed, of a generation that
\* the cache has shown and status has not gone beyond.
CopyOK ==
    pc # "idle" =>
        /\ ec.exists
        /\ \A i \in 1..Len(ecw) : ec.generation <= ecw[i].generation
        /\ ec.generation = Server.generation => ec.spec = Server.spec
        /\ Server.status.observedGeneration <= ec.generation

\* The finalizer stays on as long as the resource exists.
FinalizerKept ==
    /\ \A i \in 1..Len(ecw) : ecw[i].finalizer /\ Server.exists => Server.finalizer
    /\ ec.finalizer /\ Server.exists => Server.finalizer
    /\ pc = "mint" => ec.finalizer

\* Cleanup runs on a deletion that the cache has shown, so that no later
\* reconcile takes the resource for one that is wanted.
GoneSeen ==
    /\ pc \in Deleting => \A i \in 1..Len(ecw) : ecw[i].deleting
    /\ ~Server.exists => \A i \in 1..Len(ecw) :
          ecw[i].exists /\ ecw[i].finalizer => ecw[i].deleting
    /\ pc = "mint" => Server.exists

LifeInv ==
    /\ IInv /\ Ordered /\ Generations /\ CopyOK /\ FinalizerKept /\ GoneSeen
    /\ FinalizerBeforeMint

----------------------------------------------------------------------------
(* The keys of the Secret. *)

\* The Secret discloses one token at most, under keys of this mapping.
OneToken(s, keys, t) ==
    \A k \in DataKeys : \/ s.data[k] \in {Empty, Foreign}
                        \/ k \in written(keys) /\ s.data[k] = t

\* Once published, the credential in hand is all that its Secret discloses.
PublishedKeys ==
    pc \in Published =>
        \A n \in Names : n = ec.spec.target
                            => OneToken(Secret(n), ec.spec.keys, token)

KeysInv == LifeInv /\ PublishedKeys /\ NoStrandedKeys

----------------------------------------------------------------------------
(* What a deletion revokes. *)

\* Once cleanup has got past Revoke, the recorded credential is revoked.
Cleaned ==
    pc \in {"deleteSecret", "removeFinalizer"} /\ Revocable(ec.handle, ec)
        => ec.handle \in revoked

\* The provider can be reached.
RevokeSucceeds == "revokeFail" \notin Disturbances

GoneInv == LifeInv /\ Cleaned /\ RevokedWhenGone

----------------------------------------------------------------------------
(* What status says of the expiry. *)

\* All credentials live equally long.
FixedLifetime == \A k, l \in Lifetimes : k = l

\* Later credentials expire later, and the one in hand is the last.
ExpiryOrder ==
    /\ \A t \in 1..Len(ledger) :
          /\ ledger[t].expiry <= ledger[Len(ledger)].expiry
          /\ \A l \in Lifetimes : ledger[t].expiry <= now + l
    /\ pc \in Minted => token = Len(ledger)

\* Status describes some credential of the ledger, and Secrets hold no other.
StatusMinted ==
    /\ Server.status.expiresAt # NoTime =>
          /\ ledger # <<>>
          /\ Server.status.expiresAt <= ledger[Len(ledger)].expiry
    /\ \A n \in Names : TokensIn(Secret(n)) \subseteq 1..Len(ledger)

ExpiryInv == IInv /\ ExpiryOrder /\ StatusMinted /\ StatusNotAheadOfSecret

----------------------------------------------------------------------------
(* What a step does to the resource. *)

\* The cache moves on, by no version or by some.
Advanced ==
    /\ Server' = Server
    /\ \E d \in 0..(Len(ecw) - 1) :
          /\ Len(ecw') = Len(ecw) - d
          /\ \A i \in 1..Len(ecw') : ecw'[i] = ecw[i + d]

\* The API server stores another version, which only Reconcile takes the
\* finalizer off or marks as observed.
Extended(v) ==
    /\ Len(ecw') = Len(ecw) + 1
    /\ \A i \in 1..Len(ecw) : ecw'[i] = ecw[i]
    /\ ecw'[Len(ecw) + 1] = v
    /\ ecw' = Append(ecw, v)
    /\ Server' = v

Follows(v) ==
    /\ Server.exists
    /\ v.exists /\ Server.finalizer => v.finalizer
    /\ ~v.exists => ~Server.finalizer \/ (pc = "removeFinalizer" /\ Server = ec)
    /\ Server.deleting => v.deleting
    /\ Server.generation <= v.generation
    /\ v.generation = Server.generation => v.spec = Server.spec
    /\ \/ v.status.observedGeneration = Server.status.observedGeneration
       \/ /\ v.status.observedGeneration = ec.generation
          /\ pc = "updateStatus" /\ Server = ec

LEMMA DesiredLife ==
    ASSUME TypeOK, pc \in ECWrites
    PROVE  /\ desired.exists /\ ec.finalizer => desired.finalizer
           /\ ec.exists /\ ~desired.exists => pc = "removeFinalizer"
  <1>0. ec \in Credentials
    BY DEF TypeOK, LocalsOK
  <1> USE <1>0 DEF Credentials, Statuses
  <1>1. CASE pc = "addFinalizer"
    BY <1>1 DEF desired, withFinalizer
  <1>2. CASE pc = "setPending"
    BY <1>2 DEF desired, pendingStatus
  <1>3. CASE pc = "persistHandle"
    BY <1>3 DEF desired, withHandle
  <1>4. CASE pc = "updateStatus"
    BY <1>4 DEF desired, activeStatus
  <1>5. CASE pc = "failStatus"
    BY <1>5 DEF desired, failedStatus
  <1>6. CASE pc = "removeFinalizer"
    BY <1>6 DEF desired, withoutFinalizer
  <1> QED BY <1>1, <1>2, <1>3, <1>4, <1>5, <1>6 DEF ECWrites

LEMMA WindowSteps ==
    ASSUME TypeOK, RunOK, FreshCopy, pc # "idle" => ec.exists, Next
    PROVE  Advanced \/ \E v \in Credentials : Extended(v) /\ Follows(v)
  <1>t. ecw \in Seq(Credentials) /\ Len(ecw) \in Nat /\ Len(ecw) >= 1
    BY DEF TypeOK
  <1>s. Server \in Credentials /\ Server.generation \in Nat
    BY WindowTypes DEF Credentials
  <1>1. CASE ecw' = ecw
    BY <1>t, <1>1 DEF Advanced, Server
  <1>2. CASE DeliverEC
    <2>1. Len(ecw) > 1 /\ ecw' = Tail(ecw)
      BY <1>2 DEF DeliverEC
    <2>2. /\ Len(ecw') = Len(ecw) - 1
          /\ \A i \in 1..Len(ecw') : ecw'[i] = ecw[i + 1]
      BY <1>t, <2>1
    <2>3. Server' = Server
      BY <1>2, ServerKept
    <2>4. 1 \in 0..(Len(ecw) - 1)
      BY <1>t, <2>1
    <2> QED BY <2>2, <2>3, <2>4 DEF Advanced
  <1>3. CASE Crash
    <2>1. Len(ecw') = 1 /\ ecw'[1] = ecw[Len(ecw)]
      BY <1>3 DEF Crash, Server
    <2> DEFINE d == Len(ecw) - 1
    <2>2. d \in 0..(Len(ecw) - 1) /\ Len(ecw') = Len(ecw) - d
          /\ \A i \in 1..Len(ecw') : ecw'[i] = ecw[i + d]
      BY <1>t, <2>1
    <2> HIDE DEF d
    <2>3. Server' = Server
      BY <1>3, ServerKept
    <2> QED BY <2>2, <2>3 DEF Advanced
  <1>4. ASSUME NEW v \in Credentials, PutEC(v)
        PROVE  Extended(v)
    BY <1>t, <1>4, PutECType DEF PutEC, Extended
  <1>5. CASE ECWrite
    <2>1. /\ pc \in ECWrites /\ desired \in Credentials /\ Server = ec
          /\ PutEC(desired) \/ ecw' = ecw
      BY <1>5, DesiredType, ECWriteServer DEF ECWrite
    <2>2. pc # "idle" /\ ec.exists
      BY <2>1 DEF ECWrites
    <2>3. Follows(desired)
      BY <1>s, <2>1, <2>2, DesiredFields, DesiredLife DEF Follows
    <2> QED BY <1>1, <1>4, <2>1, <2>3
  <1>6. CASE EditSpec
    <2>1. PICK s \in Specs :
            PutEC([Server EXCEPT !.spec = s, !.generation = @ + 1])
      BY <1>6 DEF EditSpec
    <2> DEFINE v == [Server EXCEPT !.spec = s, !.generation = @ + 1]
    <2>2. v \in Credentials
      BY <1>s, EditedTypes
    <2>3. /\ v.generation = Server.generation + 1 /\ v.exists = Server.exists
          /\ v.finalizer = Server.finalizer /\ v.deleting = Server.deleting
          /\ v.status = Server.status
      BY <1>s DEF Credentials
    <2>4. Server.exists
      BY <1>6 DEF EditSpec
    <2>5. PutEC(v)
      BY <2>1
    <2> HIDE DEF v
    <2>6. Server.generation <= v.generation /\ v.generation # Server.generation
      BY <1>s, <2>3
    <2>7. Follows(v)
      BY <2>3, <2>4, <2>6 DEF Follows
    <2> QED BY <1>4, <2>2, <2>5, <2>7
  <1>7. CASE DeleteEC
    <2> DEFINE d == [Server EXCEPT !.deleting = TRUE, !.generation = @ + 1]
               g == [Server EXCEPT !.exists = FALSE]
    <2>1. d \in Credentials /\ g \in Credentials
      BY <1>s, EditedTypes
    <2>2. /\ d.generation = Server.generation + 1 /\ d.exists = Server.exists
          /\ d.finalizer = Server.finalizer /\ d.deleting
          /\ d.status = Server.status
      BY <1>s DEF Credentials
    <2>3. /\ g.generation = Server.generation /\ ~g.exists
          /\ g.spec = Server.spec /\ g.deleting = Server.deleting
          /\ g.status = Server.status
      BY <1>s DEF Credentials
    <2>4. Server.exists /\ PutEC(IF Server.finalizer THEN d ELSE g)
      BY <1>7 DEF DeleteEC
    <2> HIDE DEF d, g
    <2>5. CASE Server.finalizer
      <3>1. Server.generation <= d.generation /\ d.generation # Server.generation
        BY <1>s, <2>2
      <3>2. Follows(d)
        BY <2>2, <2>4, <3>1 DEF Follows
      <3> QED BY <1>4, <2>1, <2>4, <2>5, <3>2
    <2>6. CASE ~Server.finalizer
      BY <1>s, <1>4, <2>1, <2>3, <2>4, <2>6 DEF Follows
    <2> QED BY <2>5, <2>6
  <1> QED BY <1>1, <1>2, <1>3, <1>5, <1>6, <1>7, ECSteps

\* How a reconcile is under way after a step.
LEMMA RunSteps ==
    ASSUME Next, pc' # "idle"
    PROVE  \/ ReconcileDelete \/ ReconcileNew \/ ReconcileUnknownProvider
           \/ ReconcileMint
           \/ /\ pc # "idle"
              /\ \/ ec' = ec
                 \/ ECWrite /\ ec' = desired /\ pc # "removeFinalizer"
  <1> USE DEF cluster, queue, provider, locals
  <1>1. CASE Reconcile
    BY <1>1 DEF Reconcile, ReconcileGone, ReconcileSteady, ReturnNil,
         ReturnAfter, EndRun
  <1>2. CASE AddFinalizer
    BY <1>2 DEF AddFinalizer, ECWrite, ECWrites, Accepted, ReturnRateLimited,
         ReturnAfter, EndRun
  <1>3. CASE SetPending \/ RemoveFinalizer \/ FailStatus \/ RevokePrevious
             \/ DeleteSecretFails \/ ECWriteFails \/ ECWriteLost
    BY <1>3 DEF SetPending, RemoveFinalizer, FailStatus, RevokePrevious,
         DeleteSecretFails, ECWriteFails, ECWriteLost, ReturnRateLimited,
         ReturnAfter, ReturnNil, EndRun
  <1>4. CASE Mint \/ MintFails \/ MintLost \/ WriteSecret \/ WriteSecretFails
             \/ WriteSecretLost \/ DeleteExpired \/ DeleteSecret
             \/ RevokeOnDelete
    BY <1>4 DEF Mint, MintFails, MintLost, WriteSecret, WriteSecretFails,
         WriteSecretLost, DeleteExpired, DeleteSecret, RevokeOnDelete, Fail
  <1>5. CASE PersistHandle \/ UpdateStatus
    BY <1>5, PutWrites DEF PersistHandle, UpdateStatus, ECWrites
  <1>6. CASE Deliveries \/ Users \/ Resync \/ Crash \/ Tick
             \/ \E n \in Names : GarbageCollect(n)
    BY <1>6 DEF Deliveries, DeliverEC, TimerFires, DeliverSecret, Users,
         EditSpec, DeleteEC, UserDeletesSecret, UserEditsSecret, Resync, Crash,
         Tick, GarbageCollect, EndRun
  <1> QED BY <1>1, <1>2, <1>3, <1>4, <1>5, <1>6 DEF Next, Calls

\* Only Reconcile on a cached resource that is wanted leads to Mint.
LEMMA MintSteps ==
    ASSUME Next, pc' = "mint"
    PROVE  ReconcileMint \/ (UNCHANGED <<pc, ec>> /\ pc = "mint")
  <1> USE DEF locals
  <1>1. CASE Reconcile
    BY <1>1 DEF Reconcile, ReconcileGone, ReconcileDelete, ReconcileNew,
         ReconcileUnknownProvider, failStatus, ReconcileSteady, ReturnNil,
         ReturnAfter, EndRun, GoTo
  <1>2. CASE Calls
    BY <1>2 DEF Calls, AddFinalizer, SetPending, Mint, MintFails, MintLost,
         WriteSecret, WriteSecretFails, WriteSecretLost, PersistHandle,
         UpdateStatus, Put, RevokePrevious, DeleteExpired, FailStatus,
         RevokeOnDelete, DeleteSecret, DeleteSecretFails, RemoveFinalizer,
         ECWriteFails, ECWriteLost, Fail, failStatus, ReturnNil, ReturnAfter,
         ReturnRateLimited, EndRun
  <1>3. CASE Deliveries \/ Users \/ Resync \/ Crash \/ Tick
             \/ \E n \in Names : GarbageCollect(n)
    BY <1>3 DEF Deliveries, DeliverEC, TimerFires, DeliverSecret, Users,
         EditSpec, DeleteEC, UserDeletesSecret, UserEditsSecret, Resync, Crash,
         Tick, GarbageCollect, EndRun
  <1> QED BY <1>1, <1>2, <1>3 DEF Next

\* Only Mint, answered or not, adds to the ledger.
LEMMA LedgerSteps ==
    ASSUME Next
    PROVE  \/ ledger' = ledger
           \/ pc = "mint" /\ UNCHANGED <<now, cluster>> /\ \E l \in Lifetimes : Grant(l)
  BY DEF Next, Reconcile, Dequeue, ReconcileGone, ReconcileDelete,
     ReconcileNew, ReconcileUnknownProvider, ReconcileSteady, ReconcileMint,
     Calls, AddFinalizer, SetPending, Mint, MintFails, MintLost,
     WriteSecret, WriteSecretFails, WriteSecretLost, PersistHandle,
     UpdateStatus, Put, RevokePrevious, Revoke, DeleteExpired, FailStatus,
     RevokeOnDelete, DeleteSecret, DeleteSecretFails, RemoveFinalizer,
     ECWriteFails, ECWriteLost, Deliveries, DeliverEC, TimerFires,
     DeliverSecret, Users, EditSpec, DeleteEC, UserDeletesSecret,
     UserEditsSecret, Resync, Crash, Tick, GarbageCollect, provider

----------------------------------------------------------------------------
(* The life of the resource. *)

LEMMA Generation ==
    ASSUME TypeOK
    PROVE  /\ Len(ecw) \in 1..Len(ecw) /\ 1 \in 1..Len(ecw)
           /\ \A i \in 1..Len(ecw) : ecw[i].generation \in Nat
           /\ Server.generation \in Nat
           /\ Server.status.observedGeneration \in Nat
           /\ ec.generation \in Nat
  <1>1. \A c \in Credentials :
          c.generation \in Nat /\ c.status.observedGeneration \in Nat
    BY DEF Credentials, Statuses
  <1>2. ecw \in Seq(Credentials) /\ Len(ecw) \in Nat /\ Len(ecw) >= 1
    BY DEF TypeOK
  <1>3. ec \in Credentials /\ Server \in Credentials
    BY WindowTypes DEF TypeOK, LocalsOK
  <1>4. \A i \in 1..Len(ecw) : ecw[i] \in Credentials
    BY <1>2
  <1> QED BY <1>1, <1>2, <1>3, <1>4

LEMMA AdvancedWindow ==
    ASSUME TypeOK, Advanced
    PROVE  \A i \in 1..Len(ecw') : \E j \in 1..Len(ecw) : ecw'[i] = ecw[j]
  <1>1. PICK d \in 0..(Len(ecw) - 1) :
          /\ Len(ecw') = Len(ecw) - d
          /\ \A i \in 1..Len(ecw') : ecw'[i] = ecw[i + d]
    BY DEF Advanced
  <1>2. \A i \in 1..Len(ecw') : i + d \in 1..Len(ecw)
    BY <1>1 DEF TypeOK
  <1> QED BY <1>1, <1>2

\* Every version of the window was in it before, or is the new one.
LEMMA Window ==
    ASSUME TypeOK, NEW v, Advanced \/ Extended(v), NEW i \in 1..Len(ecw')
    PROVE  \/ i \in 1..Len(ecw) /\ ecw'[i] = ecw[i] /\ Extended(v)
           \/ i = Len(ecw) + 1 /\ ecw'[i] = v /\ Extended(v)
           \/ Advanced /\ \E j \in 1..Len(ecw) : ecw'[i] = ecw[j]
  <1>t. Len(ecw) \in Nat
    BY DEF TypeOK
  <1>1. CASE Advanced
    BY <1>1, AdvancedWindow
  <1>2. CASE Extended(v)
    BY <1>t, <1>2 DEF Extended
  <1> QED BY <1>1, <1>2

LEMMA OrderedStep ==
    ASSUME TypeOK, Ordered, NEW v \in Credentials,
           Advanced \/ (Extended(v) /\ Follows(v))
    PROVE  Ordered'
  <1>t. Len(ecw) \in Nat /\ Len(ecw) >= 1
    BY DEF TypeOK
  <1>1. CASE Advanced
    <2>1. PICK d \in 0..(Len(ecw) - 1) :
            /\ Len(ecw') = Len(ecw) - d
            /\ \A i \in 1..Len(ecw') : ecw'[i] = ecw[i + d]
      BY <1>1 DEF Advanced
    <2>2. ASSUME NEW i \in 1..Len(ecw'), NEW j \in 1..Len(ecw'), i <= j
          PROVE  i + d \in 1..Len(ecw) /\ j + d \in 1..Len(ecw) /\ i + d <= j + d
      BY <1>t, <2>1, <2>2
    <2> QED BY <2>1, <2>2 DEF Ordered
  <1>2. CASE Extended(v) /\ Follows(v)
    <2>s. v.generation \in Nat
      BY DEF Credentials
    <2>1. \A i \in 1..Len(ecw) :
            /\ ecw[i].generation <= Server.generation
            /\ ecw[i].deleting => Server.deleting
      BY <1>t, Generation DEF Ordered, Server
    <2>2. \A i \in 1..Len(ecw) :
            /\ ecw[i].generation <= v.generation
            /\ ecw[i].deleting => v.deleting
      BY <1>2, <2>s, <2>1, Generation DEF Follows
    <2>3. ASSUME NEW i \in 1..Len(ecw'), NEW j \in 1..Len(ecw'), i <= j
          PROVE  /\ ecw'[i].generation <= ecw'[j].generation
                 /\ ecw'[i].deleting => ecw'[j].deleting
      <3>1. CASE j \in 1..Len(ecw)
        <4>1. i \in 1..Len(ecw)
          BY <2>3, <3>1
        <4> QED BY <1>2, <2>3, <3>1, <4>1 DEF Extended, Ordered
      <3>2. CASE j = Len(ecw) + 1 /\ i \in 1..Len(ecw)
        BY <1>2, <2>2, <3>2 DEF Extended
      <3>3. CASE j = Len(ecw) + 1 /\ i = Len(ecw) + 1
        BY <1>2, <2>s, <3>3 DEF Extended
      <3> QED BY <1>t, <1>2, <2>3, <3>1, <3>2, <3>3 DEF Extended
    <2> QED BY <2>3 DEF Ordered
  <1> QED BY <1>1, <1>2

LEMMA GenerationsStep ==
    ASSUME TypeOK, Ordered, Generations, CopyOK, NEW v \in Credentials,
           Advanced \/ (Extended(v) /\ Follows(v))
    PROVE  Generations'
  <1>g. v.generation \in Nat /\ v.status.observedGeneration \in Nat
    BY DEF Credentials, Statuses
  <1>1. CASE Advanced
    BY <1>1, AdvancedWindow DEF Advanced, Generations
  <1>2. CASE Extended(v) /\ Follows(v)
    <2>1. Server' = v
      BY <1>2 DEF Extended
    <2>2. ASSUME NEW i \in 1..Len(ecw)
          PROVE  /\ ecw[i].generation = v.generation => ecw[i].spec = v.spec
                 /\ v.status.observedGeneration <= ecw[i].generation
      <3>1. ecw[i].generation <= Server.generation
        BY <2>2, Generation DEF Ordered, Server
      <3>2. ecw[i].generation = v.generation => ecw[i].spec = v.spec
        BY <1>g, <1>2, <3>1, Generation DEF Follows, Generations
      <3>3. v.status.observedGeneration <= ecw[i].generation
        BY <1>2 DEF Follows, Generations, CopyOK
      <3> QED BY <3>2, <3>3
    <2>3. v.status.observedGeneration <= v.generation
      <3>1. v.status.observedGeneration <= Server.generation
        BY <2>2, Generation DEF Server
      <3> QED BY <1>g, <1>2, <3>1, Generation DEF Follows
    <2> QED BY <1>2, <2>1, <2>2, <2>3, Window DEF Generations
  <1> QED BY <1>1, <1>2

\* A reconcile that starts works on what the cache holds.
LEMMA StartsCached ==
    ASSUME ReconcileDelete \/ ReconcileNew \/ ReconcileUnknownProvider
           \/ ReconcileMint
    PROVE  ec' = Cached /\ Cached.exists /\ ecw' = ecw
  BY DEF ReconcileDelete, ReconcileNew, ReconcileUnknownProvider,
         ReconcileMint, ReadEC, Ours, Dequeue, cluster

LEMMA CopyOKStep ==
    ASSUME TypeOK, RunOK, FreshCopy, Observed, Ordered, Generations, CopyOK,
           NEW v \in Credentials, Advanced \/ (Extended(v) /\ Follows(v)), Next
    PROVE  CopyOK'
  <1> SUFFICES ASSUME pc' # "idle"
               PROVE  /\ ec'.exists
                      /\ \A i \in 1..Len(ecw') : ec'.generation <= ecw'[i].generation
                      /\ ec'.generation = Server'.generation => ec'.spec = Server'.spec
                      /\ Server'.status.observedGeneration <= ec'.generation
    BY DEF CopyOK
  <1>g. v.generation \in Nat /\ v.status.observedGeneration \in Nat
    BY DEF Credentials, Statuses
  <1>1. CASE ReconcileDelete \/ ReconcileNew \/ ReconcileUnknownProvider
             \/ ReconcileMint
    <2>1. ec' = ecw[1] /\ ecw[1].exists /\ ecw' = ecw
      BY <1>1, StartsCached DEF Cached
    <2>2. \A i \in 1..Len(ecw) : ecw[1].generation <= ecw[i].generation
      BY Generation DEF Ordered
    <2> QED BY <2>1, <2>2, Generation DEF Generations, Server
  <1>2. CASE pc # "idle" /\ ec' = ec
    <2>1. CASE Advanced
      BY <1>2, <2>1, Window DEF Advanced, CopyOK
    <2>2. CASE Extended(v) /\ Follows(v)
      <3>1. Server' = v
        BY <2>2 DEF Extended
      <3>2. ec.generation <= Server.generation
        BY <1>2, Generation DEF CopyOK, Server
      <3>3. ec.generation <= v.generation
        BY <1>g, <2>2, <3>2, Generation DEF Follows
      <3>4. ec.generation = v.generation => ec.spec = v.spec
        BY <1>g, <1>2, <2>2, <3>2, Generation DEF Follows, CopyOK
      <3>5. v.status.observedGeneration <= ec.generation
        BY <1>2, <2>2, Generation DEF Follows, CopyOK
      <3> QED BY <1>2, <2>2, <3>1, <3>3, <3>4, <3>5, Window DEF CopyOK
    <2> QED BY <2>1, <2>2
  <1>3. CASE pc # "idle" /\ ECWrite /\ ec' = desired /\ pc # "removeFinalizer"
    <2>1. pc \in ECWrites /\ Server' = desired /\ Server = ec
      BY <1>3, ECWriteServer DEF ECWrite
    <2>2. ec'.exists
      BY <1>3, <2>1, DesiredLife DEF CopyOK
    <2>3. ec'.generation = ec.generation
      BY <1>3, <2>1, DesiredFields
    <2>4. \A i \in 1..Len(ecw) : ec'.generation <= ecw[i].generation
      BY <1>3, <2>3 DEF CopyOK
    <2>5. Server'.status.observedGeneration <= ec'.generation
      BY <1>3, <2>1, ObservedStep DEF Observed
    <2>6. \A i \in 1..Len(ecw') : \/ i \in 1..Len(ecw) /\ ecw'[i] = ecw[i]
                                  \/ ecw'[i] = desired
      BY <1>3 DEF ECWrite, PutEC, TypeOK
    <2> QED BY <1>3, <2>1, <2>2, <2>3, <2>4, <2>5, <2>6, Generation
  <1> QED BY <1>1, <1>2, <1>3, RunSteps

LEMMA FinalizerKeptStep ==
    ASSUME TypeOK, RunOK, FreshCopy, FinalizerKept,
           NEW v \in Credentials, Advanced \/ (Extended(v) /\ Follows(v)), Next
    PROVE  FinalizerKept'
  <1>1. Server.finalizer /\ Server'.exists => Server.exists /\ Server'.finalizer
    BY DEF Advanced, Extended, Follows
  <1>2. Server'.exists => Server.exists
    BY DEF Advanced, Extended, Follows
  <1>3. \A i \in 1..Len(ecw') : ecw'[i].finalizer /\ Server'.exists => Server'.finalizer
    <2>1. CASE Advanced
      BY <2>1, Window DEF Advanced, FinalizerKept
    <2>2. CASE Extended(v) /\ Follows(v)
      <3>1. Server' = v
        BY <2>2 DEF Extended
      <3> QED BY <1>1, <1>2, <2>2, <3>1, Window DEF FinalizerKept
    <2> QED BY <2>1, <2>2
  <1>4. ec'.finalizer /\ Server'.exists => Server'.finalizer
    <2>1. CASE EndRun
      BY <2>1 DEF EndRun, NilEC, NewEC
    <2>2. CASE ReadEC /\ ecw' = ecw
      BY <2>2, <1>3, Generation DEF ReadEC, Cached
    <2>3. CASE UNCHANGED ec
      BY <1>1, <1>2, <2>3 DEF FinalizerKept
    <2>4. CASE ECWrite /\ ec' = desired
      BY <2>4, ECWriteServer
    <2> QED BY <2>1, <2>2, <2>3, <2>4, LocalSteps
  <1>5. pc' = "mint" => ec'.finalizer
    BY MintSteps DEF ReconcileMint, Ours, LacksFinalizer, ReadEC, FinalizerKept
  <1> QED BY <1>3, <1>4, <1>5 DEF FinalizerKept

LEMMA GoneSeenStep ==
    ASSUME TypeOK, Ordered, FinalizerKept, GoneSeen, NEW v \in Credentials,
           Advanced \/ (Extended(v) /\ Follows(v)), Next
    PROVE  GoneSeen'
  <1>1. ASSUME pc' \in Deleting
        PROVE  \A i \in 1..Len(ecw') : ecw'[i].deleting
    <2>1. CASE ReconcileDelete
      <3>1. ecw' = ecw /\ ecw[1].deleting
        BY <2>1 DEF ReconcileDelete, Dequeue, Cached, cluster
      <3> QED BY <3>1, Generation DEF Ordered
    <2>2. CASE RevokeOnDelete \/ DeleteSecret
      BY <2>2 DEF RevokeOnDelete, DeleteSecret, cluster, Deleting, GoneSeen
    <2>3. CASE UNCHANGED <<pc, ec>>
      <3>1. \A i \in 1..Len(ecw) : ecw[i].deleting
        BY <1>1, <2>3 DEF GoneSeen
      <3>2. CASE Advanced
        BY <3>1, <3>2, Window
      <3>3. CASE Extended(v) /\ Follows(v)
        <4>1. v.deleting
          BY <3>1, <3>3, Generation DEF Follows, Server
        <4> QED BY <3>1, <3>3, <4>1, Window
      <3> QED BY <3>2, <3>3
    <2> QED BY <1>1, <2>1, <2>2, <2>3, DeletingSteps
  <1>2. ASSUME ~Server'.exists, NEW i \in 1..Len(ecw'),
               ecw'[i].exists, ecw'[i].finalizer
        PROVE  ecw'[i].deleting
    <2>1. CASE Advanced
      BY <1>2, <2>1, Window DEF Advanced, GoneSeen
    <2>2. CASE Extended(v) /\ Follows(v)
      <3>1. i \in 1..Len(ecw) /\ ecw'[i] = ecw[i] /\ ~v.exists
        BY <1>2, <2>2, Window DEF Extended
      <3>2. Server.finalizer
        BY <1>2, <2>2, <3>1 DEF Follows, FinalizerKept
      <3>3. pc \in Deleting
        BY <2>2, <3>1, <3>2 DEF Follows, Deleting
      <3> QED BY <3>1, <3>3 DEF GoneSeen
    <2> QED BY <2>1, <2>2
  <1>3. ASSUME pc' = "mint" PROVE Server'.exists
    <2>1. CASE ReconcileMint
      <3>1. /\ ecw' = ecw
            /\ ecw[1].exists /\ ~ecw[1].deleting /\ ecw[1].finalizer
        BY <2>1 DEF ReconcileMint, Dequeue, Ours, LacksFinalizer, Cached, cluster
      <3>2. Server' = Server
        BY <3>1 DEF Server
      <3> QED BY <3>1, <3>2, Generation DEF GoneSeen
    <2>2. CASE UNCHANGED <<pc, ec>> /\ pc = "mint"
      <3>1. Server.exists /\ Server.finalizer
        BY <2>2 DEF GoneSeen, FinalizerKept
      <3> QED BY <2>2, <3>1 DEF Advanced, Extended, Follows
    <2> QED BY <1>3, <2>1, <2>2, MintSteps
  <1> QED BY <1>1, <1>2, <1>3 DEF GoneSeen

LEMMA FinalizerBeforeMintStep ==
    ASSUME TypeOK, FinalizerKept, FinalizerBeforeMint, NEW v \in Credentials,
           Advanced \/ (Extended(v) /\ Follows(v)), Next
    PROVE  FinalizerBeforeMint'
  <1>1. CASE ledger' = ledger
    BY <1>1 DEF FinalizerBeforeMint, Advanced, Extended, Follows
  <1>2. CASE pc = "mint" /\ ecw' = ecw
    <2>1. Server' = Server
      BY <1>2 DEF Server
    <2> QED BY <1>2, <2>1 DEF FinalizerBeforeMint, FinalizerKept
  <1> QED BY <1>1, <1>2, LedgerSteps DEF cluster

LEMMA StartLife ==
    ASSUME NEW c, Starts(c)
    PROVE  LifeInv
  <1>1. IInv
    BY StartIInv
  <1>2. Len(ecw) = 1 /\ ecw[1] = c /\ Server = c
    BY DEF Starts, Server
  <1>3. ~c.deleting /\ c.generation \in Nat /\ c.status.observedGeneration = 0
    BY DEF Starts, Unused, Credentials
  <1>4. Ordered /\ Generations
    BY <1>2, <1>3 DEF Ordered, Generations
  <1>5. CopyOK /\ FinalizerBeforeMint
    BY DEF Starts, CopyOK, FinalizerBeforeMint
  <1>6. ~ec.finalizer
    BY DEF Starts, NilEC, NewEC
  <1>7. FinalizerKept /\ GoneSeen
    BY <1>2, <1>3, <1>6 DEF Starts, FinalizerKept, GoneSeen, Deleting
  <1> QED BY <1>1, <1>4, <1>5, <1>7 DEF LifeInv

LEMMA LifeInit == Init => LifeInv
  BY InitStarts, StartLife

LEMMA LifeStep == LifeInv /\ [Next]_vars => LifeInv'
  <1> SUFFICES ASSUME LifeInv, [Next]_vars PROVE LifeInv'
    OBVIOUS
  <1>1. IInv'
    BY IInvStep DEF LifeInv
  <1>2. CASE Next
    <2>1. PICK v \in Credentials : Advanced \/ (Extended(v) /\ Follows(v))
      BY <1>2, WindowSteps, NilECType DEF LifeInv, IInv, CopyOK
    <2>2. Ordered' /\ Generations'
      BY <2>1, OrderedStep, GenerationsStep DEF LifeInv, IInv
    <2>3. CopyOK'
      BY <1>2, <2>1, CopyOKStep DEF LifeInv, IInv
    <2>4. FinalizerKept' /\ FinalizerBeforeMint'
      BY <1>2, <2>1, FinalizerKeptStep, FinalizerBeforeMintStep DEF LifeInv, IInv
    <2>5. GoneSeen'
      BY <1>2, <2>1, GoneSeenStep DEF LifeInv, IInv
    <2> QED BY <1>1, <2>2, <2>3, <2>4, <2>5 DEF LifeInv
  <1>3. CASE UNCHANGED vars
    BY <1>1, <1>3 DEF vars, cluster, locals, queue, provider, LifeInv, Ordered,
       Generations, CopyOK, FinalizerKept, GoneSeen, FinalizerBeforeMint, Server
  <1> QED BY <1>2, <1>3

\* Reconcile adds its finalizer "before minting anything": whatever the cache
\* shows and whoever writes in between, no credential exists for a resource
\* that could vanish without reconcileDelete.
THEOREM FinalizerFirst == Spec => []FinalizerBeforeMint
  <1>1. LifeInv => FinalizerBeforeMint
    BY DEF LifeInv
  <1> QED BY <1>1, LifeInit, LifeStep, PTL DEF Spec

\* Mint is never called for a resource that is gone: the deletion that let it
\* go was in the cache before, so that no later reconcile, and none under way,
\* still takes it for one that is wanted.
THEOREM NoMintForGone == Spec => MintsOnlyForExisting
  <1>1. LifeInv /\ [Next]_vars
          => [Len(ledger') > Len(ledger) => Server.exists]_vars
    <2> SUFFICES ASSUME LifeInv, Next, Len(ledger') > Len(ledger)
                 PROVE  Server.exists
      OBVIOUS
    <2>1. Len(ledger) \in Nat
      BY DEF LifeInv, IInv, TypeOK
    <2>2. pc = "mint"
      BY <2>1, LedgerSteps
    <2> QED BY <2>2 DEF LifeInv, GoneSeen
  <1> QED BY <1>1, LifeInit, LifeStep, PTL DEF Spec, MintsOnlyForExisting

----------------------------------------------------------------------------
(* No token under a key that nobody asked for. *)

\* A step leaves in a Secret what was there, empties keys or fills them with
\* values that are no tokens,
KeysKept ==
    \A n \in Names : \A k \in DataKeys :
        Secret(n)'.data[k] \in {Empty, Foreign, Secret(n).data[k]}

\* or it is writeTargetSecret and leaves the token in hand under its keys.
KeysWritten ==
    /\ pc = "writeSecret" /\ ec.spec.target \in Names
    /\ \A n \in Names : IF n = ec.spec.target
                        THEN OneToken(Secret(n)', ec.spec.keys, token)
                        ELSE Secret(n)' = Secret(n)

LEMMA MutateKeys ==
    ASSUME NEW s \in Secrets, Managed(s), NEW keys, NEW t
    PROVE  OneToken(mutate(s, keys, t), keys, t)
  BY DEF OneToken, mutate, Managed

LEMMA SecretKeys ==
    ASSUME TypeOK, TokensManaged, Next
    PROVE  KeysKept \/ KeysWritten
  <1>t. \A n \in Names : secw[n] \in Seq(Secrets) /\ Len(secw[n]) >= 1
    BY DEF TypeOK
  <1>s. \A n \in Names : Managed(CachedSecret(n))
    BY <1>t DEF TokensManaged, Managed, CachedSecret
  <1>1. CASE \A n \in Names : Secret(n)' = Secret(n)
    BY <1>1 DEF KeysKept
  <1>2. CASE secw' = secw
    BY <1>1, <1>2 DEF Secret
  <1>3. CASE Crash
    <2>1. \A n \in Names : secw'[n] = <<Secret(n)>>
      BY <1>3 DEF Crash
    <2>2. \A n \in Names : Len(secw'[n]) = 1 /\ secw'[n][1] = Secret(n)
      BY <2>1
    <2> QED BY <1>1, <2>2 DEF Secret
  <1>4. ASSUME NEW n \in Names, DeliverSecret(n) PROVE KeysKept
    <2>1. secw'[n] = Tail(secw[n]) /\ Len(secw[n]) > 1
          /\ \A m \in Names \ {n} : secw'[m] = secw[m]
      BY <1>4 DEF DeliverSecret, TypeOK
    <2>2. Tail(secw[n])[Len(Tail(secw[n]))] = secw[n][Len(secw[n])]
      BY <1>t, <2>1
    <2>3. \A m \in Names : Secret(m)' = Secret(m)
      BY <2>1, <2>2 DEF Secret
    <2> QED BY <2>3 DEF KeysKept
  <1>5. ASSUME NEW n \in Names, NEW v \in Secrets, PutSecret(n, v)
        PROVE  Secret(n)' = v /\ \A m \in Names \ {n} : Secret(m)' = Secret(m)
    BY <1>5, PutSecretType DEF Secret
  <1>6. ASSUME NEW n \in Names, PutSecret(n, NoSecret) PROVE KeysKept
    <2>1. /\ Secret(n)' = NoSecret
          /\ \A m \in Names \ {n} : Secret(m)' = Secret(m)
      BY <1>5, <1>6, NoSecretType
    <2>2. \A k \in DataKeys : NoSecret.data[k] = Empty
      BY DEF NoSecret
    <2> QED BY <2>1, <2>2 DEF KeysKept
  <1>7. ASSUME NEW n \in Names, UserEditsSecret(n) PROVE KeysKept
    <2>1. PICK j \in DataKeys :
            PutSecret(n, [Secret(n) EXCEPT !.exists = TRUE, !.data[j] = Foreign])
      BY <1>7 DEF UserEditsSecret
    <2> DEFINE v == [Secret(n) EXCEPT !.exists = TRUE, !.data[j] = Foreign]
    <2>2. v \in Secrets
      BY WindowTypes, EditedSecretType
    <2>3. \A k \in DataKeys : v.data[k] \in {Foreign, Secret(n).data[k]}
      BY WindowTypes DEF Secrets
    <2>4. PutSecret(n, v)
      BY <2>1
    <2> HIDE DEF v
    <2>5. Secret(n)' = v /\ \A m \in Names \ {n} : Secret(m)' = Secret(m)
      BY <1>5, <2>2, <2>4
    <2> QED BY <2>3, <2>5 DEF KeysKept
  <1>8. CASE pc = "writeSecret" /\ writeTargetSecret
    <2>1. PICK n \in Names : n = ec.spec.target
      BY <1>8 DEF writeTargetSecret, SecretWritable
    <2> DEFINE v == mutate(CachedSecret(n), ec.spec.keys, token)
    <2>2. PutSecret(n, v)
      BY <1>8, <2>1 DEF writeTargetSecret
    <2>3. ec.spec.keys \in KeyMaps /\ token \in Nat
      BY SpecFields DEF TypeOK, LocalsOK
    <2>4. v \in Secrets /\ OneToken(v, ec.spec.keys, token)
      BY <1>s, <2>3, WindowTypes, MutateType, MutateKeys
    <2> HIDE DEF v
    <2>5. Secret(n)' = v /\ \A m \in Names \ {n} : Secret(m)' = Secret(m)
      BY <1>5, <2>2, <2>4
    <2> QED BY <1>8, <2>1, <2>4, <2>5 DEF KeysWritten
  <1> QED BY <1>2, <1>3, <1>4, <1>6, <1>7, <1>8, SecretSteps

\* What is kept of a Secret discloses no more than it did.
LEMMA OneTokenKept ==
    ASSUME KeysKept, NEW n \in Names, NEW keys, NEW t,
           OneToken(Secret(n), keys, t)
    PROVE  OneToken(Secret(n)', keys, t)
  BY DEF KeysKept, OneToken

LEMMA PublishedKeysStep ==
    ASSUME TypeOK, TokensManaged, PublishedKeys, Next
    PROVE  PublishedKeys'
  <1> SUFFICES ASSUME pc' \in Published, NEW n \in Names, n = ec'.spec.target
               PROVE  OneToken(Secret(n)', ec'.spec.keys, token')
    BY DEF PublishedKeys
  <1>1. ~Mint
    BY DEF Mint, Published
  <1>2. CASE WriteSecret
    <2>1. pc = "writeSecret" /\ writeTargetSecret /\ UNCHANGED <<ec, token>>
      BY <1>2 DEF WriteSecret
    <2> DEFINE v == mutate(CachedSecret(n), ec.spec.keys, token)
    <2>2. PutSecret(n, v)
      BY <2>1 DEF writeTargetSecret
    <2>3. ec.spec.keys \in KeyMaps /\ token \in Nat
      BY SpecFields DEF TypeOK, LocalsOK
    <2>4. Managed(CachedSecret(n))
      BY DEF TokensManaged, Managed, CachedSecret, TypeOK
    <2>5. v \in Secrets /\ OneToken(v, ec.spec.keys, token)
      BY <2>3, <2>4, WindowTypes, MutateType, MutateKeys
    <2> HIDE DEF v
    <2>6. Secret(n)' = v
      BY <2>2, <2>5, PutSecretType
    <2> QED BY <2>1, <2>5, <2>6
  <1>3. CASE PersistHandle \/ UpdateStatus
    <2>1. /\ UNCHANGED <<secw, token>> /\ ec' = desired
          /\ pc \in ECWrites \cap Published
      BY <1>3 DEF PersistHandle, UpdateStatus, Put, Published, ECWrites
    <2>2. ec'.spec = ec.spec /\ Secret(n)' = Secret(n)
      BY <2>1, DesiredFields DEF Secret
    <2> QED BY <2>1, <2>2 DEF PublishedKeys
  <1>4. CASE UNCHANGED <<pc, ec, token, previous, revoked>>
    <2>1. KeysKept
      BY <1>4, SecretKeys DEF KeysWritten, Published
    <2>2. OneToken(Secret(n), ec.spec.keys, token)
      BY <1>4 DEF PublishedKeys
    <2> QED BY <1>4, <2>1, <2>2, OneTokenKept
  <1> QED BY <1>1, <1>2, <1>3, <1>4, MintedSteps DEF Minted, Published

LEMMA LedgerGrows ==
    ASSUME TypeOK, Next
    PROVE  /\ Len(ledger) \in Nat /\ Len(ledger') \in Nat
           /\ Len(ledger) <= Len(ledger')
           /\ \A t \in 1..Len(ledger) : ledger'[t] = ledger[t]
  <1>1. ledger \in Seq(Tokens) /\ Len(ledger) \in Nat
    BY DEF TypeOK
  <1>2. CASE ledger' = ledger
    BY <1>1, <1>2
  <1>3. ASSUME NEW l \in Lifetimes, Grant(l)
        PROVE  /\ Len(ledger') = Len(ledger) + 1
               /\ \A t \in 1..Len(ledger) : ledger'[t] = ledger[t]
    BY <1>1, <1>3 DEF Grant
  <1> QED BY <1>1, <1>2, <1>3, LedgerSteps

\* Once status has observed the current generation, a running reconcile works
\* on the current spec.
LEMMA CurrentSpec ==
    ASSUME TypeOK, CopyOK, UpToDate, pc # "idle"
    PROVE  ec.spec = Server.spec
  <1>1. ec.generation <= Server.generation
    BY Generation DEF CopyOK, Server
  <1> QED BY <1>1, Generation DEF CopyOK, UpToDate

LEMMA NoStrandedStep ==
    ASSUME LifeInv, PublishedKeys, NoStrandedKeys, Next
    PROVE  NoStrandedKeys'
  <1> USE DEF LifeInv, IInv
  <1> SUFFICES ASSUME UpToDate', NEW n \in Names, n = Server'.spec.target
               PROVE  \E t \in 0..Len(ledger') :
                         OneToken(Secret(n)', Server'.spec.keys, t)
    BY DEF NoStrandedKeys, UpToDate, Target, Secret, OneToken
  <1>1. \A t \in 0..Len(ledger) : t \in 0..Len(ledger')
    BY LedgerGrows
  <1>2. UpToDate /\ n = Server.spec.target =>
          \E t \in 0..Len(ledger) : OneToken(Secret(n), Server.spec.keys, t)
    BY DEF NoStrandedKeys, Target, OneToken
  <1>3. CASE Server' = Server
    <2>1. UpToDate /\ n = Server.spec.target
      BY <1>3 DEF UpToDate
    <2>2. CASE KeysKept
      BY <1>1, <1>2, <1>3, <2>1, <2>2, OneTokenKept
    <2>3. CASE KeysWritten
      <3>1. ec.spec = Server.spec
        BY <2>1, <2>3, CurrentSpec DEF KeysWritten
      <3>2. token \in 0..Len(ledger)
        BY <2>3 DEF KeysWritten, RunOK, Minted
      <3> QED BY <1>1, <1>3, <2>1, <2>3, <3>1, <3>2 DEF KeysWritten
    <2> QED BY <2>2, <2>3, SecretKeys
  <1>4. CASE ECWrite
    <2>1. pc \in ECWrites /\ Server' = desired /\ Server = ec
      BY <1>4, ECWriteServer DEF ECWrite
    <2>2. KeysKept
      BY <2>1, SecretKeys DEF KeysWritten, ECWrites
    <2>3. n = ec.spec.target /\ Server'.spec = ec.spec
      BY <2>1, DesiredFields
    <2>4. \E t \in 0..Len(ledger) : OneToken(Secret(n), ec.spec.keys, t)
      <3>1. CASE pc = "updateStatus"
        <4>1. OneToken(Secret(n), ec.spec.keys, token)
          BY <2>3, <3>1 DEF PublishedKeys, Published
        <4>2. token \in 0..Len(ledger)
          BY <3>1 DEF RunOK, Minted
        <4> QED BY <4>1, <4>2
      <3>2. CASE pc # "updateStatus"
        <4>1. UpToDate
          BY <2>1, <3>2, DesiredFields DEF UpToDate
        <4> QED BY <1>2, <2>1, <2>3, <4>1
      <3> QED BY <3>1, <3>2
    <2> QED BY <1>1, <2>2, <2>3, <2>4, OneTokenKept
  <1> QED BY <1>3, <1>4, ECSteps, ServerKept, EditedNotUpToDate

LEMMA KeysInit == Init => KeysInv
  <1> SUFFICES ASSUME Init PROVE KeysInv
    OBVIOUS
  <1>1. PICK s \in Specs : ecw = <<NewEC(s)>>
    BY DEF Init
  <1>2. Server.status.expiresAt = NoTime
    BY <1>1 DEF Server, NewEC, NoStatus
  <1>3. NoStrandedKeys
    BY <1>2 DEF NoStrandedKeys, UpToDate
  <1>4. PublishedKeys
    BY DEF Init, PublishedKeys, Published
  <1> QED BY <1>3, <1>4, LifeInit DEF KeysInv

LEMMA KeysStep == KeysInv /\ [Next]_vars => KeysInv'
  <1> SUFFICES ASSUME KeysInv, [Next]_vars PROVE KeysInv'
    OBVIOUS
  <1>1. LifeInv'
    BY LifeStep DEF KeysInv
  <1>2. CASE Next
    BY <1>1, <1>2, PublishedKeysStep, NoStrandedStep DEF KeysInv, LifeInv, IInv
  <1>3. CASE UNCHANGED vars
    <2>1. PublishedKeys'
      BY <1>3 DEF vars, cluster, locals, provider, KeysInv, PublishedKeys,
         OneToken, Secret
    <2>2. NoStrandedKeys'
      BY <1>3 DEF vars, cluster, provider, KeysInv, NoStrandedKeys, UpToDate,
         Target, Secret, Server
    <2> QED BY <1>1, <2>1, <2>2 DEF KeysInv
  <1> QED BY <1>2, <1>3

\* writeTargetSecret drops the keys that an earlier mapping wrote, whatever
\* version of the Secret it started from: the Secret of a spec that has been
\* handled discloses one token, under the keys of that spec and no others.
THEOREM KeysOfSpecOnly == Spec => []NoStrandedKeys
  <1>1. KeysInv => NoStrandedKeys
    BY DEF KeysInv
  <1> QED BY <1>1, KeysInit, KeysStep, PTL DEF Spec

----------------------------------------------------------------------------
(* A deletion revokes the credential on record. *)

\* What is revoked stays revoked.
LEMMA RevokedGrows ==
    ASSUME Next
    PROVE  revoked \subseteq revoked'
  BY RevokedSteps DEF RevokePrevious, RevokeOnDelete, Revoke

\* Whether a recorded handle can go to the provider does not change.
LEMMA RevocableKept ==
    ASSUME TypeOK, Next, NEW h \in 0..Len(ledger)
    PROVE  /\ h # 0 => ledger'[h] = ledger[h]
           /\ h \in revoked => h \in revoked'
  BY LedgerGrows, RevokedGrows DEF TypeOK

LEMMA CleanedStep ==
    ASSUME RevokeSucceeds, TypeOK, HandlesMinted, Cleaned, Next
    PROVE  Cleaned'
  <1> SUFFICES ASSUME pc' \in {"deleteSecret", "removeFinalizer"},
                      Revocable(ec.handle, ec)'
               PROVE  ec'.handle \in revoked'
    BY DEF Cleaned
  <1>h. ec.handle \in 0..Len(ledger)
    BY DEF HandlesMinted, TypeOK, LocalsOK, Credentials
  <1>1. ~ReconcileDelete
    BY DEF ReconcileDelete, GoTo
  <1>2. CASE RevokeOnDelete
    <2>1. Revoke(ec.handle, ec) /\ ec' = ec /\ ledger' = ledger
      BY <1>2 DEF RevokeOnDelete, Revoke
    <2>2. Revocable(ec.handle, ec)
      BY <2>1 DEF Revocable
    <2>3. ~Disturb("revokeFail")
      BY DEF RevokeSucceeds, Disturb
    <2> QED BY <2>1, <2>2, <2>3 DEF Revoke
  <1>3. CASE pc \in {"deleteSecret", "removeFinalizer"} /\ ec' = ec
    <2>1. Revocable(ec.handle, ec)
      BY <1>h, <1>3, RevocableKept DEF Revocable
    <2> QED BY <1>h, <1>3, <2>1, RevocableKept DEF Cleaned
  <1>4. CASE DeleteSecret
    BY <1>3, <1>4 DEF DeleteSecret
  <1>5. CASE UNCHANGED <<pc, ec>>
    BY <1>3, <1>5
  <1> QED BY <1>1, <1>2, <1>4, <1>5, DeletingSteps DEF Deleting

LEMMA RevokedWhenGoneStep ==
    ASSUME TypeOK, RunOK, FreshCopy, HandlesMinted, FinalizerBeforeMint,
           pc # "idle" => ec.exists, Cleaned, RevokedWhenGone, Next
    PROVE  RevokedWhenGone'
  <1> SUFFICES ASSUME ~Server'.exists, Revocable(Server.handle, Server)'
               PROVE  Server'.handle \in revoked'
    BY DEF RevokedWhenGone
  <1>h. Server.handle \in 0..Len(ledger) /\ ec.handle \in 0..Len(ledger)
    <2>1. ec.handle \in Nat /\ Server.handle \in Nat /\ Len(ledger) \in Nat
      BY WindowTypes DEF TypeOK, LocalsOK, Credentials
    <2>2. Len(ecw) \in 1..Len(ecw)
      BY Generation
    <2>3. Server.handle <= Len(ledger)
      BY <2>2 DEF HandlesMinted, Server
    <2> QED BY <2>1, <2>3 DEF HandlesMinted
  <1>r. Server'.handle # 0 /\ Server'.spec.provider \in Registered
        /\ ledger'[Server'.handle].provider = Server'.spec.provider
    BY DEF Revocable
  <1>1. CASE Server' = Server
    <2>1. Revocable(Server.handle, Server)
      BY <1>h, <1>r, <1>1, RevocableKept DEF Revocable
    <2> QED BY <1>h, <1>1, <2>1, RevocableKept DEF RevokedWhenGone
  <1>2. CASE ECWrite
    <2>1. pc \in ECWrites /\ Server' = desired /\ Server = ec
      BY <1>2, ECWriteServer DEF ECWrite
    <2>2. pc = "removeFinalizer"
      BY <2>1, DesiredLife DEF ECWrites
    <2>3. Server'.handle = ec.handle /\ Server'.spec = ec.spec
      BY <2>1, <2>2, DesiredFields
    <2>4. Revocable(ec.handle, ec)
      BY <1>h, <1>r, <2>3, RevocableKept DEF Revocable
    <2> QED BY <1>h, <2>2, <2>3, <2>4, RevocableKept DEF Cleaned
  <1>3. CASE EditSpec
    BY <1>3, EditSpecServer DEF EditSpec
  <1>4. CASE DeleteEC
    <2> DEFINE d == [Server EXCEPT !.deleting = TRUE, !.generation = @ + 1]
               g == [Server EXCEPT !.exists = FALSE]
    <2>1. d \in Credentials /\ g \in Credentials
      BY WindowTypes, EditedTypes
    <2>2. d.exists = Server.exists /\ g.handle = Server.handle
      BY WindowTypes DEF Credentials
    <2>3. Server.exists /\ PutEC(IF Server.finalizer THEN d ELSE g)
      BY <1>4 DEF DeleteEC
    <2> HIDE DEF d, g
    <2>4. ~Server.finalizer /\ Server'.handle = Server.handle
      BY <2>1, <2>2, <2>3, PutECType
    <2>5. Len(ledger) = 0
      BY <2>3, <2>4 DEF FinalizerBeforeMint
    <2> QED BY <1>h, <1>r, <2>4, <2>5
  <1> QED BY <1>1, <1>2, <1>3, <1>4, ECSteps, ServerKept

LEMMA GoneInit == Init => GoneInv
  <1> SUFFICES ASSUME Init PROVE GoneInv
    OBVIOUS
  <1>1. PICK s \in Specs : ecw = <<NewEC(s)>>
    BY DEF Init
  <1>2. Server.exists
    BY <1>1 DEF Server, NewEC
  <1>3. Cleaned /\ RevokedWhenGone
    BY <1>2 DEF Init, Cleaned, RevokedWhenGone
  <1> QED BY <1>3, LifeInit DEF GoneInv

LEMMA GoneStep == ASSUME RevokeSucceeds PROVE GoneInv /\ [Next]_vars => GoneInv'
  <1> SUFFICES ASSUME GoneInv, [Next]_vars PROVE GoneInv'
    OBVIOUS
  <1>1. LifeInv'
    BY LifeStep DEF GoneInv
  <1>2. CASE Next
    BY <1>1, <1>2, CleanedStep, RevokedWhenGoneStep
    DEF GoneInv, LifeInv, IInv, CopyOK
  <1>3. CASE UNCHANGED vars
    BY <1>1, <1>3 DEF vars, cluster, locals, queue, provider, GoneInv, Cleaned,
       RevokedWhenGone, Revocable, Server
  <1> QED BY <1>2, <1>3

\* reconcileDelete revokes the handle that the resource ends with: the
\* handle it read from the cache is the one recorded when the finalizer goes,
\* and no crash, failed write or repeated attempt gets past Revoke without it.
\* Revoke is best effort, so this is for a provider that does answer.
THEOREM DeletionRevokes ==
    ASSUME RevokeSucceeds
    PROVE  Spec => []RevokedWhenGone
  <1>1. GoneInv => RevokedWhenGone
    BY DEF GoneInv
  <1> QED BY <1>1, GoneInit, GoneStep, PTL DEF Spec

----------------------------------------------------------------------------
(* The token in the Secret lives as long as status says. *)

LEMMA ClockSteps ==
    ASSUME Next
    PROVE  now' = now \/ now' = now + 1
  BY DEF Next, Reconcile, Dequeue, ReconcileGone, ReconcileDelete,
     ReconcileNew, ReconcileUnknownProvider, ReconcileSteady, ReconcileMint,
     Calls, AddFinalizer, SetPending, Mint, MintFails, MintLost,
     WriteSecret, WriteSecretFails, WriteSecretLost, PersistHandle,
     UpdateStatus, Put, RevokePrevious, DeleteExpired, FailStatus,
     RevokeOnDelete, DeleteSecret, DeleteSecretFails, RemoveFinalizer,
     ECWriteFails, ECWriteLost, Deliveries, DeliverEC, TimerFires,
     DeliverSecret, Users, EditSpec, DeleteEC, UserDeletesSecret,
     UserEditsSecret, Resync, Crash, Tick, GarbageCollect

LEMMA Expiries ==
    ASSUME TypeOK
    PROVE  \A t \in 1..Len(ledger) : ledger[t].expiry \in Nat
  <1>1. \A e \in Tokens : e.expiry \in Nat
    BY DEF Tokens
  <1> QED BY <1>1 DEF TypeOK

LEMMA TokenLast ==
    ASSUME TypeOK, ExpiryOrder, Next, pc' \in Minted
    PROVE  token' = Len(ledger')
  <1>1. CASE Mint
    BY <1>1, GrantType DEF Mint
  <1>2. CASE ~Mint
    <2>1. pc \in Minted /\ token' = token
      BY <1>2, MintedSteps DEF WriteSecret, PersistHandle, UpdateStatus, Put,
                               Minted
    <2>2. ledger' = ledger
      BY <2>1, LedgerSteps DEF Minted
    <2> QED BY <2>1, <2>2 DEF ExpiryOrder
  <1> QED BY <1>1, <1>2

LEMMA ExpiryOrderStep ==
    ASSUME FixedLifetime, TypeOK, ExpiryOrder, Next
    PROVE  ExpiryOrder'
  <1>t. now \in Nat /\ Len(ledger) \in Nat /\ \A l \in Lifetimes : l \in Nat
    BY LifetimesAssumption DEF TypeOK
  <1>1. ASSUME NEW t \in 1..Len(ledger')
        PROVE  /\ ledger'[t].expiry <= ledger'[Len(ledger')].expiry
               /\ \A l \in Lifetimes : ledger'[t].expiry <= now' + l
    <2>1. CASE ledger' = ledger
      <3>1. \A l \in Lifetimes : ledger[t].expiry <= now + l
        BY <1>1, <2>1 DEF ExpiryOrder
      <3>2. ledger[t].expiry \in Nat
        BY <1>1, <2>1, Expiries
      <3>3. \A l \in Lifetimes : ledger[t].expiry <= now' + l
        BY <1>t, <3>1, <3>2, ClockSteps
      <3> QED BY <1>1, <2>1, <3>3 DEF ExpiryOrder
    <2>2. ASSUME NEW l \in Lifetimes, Grant(l), now' = now
          PROVE  /\ ledger'[t].expiry <= ledger'[Len(ledger')].expiry
                 /\ \A k \in Lifetimes : ledger'[t].expiry <= now' + k
      <3>1. /\ Len(ledger') = Len(ledger) + 1
            /\ ledger'[Len(ledger')].expiry = now + l
            /\ \A i \in 1..Len(ledger) : ledger'[i] = ledger[i]
        BY <2>2 DEF Grant, TypeOK
      <3>2. ledger'[t].expiry <= now + l
        <4>1. CASE t \in 1..Len(ledger)
          BY <3>1, <4>1 DEF ExpiryOrder
        <4>2. CASE t = Len(ledger')
          BY <1>t, <3>1, <4>2
        <4> QED BY <1>t, <1>1, <3>1, <4>1, <4>2
      <3>3. \A k \in Lifetimes : k = l
        BY DEF FixedLifetime
      <3> QED BY <2>2, <3>1, <3>2, <3>3
    <2> QED BY <2>1, <2>2, LedgerSteps
  <1>2. pc' \in Minted => token' = Len(ledger')
    BY TokenLast
  <1> QED BY <1>1, <1>2 DEF ExpiryOrder

\* A credential that was the last one does not expire after the last one.
LEMMA LastExpiry ==
    ASSUME TypeOK, Next, ExpiryOrder', ledger # <<>>
    PROVE  /\ ledger' # <<>>
           /\ ledger[Len(ledger)].expiry <= ledger'[Len(ledger')].expiry
  <1>1. ledger \in Seq(Tokens) /\ Len(ledger) \in Nat
    BY DEF TypeOK
  <1>2. Len(ledger) \in 1..Len(ledger)
    BY <1>1
  <1>3. Len(ledger) \in 1..Len(ledger')
    BY <1>2, LedgerGrows
  <1>4. ledger'[Len(ledger)] = ledger[Len(ledger)]
    BY <1>2, LedgerGrows
  <1>5. ledger'[Len(ledger)].expiry <= ledger'[Len(ledger')].expiry
    BY <1>3 DEF ExpiryOrder
  <1>6. ledger' # <<>>
    BY <1>3
  <1> QED BY <1>4, <1>5, <1>6

LEMMA ActiveExpiry ==
    ASSUME TypeOK, RunOK, ExpiryOrder, pc = "updateStatus"
    PROVE  /\ ledger # <<>> /\ token = Len(ledger) /\ token \in 1..Len(ledger)
           /\ desired.status.expiresAt = Persisted(ledger[token].expiry)
           /\ Persisted(ledger[token].expiry) <= ledger[token].expiry
  <1>1. token = Len(ledger) /\ token \in 1..Len(ledger)
    BY DEF ExpiryOrder, RunOK, Minted
  <1>2. ec \in Credentials
    BY DEF TypeOK, LocalsOK
  <1>3. desired.status.expiresAt = Persisted(ledger[token].expiry)
    BY <1>2 DEF desired, activeStatus, Credentials
  <1>4. Persisted(ledger[token].expiry) <= ledger[token].expiry
    BY <1>1, Expiries, PersistedBounds
  <1>5. ledger # <<>>
    BY <1>1
  <1> QED BY <1>1, <1>3, <1>4, <1>5

LEMMA StatusMintedStep ==
    ASSUME IInv, ExpiryOrder, StatusMinted, Next, ExpiryOrder', TypeOK'
    PROVE  StatusMinted'
  <1> USE DEF IInv
  <1>t. /\ Server.status.expiresAt \in Int /\ Server'.status.expiresAt \in Int
        /\ \A i \in 1..Len(ledger) : ledger[i].expiry \in Nat
        /\ \A i \in 1..Len(ledger') : ledger'[i].expiry \in Nat
    <2>1. \A c \in Credentials : c.status.expiresAt \in Int
      BY DEF Credentials, Statuses, Times
    <2>2. \A e \in Tokens : e.expiry \in Nat
      BY DEF Tokens
    <2>3. Server \in Credentials /\ Server' \in Credentials
      BY DEF TypeOK, Server
    <2> QED BY <2>1, <2>2, <2>3 DEF TypeOK
  <1>1. ASSUME Server'.status.expiresAt # NoTime
        PROVE  /\ ledger' # <<>>
               /\ Server'.status.expiresAt <= ledger'[Len(ledger')].expiry
    <2>1. ledger # <<>> /\ Server'.status.expiresAt <= ledger[Len(ledger)].expiry
      <3>1. CASE Server'.status.expiresAt = Server.status.expiresAt
        BY <1>1, <3>1 DEF StatusMinted
      <3>2. CASE ECWrite
        <4>1. pc \in ECWrites /\ Server' = desired /\ Server = ec
          BY <3>2, ECWriteServer DEF ECWrite
        <4>2. CASE pc = "updateStatus"
          BY <4>1, <4>2, ActiveExpiry
        <4>3. CASE pc # "updateStatus"
          BY <3>1, <4>1, <4>3, DesiredFields
        <4> QED BY <4>2, <4>3
      <3> QED BY <3>1, <3>2, ECSteps, ServerKept, EditSpecServer, DeleteECServer
    <2>2. Len(ledger) \in 1..Len(ledger)
      BY <2>1 DEF TypeOK
    <2>3. ledger' # <<>> /\ ledger[Len(ledger)].expiry <= ledger'[Len(ledger')].expiry
      BY <2>1, LastExpiry
    <2>4. Len(ledger') \in 1..Len(ledger')
      BY <2>3 DEF TypeOK
    <2> QED BY <1>t, <2>1, <2>2, <2>3, <2>4
  <1>2. ASSUME NEW n \in Names
        PROVE  TokensIn(Secret(n))' \subseteq 1..Len(ledger')
    <2>1. TokensIn(Secret(n))' \subseteq 1..Len(ledger)
      <3>1. CASE Shrink
        BY <3>1 DEF Shrink, StatusMinted
      <3>2. CASE WroteOnly /\ n = ec.spec.target
        <4>1. token \in 1..Len(ledger)
          BY <3>2 DEF WroteOnly, RunOK, Minted
        <4> QED BY <3>2, <4>1 DEF WroteOnly
      <3>3. CASE WroteOnly /\ n # ec.spec.target
        <4>1. Secret(n)' = Secret(n)
          BY <3>3 DEF WroteOnly
        <4> QED BY <4>1 DEF TokensIn, StatusMinted
      <3> QED BY <3>1, <3>2, <3>3, SecretTokens
    <2> QED BY <2>1, LedgerGrows
  <1> QED BY <1>1, <1>2 DEF StatusMinted

LEMMA NotAheadStep ==
    ASSUME IInv, ExpiryOrder, StatusMinted, StatusNotAheadOfSecret, Next
    PROVE  StatusNotAheadOfSecret'
  <1> USE DEF IInv
  <1> SUFFICES ASSUME UpToDate', NEW n \in Names, n = Server'.spec.target,
                      NEW t \in TokensIn(Secret(n))'
               PROVE  ledger'[t].expiry >= Server'.status.expiresAt
    BY DEF StatusNotAheadOfSecret, UpToDate, Target, Secret, TokensIn
  <1>1. UpToDate /\ n = Server.spec.target =>
          \A i \in TokensIn(Secret(n)) : ledger[i].expiry >= Server.status.expiresAt
    BY DEF StatusNotAheadOfSecret, Target
  <1>2. \A i \in 1..Len(ledger) : ledger'[i] = ledger[i]
    BY LedgerGrows
  <1>3. \A i \in TokensIn(Secret(n)) : i \in 1..Len(ledger)
    BY DEF StatusMinted
  <1>4. CASE Server' = Server
    <2>1. UpToDate /\ n = Server.spec.target
      BY <1>4 DEF UpToDate
    <2>2. CASE t \in TokensIn(Secret(n))
      BY <1>1, <1>2, <1>3, <1>4, <2>1, <2>2
    <2>3. CASE WroteOnly /\ n = ec.spec.target
      <3>1. t = token /\ token = Len(ledger) /\ token \in 1..Len(ledger)
        BY <2>3 DEF WroteOnly, RunOK, Minted, ExpiryOrder
      <3>2. Server.status.expiresAt <= ledger[token].expiry
        BY <2>1, <3>1 DEF UpToDate, StatusMinted
      <3>3. Server.status.expiresAt \in Int /\ ledger[token].expiry \in Nat
        BY <3>1, Expiries, WindowTypes DEF Credentials, Statuses, Times
      <3> QED BY <1>2, <1>4, <3>1, <3>2, <3>3
    <2>4. CASE WroteOnly /\ n # ec.spec.target
      <3>1. Secret(n)' = Secret(n)
        BY <2>4 DEF WroteOnly
      <3> QED BY <2>2, <3>1 DEF TokensIn
    <2> QED BY <2>2, <2>3, <2>4, SecretTokens DEF Shrink
  <1>5. CASE ECWrite
    <2>1. pc \in ECWrites /\ Server' = desired /\ Server = ec
      BY <1>5, ECWriteServer DEF ECWrite
    <2>2. t \in TokensIn(Secret(n))
      BY <2>1, SecretTokens DEF WroteOnly, Shrink, ECWrites
    <2>3. ledger'[t] = ledger[t]
      BY <1>2, <1>3, <2>2
    <2>4. CASE pc = "updateStatus"
      <3>1. n = ec.spec.target
        BY <2>1, DesiredFields
      <3>2. t = token
        BY <2>2, <2>4, <3>1 DEF InHand, Published
      <3>3. ledger[token].expiry \in Nat
        BY <2>4, ActiveExpiry, Expiries
      <3>4. Persisted(ledger[token].expiry) \in Int
        BY <3>3, PersistedBounds
      <3> QED BY <2>1, <2>3, <2>4, <3>2, <3>3, <3>4, ActiveExpiry
    <2>5. CASE pc # "updateStatus"
      <3>1. UpToDate /\ n = Server.spec.target
        BY <2>1, <2>5, DesiredFields DEF UpToDate
      <3>2. Server'.status.expiresAt = Server.status.expiresAt
        BY <2>1, <2>5, DesiredFields
      <3> QED BY <1>1, <2>2, <2>3, <3>1, <3>2
    <2> QED BY <2>4, <2>5
  <1> QED BY <1>4, <1>5, ECSteps, ServerKept, EditedNotUpToDate

LEMMA StartExpiry ==
    ASSUME NEW c, Starts(c)
    PROVE  ExpiryInv
  <1>1. Server.status.expiresAt = NoTime
    BY DEF Starts, Unused, Server
  <1>2. PICK secrets \in InitialSecrets : secw = [n \in Names |-> <<secrets[n]>>]
    BY DEF Starts
  <1>3. \A n \in Names : Secret(n) = secrets[n]
    BY <1>2 DEF Secret
  <1>4. \A n \in Names : TokensIn(Secret(n)) = {}
    BY <1>3, InitialSecretsAssumption
  <1>5. StatusMinted /\ StatusNotAheadOfSecret
    BY <1>1, <1>4 DEF StatusMinted, StatusNotAheadOfSecret, UpToDate
  <1>6. ExpiryOrder
    BY DEF Starts, ExpiryOrder, Minted
  <1> QED BY <1>5, <1>6, StartIInv DEF ExpiryInv

LEMMA ExpiryInit == Init => ExpiryInv
  BY InitStarts, StartExpiry

LEMMA ExpiryStep == ASSUME FixedLifetime PROVE ExpiryInv /\ [Next]_vars => ExpiryInv'
  <1> SUFFICES ASSUME ExpiryInv, [Next]_vars PROVE ExpiryInv'
    OBVIOUS
  <1>1. IInv'
    BY IInvStep DEF ExpiryInv
  <1>2. CASE Next
    <2>1. ExpiryOrder'
      BY <1>2, ExpiryOrderStep DEF ExpiryInv, IInv
    <2>2. StatusMinted'
      BY <1>1, <1>2, <2>1, StatusMintedStep DEF ExpiryInv, IInv
    <2>3. StatusNotAheadOfSecret'
      BY <1>2, NotAheadStep DEF ExpiryInv
    <2> QED BY <1>1, <2>1, <2>2, <2>3 DEF ExpiryInv
  <1>3. CASE UNCHANGED vars
    BY <1>1, <1>3 DEF vars, cluster, locals, queue, provider, ExpiryInv,
       ExpiryOrder, StatusMinted, StatusNotAheadOfSecret, UpToDate, Target,
       TokensIn, Secret, Server
  <1> QED BY <1>2, <1>3

\* Nor does anybody who changes Secrets disturb these.
LEMMA OthersKeepLife ==
    ASSUME LifeInv, OthersStep
    PROVE  LifeInv'
  <1>1. IInv'
    BY OthersKeepIInv DEF LifeInv
  <1>2. UNCHANGED <<ecw, pc, ec, ledger>> /\ Server' = Server
    BY DEF OthersStep, locals, provider, Server
  <1> QED BY <1>1, <1>2 DEF LifeInv, Ordered, Generations, CopyOK, FinalizerKept,
                            GoneSeen, FinalizerBeforeMint

LEMMA OthersKeepExpiry ==
    ASSUME ExpiryInv, OthersStep
    PROVE  ExpiryInv'
  <1>1. IInv' /\ Shrink
    BY OthersKeepIInv, OthersSecrets DEF ExpiryInv, IInv
  <1>2. UNCHANGED <<now, ecw, pc, token, ledger>> /\ Server' = Server
    BY DEF OthersStep, locals, provider, Server
  <1>3. ExpiryOrder' /\ StatusMinted'
    BY <1>1, <1>2 DEF ExpiryInv, ExpiryOrder, StatusMinted, Shrink
  <1>4. StatusNotAheadOfSecret'
    <2> SUFFICES ASSUME UpToDate', NEW n \in Names, n = Server'.spec.target,
                        NEW t \in TokensIn(Secret(n))'
                 PROVE  ledger'[t].expiry >= Server'.status.expiresAt
      BY DEF StatusNotAheadOfSecret, UpToDate, Target, Secret, TokensIn
    <2>1. UpToDate /\ n = Server.spec.target
      BY <1>2 DEF UpToDate
    <2>2. t \in TokensIn(Target)
      BY <1>1, <2>1 DEF Shrink, Target
    <2> QED BY <1>2, <2>1, <2>2 DEF ExpiryInv, StatusNotAheadOfSecret
  <1> QED BY <1>1, <1>3, <1>4 DEF ExpiryInv

\* status.expiresAt never promises more than the Secret keeps: with a provider
\* that grants a fixed lifetime, no lost write, conflict or crash leaves a
\* token in the Secret that expires before status says, although status and
\* Secret are written by different calls.
THEOREM StatusPromisesNoMore ==
    ASSUME FixedLifetime
    PROVE  Spec => []StatusNotAheadOfSecret
  <1>1. ExpiryInv => StatusNotAheadOfSecret
    BY DEF ExpiryInv
  <1> QED BY <1>1, ExpiryInit, ExpiryStep, PTL DEF Spec

----------------------------------------------------------------------------
(* Another replica.  Two replicas at work on one resource share the API    *)
(* server and the provider.  What follows is about one of them, its own    *)
(* steps and those it only learns of, for RolloutProofs to put together.   *)

\* A running reconcile works on a resource that existed, and mints only for
\* one that was not being deleted.
Wanted ==
    /\ pc # "idle" => ec.exists
    /\ pc \in {"mint"} \cup Minted => ~ec.deleting

\* The resource has been accepted: it carries the finalizer while it exists.
Held ==
    /\ \A i \in 1..Len(ecw) : ecw[i].exists => ecw[i].finalizer
    /\ ec.exists => ec.finalizer

ReplicaInv ==
    /\ TypeOK /\ RunOK /\ FreshCopy /\ Observed /\ DeletionFinal
    /\ HandlesMinted /\ TokensManaged /\ Wanted /\ Held

\* The credentials a replica knows of, besides the one it has minted itself,
\* and the one it is about to revoke.
Handles == {ecw[i].handle : i \in 1..Len(ecw)} \cup {ec.handle, previous}
InUse == IF pc \in Minted THEN {token} ELSE {}
Retired == IF pc = "revokePrevious" THEN {previous} ELSE {}

\* A credential that is only minted yet is recorded nowhere.
Unpublished == pc = "writeSecret" => token \notin Handles \cup revoked

Unknown(w) == w \notin Handles \cup InUse \cup revoked

\* The Secret discloses nothing that is revoked, about to be, or in others.
Safe(n, others) ==
    \A t \in TokensIn(Secret(n)) : t \notin revoked \cup Retired \cup others

CurrentSafe(others) ==
    UpToDate => \A n \in Names : n = Server.spec.target => Safe(n, others)

\* Nor does it disclose what will be retired once status describes it, if
\* the write of status can still be accepted.
CopySafe(others) ==
    fresh /\ pc \in {"persistHandle", "updateStatus"} =>
        \A n \in Names : n = ec.spec.target => Safe(n, others \cup {previous})

\* A version of the resource that the other replica may add,
Successor(v) ==
    /\ v \in Credentials /\ v.handle <= Len(ledger')
    /\ v.status.observedGeneration <= v.generation
    /\ Server.deleting => v.deleting
    /\ v.exists => v.finalizer

\* and everything that may change for a replica by a step of the other.
Learns ==
    /\ UNCHANGED <<pc, ec, token, previous, started, fail, queue>>
    /\ now' \in Nat /\ used' \in Nat
    /\ ledger' \in Seq(Tokens) /\ revoked' \subseteq 1..Len(ledger')
    /\ Len(ledger) <= Len(ledger')
    /\ \A t \in 1..Len(ledger) : ledger'[t] = ledger[t]
    /\ revoked \subseteq revoked'
    /\ \/ ecw' = ecw /\ fresh' = fresh
       \/ fresh' = FALSE /\ \E v : Successor(v) /\ ecw' = Append(ecw, v)
    /\ secw' = [n \in Names |-> secw'[n]]
    /\ \A n \in Names :
          \/ secw'[n] = secw[n]
          \/ \E v \in Secrets : Managed(v) /\ secw'[n] = Append(secw[n], v)

LEMMA WantedStep ==
    ASSUME TypeOK, Wanted, Next
    PROVE  Wanted'
  <1>1. ASSUME pc' # "idle"
        PROVE  ec'.exists
    <2>1. CASE ReconcileDelete \/ ReconcileNew \/ ReconcileUnknownProvider
               \/ ReconcileMint
      BY <2>1, StartsCached
    <2>2. CASE pc # "idle" /\ ec' = ec
      BY <2>2 DEF Wanted
    <2>3. CASE ECWrite /\ ec' = desired /\ pc # "removeFinalizer" /\ pc # "idle"
      BY <2>3, DesiredLife DEF Wanted, ECWrite
    <2> QED BY <1>1, <2>1, <2>2, <2>3, RunSteps
  <1>2. ASSUME pc' = "mint"
        PROVE  ~ec'.deleting
    BY <1>2, MintSteps DEF ReconcileMint, Ours, ReadEC, Wanted
  <1>3. ASSUME pc' \in Minted
        PROVE  ~ec'.deleting
    <2>1. CASE Mint \/ WriteSecret
      BY <2>1 DEF Mint, WriteSecret, Wanted, Minted
    <2>2. CASE PersistHandle \/ UpdateStatus
      <3>1. pc \in ECWrites /\ ec' = desired /\ pc \in Minted
        BY <2>2 DEF PersistHandle, UpdateStatus, Put, ECWrites, Minted
      <3> QED BY <3>1, DesiredFields DEF Wanted
    <2>3. CASE UNCHANGED <<pc, ec>>
      BY <1>3, <2>3 DEF Wanted
    <2> QED BY <1>3, <2>1, <2>2, <2>3, MintedSteps
  <1> QED BY <1>1, <1>2, <1>3 DEF Wanted

LEMMA HeldStep ==
    ASSUME TypeOK, RunOK, FreshCopy, Wanted, Held, Next
    PROVE  Held'
  <1>1. PICK v \in Credentials : Advanced \/ (Extended(v) /\ Follows(v))
    BY WindowSteps, NilECType DEF Wanted
  <1>2. Server.exists => Server.finalizer
    BY Generation DEF Held, Server
  <1>3. \A i \in 1..Len(ecw') : ecw'[i].exists => ecw'[i].finalizer
    <2>1. Extended(v) /\ v.exists => v.finalizer
      BY <1>1, <1>2, Generation DEF Follows, Advanced, Extended, TypeOK
    <2> QED BY <1>1, <2>1, Window DEF Held
  <1>4. ec'.exists => ec'.finalizer
    <2>1. CASE EndRun
      BY <2>1 DEF EndRun, NilEC, NewEC
    <2>2. CASE ReadEC /\ ecw' = ecw
      BY <2>2, Generation DEF ReadEC, Cached, Held
    <2>3. CASE UNCHANGED ec
      BY <2>3 DEF Held
    <2>4. CASE ECWrite /\ ec' = desired
      BY <2>4, DesiredFields, DesiredLife DEF ECWrite, Held
    <2> QED BY <2>1, <2>2, <2>3, <2>4, LocalSteps
  <1> QED BY <1>3, <1>4 DEF Held

LEMMA ReplicaStep ==
    ASSUME ReplicaInv, Next
    PROVE  ReplicaInv'
  <1> USE DEF ReplicaInv
  <1>1. TypeOK' /\ RunOK' /\ HandlesMinted'
    BY TypeStep DEF TypeInv
  <1>2. FreshCopy' /\ Observed' /\ DeletionFinal' /\ TokensManaged'
    BY FreshCopyStep, ObservedStep, DeletionFinalStep, SecretTokens
  <1>3. Wanted' /\ Held'
    BY WantedStep, HeldStep
  <1> QED BY <1>1, <1>2, <1>3

\* The versions that a step adds to the windows of the one who takes it.
LEMMA VersionStep ==
    ASSUME ReplicaInv, Next
    PROVE  \/ Len(ecw') <= Len(ecw) /\ Server' = Server
           \/ \E v : Successor(v) /\ ecw' = Append(ecw, v)
  <1> USE DEF ReplicaInv
  <1>1. PICK v \in Credentials : Advanced \/ (Extended(v) /\ Follows(v))
    BY WindowSteps, NilECType DEF Wanted
  <1>2. CASE Advanced
    BY <1>2 DEF Advanced, TypeOK
  <1>3. CASE Extended(v) /\ Follows(v)
    <2>1. Len(ecw) + 1 \in 1..Len(ecw') /\ ecw'[Len(ecw) + 1] = v /\ Server' = v
      BY <1>3, Generation DEF Extended, TypeOK
    <2>2. v.handle <= Len(ledger')
      BY <2>1, HandlesStep DEF HandlesMinted
    <2>3. v.status.observedGeneration <= v.generation
      BY <2>1, ObservedStep DEF Observed
    <2>4. v.exists => v.finalizer
      BY <2>1, HeldStep DEF Held
    <2> QED BY <1>3, <2>2, <2>3, <2>4 DEF Successor, Follows, Extended
  <1> QED BY <1>1, <1>2, <1>3

LEMMA SecretVersionStep ==
    ASSUME TypeOK, TokensManaged, Next, NEW n \in Names
    PROVE  \/ Len(secw'[n]) <= Len(secw[n]) /\ Secret(n)' = Secret(n)
           \/ \E v \in Secrets : Managed(v) /\ secw'[n] = Append(secw[n], v)
  <1>t. /\ secw \in [Names -> Seq(Secrets)] /\ secw[n] \in Seq(Secrets)
        /\ Len(secw[n]) \in Nat /\ Len(secw[n]) >= 1
    BY DEF TypeOK
  <1>1. ASSUME NEW v \in Secrets, secw'[n] = Append(secw[n], v)
        PROVE  Managed(v)
    <2>1. Len(secw'[n]) \in 1..Len(secw'[n]) /\ secw'[n][Len(secw'[n])] = v
      BY <1>t, <1>1
    <2> QED BY <2>1, SecretTokens DEF TokensManaged, Managed
  <1>2. ASSUME NEW m \in Names, NEW v \in Secrets, PutSecret(m, v)
        PROVE  secw'[n] = Append(secw[n], v) \/ secw'[n] = secw[n]
    BY <1>t, <1>2 DEF PutSecret
  <1>3. CASE secw'[n] = secw[n]
    BY <1>t, <1>3 DEF Secret
  <1>4. CASE Crash
    <2>1. secw'[n] = <<Secret(n)>>
      BY <1>4 DEF Crash
    <2>2. Len(secw'[n]) = 1 /\ secw'[n][Len(secw'[n])] = Secret(n)
      BY <2>1
    <2> QED BY <1>t, <2>2 DEF Secret
  <1>5. CASE pc = "writeSecret" /\ writeTargetSecret
    <2>1. ec.spec.target \in Names
      BY <1>5 DEF writeTargetSecret, SecretWritable
    <2>2. mutate(CachedSecret(ec.spec.target), ec.spec.keys, token) \in Secrets
      BY <2>1, SpecFields, WindowTypes, MutateType DEF TypeOK, LocalsOK
    <2> QED BY <1>1, <1>2, <1>3, <1>5, <2>1, <2>2 DEF writeTargetSecret
  <1>6. ASSUME NEW m \in Names, DeliverSecret(m)
        PROVE  Len(secw'[n]) <= Len(secw[n]) /\ Secret(n)' = Secret(n)
    <2>1. CASE m = n
      <3>1. Len(secw[n]) > 1 /\ secw'[n] = Tail(secw[n])
        BY <1>t, <1>6, <2>1 DEF DeliverSecret
      <3>2. /\ Len(Tail(secw[n])) = Len(secw[n]) - 1
            /\ Tail(secw[n])[Len(Tail(secw[n]))] = secw[n][Len(secw[n])]
        BY <1>t, <3>1
      <3> QED BY <1>t, <3>1, <3>2 DEF Secret
    <2>2. CASE m # n
      BY <1>t, <1>6, <2>2 DEF DeliverSecret, Secret
    <2> QED BY <2>1, <2>2
  <1>7. ASSUME NEW m \in Names, PutSecret(m, NoSecret)
        PROVE  secw'[n] = Append(secw[n], NoSecret) \/ secw'[n] = secw[n]
    BY <1>2, <1>7, NoSecretType
  <1>8. ASSUME NEW m \in Names, UserEditsSecret(m)
        PROVE  \/ secw'[n] = secw[n]
               \/ \E v \in Secrets : secw'[n] = Append(secw[n], v)
    <2>1. PICK k \in DataKeys :
            PutSecret(m, [Secret(m) EXCEPT !.exists = TRUE, !.data[k] = Foreign])
      BY <1>8 DEF UserEditsSecret
    <2>2. [Secret(m) EXCEPT !.exists = TRUE, !.data[k] = Foreign] \in Secrets
      BY WindowTypes, EditedSecretType
    <2> QED BY <1>2, <2>1, <2>2
  <1>9. CASE secw' = secw
    BY <1>3, <1>9
  <1> QED BY <1>1, <1>3, <1>4, <1>5, <1>6, <1>7, <1>8, <1>9, NoSecretType,
             SecretSteps

\* A replica comes to know of no credential but its own.
LEMMA HandleSteps ==
    ASSUME ReplicaInv, Next
    PROVE  /\ \A h \in Handles' : h = 0 \/ h \in Handles
                                  \/ (pc = "persistHandle" /\ h = token)
           /\ \A h \in revoked' : h \in Handles \cup revoked
  <1> USE DEF ReplicaInv
  <1>l. Len(ecw) \in 1..Len(ecw) /\ 1 \in 1..Len(ecw)
    BY Generation
  <1>d. ECWrite => desired.handle = ec.handle
                   \/ (pc = "persistHandle" /\ desired.handle = token)
    BY DesiredFields DEF ECWrite
  <1>1. ASSUME NEW i \in 1..Len(ecw')
        PROVE  \/ ecw'[i].handle \in Handles
               \/ pc = "persistHandle" /\ ecw'[i].handle = token
    <2>1. CASE ecw' = ecw
      BY <1>1, <2>1 DEF Handles
    <2>2. ASSUME NEW v, PutEC(v)
          PROVE  ecw'[i] = v \/ \E j \in 1..Len(ecw) : ecw'[i] = ecw[j]
      BY <1>1, <2>2 DEF PutEC, TypeOK
    <2>3. CASE DeliverEC
      <3>1. ecw' = Tail(ecw) /\ Len(ecw) > 1
        BY <2>3 DEF DeliverEC
      <3>2. i + 1 \in 1..Len(ecw) /\ ecw'[i] = ecw[i + 1]
        BY <1>1, <3>1 DEF TypeOK
      <3> QED BY <3>2 DEF Handles
    <2>4. CASE Crash
      <3>1. ecw' = <<ecw[Len(ecw)]>>
        BY <2>4 DEF Crash, Server
      <3>2. ecw'[i] = ecw[Len(ecw)]
        BY <1>1, <3>1
      <3> QED BY <1>l, <3>2 DEF Handles
    <2>5. CASE ECWrite
      <3>1. ecw'[i] = desired \/ \E j \in 1..Len(ecw) : ecw'[i] = ecw[j]
        BY <2>2, <2>5 DEF ECWrite
      <3> QED BY <1>d, <2>5, <3>1 DEF Handles
    <2>6. CASE EditSpec
      <3>1. PICK s \in Specs :
              PutEC([Server EXCEPT !.spec = s, !.generation = @ + 1])
        BY <2>6 DEF EditSpec
      <3> DEFINE v == [Server EXCEPT !.spec = s, !.generation = @ + 1]
      <3>2. v.handle = ecw[Len(ecw)].handle
        BY WindowTypes DEF Credentials, Server
      <3>3. PutEC(v)
        BY <3>1
      <3> HIDE DEF v
      <3> QED BY <1>l, <2>2, <3>2, <3>3 DEF Handles
    <2>7. CASE DeleteEC
      <3> DEFINE v == IF Server.finalizer
                      THEN [Server EXCEPT !.deleting = TRUE, !.generation = @ + 1]
                      ELSE [Server EXCEPT !.exists = FALSE]
      <3>1. PutEC(v)
        BY <2>7 DEF DeleteEC
      <3>2. v.handle = ecw[Len(ecw)].handle
        BY WindowTypes DEF Credentials, Server
      <3> HIDE DEF v
      <3> QED BY <1>l, <2>2, <3>1, <3>2 DEF Handles
    <2> QED BY <2>1, <2>3, <2>4, <2>5, <2>6, <2>7, ECSteps
  <1>2. /\ \/ ec'.handle = 0 \/ ec'.handle \in Handles
           \/ pc = "persistHandle" /\ ec'.handle = token
        /\ previous' = 0 \/ previous' \in Handles
    <2>1. CASE EndRun
      BY <2>1 DEF EndRun, NilEC, NewEC
    <2>2. CASE ReadEC
      BY <1>l, <2>2 DEF ReadEC, Cached, Handles
    <2>3. CASE UNCHANGED <<ec, previous>>
      BY <2>3 DEF Handles
    <2>4. CASE ECWrite /\ ec' = desired /\ UNCHANGED previous
      BY <1>d, <2>4 DEF Handles
    <2> QED BY <2>1, <2>2, <2>3, <2>4, LocalSteps
  <1>3. \A h \in revoked' : h \in Handles \cup revoked
    BY RevokedSteps DEF RevokePrevious, RevokeOnDelete, Revoke, Handles
  <1> QED BY <1>1, <1>2, <1>3 DEF Handles

LEMMA HandleBounds ==
    ASSUME ReplicaInv
    PROVE  /\ Len(ledger) \in Nat
           /\ \A h \in Handles : h \in 0..Len(ledger)
           /\ \A h \in InUse \cup revoked : h \in 1..Len(ledger)
  <1> USE DEF ReplicaInv
  <1>1. \A c \in Credentials : c.handle \in Nat
    BY DEF Credentials
  <1>2. /\ \A i \in 1..Len(ecw) : ecw[i].handle \in Nat
        /\ ec.handle \in Nat /\ previous \in Nat /\ Len(ledger) \in Nat
    BY <1>1 DEF TypeOK, LocalsOK
  <1>3. \A h \in Handles : h \in 0..Len(ledger)
    BY <1>2 DEF Handles, HandlesMinted
  <1>4. \A h \in InUse : h \in 1..Len(ledger)
    BY DEF InUse, RunOK
  <1>5. \A h \in revoked : h \in 1..Len(ledger)
    BY DEF TypeOK
  <1> QED BY <1>2, <1>3, <1>4, <1>5

LEMMA UnpublishedStep ==
    ASSUME ReplicaInv, Unpublished, Next
    PROVE  Unpublished'
  <1> SUFFICES ASSUME pc' = "writeSecret"
               PROVE  token' \notin Handles' \cup revoked'
    BY DEF Unpublished
  <1>1. CASE Mint
    <2>1. token' = Len(ledger) + 1 /\ pc = "mint"
      BY <1>1 DEF Mint
    <2> QED BY <2>1, HandleBounds, HandleSteps
  <1>2. CASE UNCHANGED <<pc, token, revoked>>
    <2>1. pc = "writeSecret" /\ token \in InUse
      BY <1>2 DEF InUse, Minted
    <2> QED BY <1>2, <2>1, HandleBounds, HandleSteps DEF Unpublished
  <1>3. ~(WriteSecret \/ PersistHandle \/ UpdateStatus)
    BY DEF WriteSecret, PersistHandle, UpdateStatus, Put
  <1> QED BY <1>1, <1>2, <1>3, MintedSteps DEF Minted

\* What a replica does not know of, the other has minted.
LEMMA UnknownStep ==
    ASSUME ReplicaInv, Next, NEW w \in 1..Len(ledger), Unknown(w)
    PROVE  w \notin Handles' \cup InUse' \cup revoked'
  <1>1. w \notin Handles' \cup revoked'
    BY HandleBounds, HandleSteps DEF Unknown, InUse, Minted
  <1>2. ASSUME pc' \in Minted PROVE w # token'
    <2>1. CASE Mint
      BY <2>1, HandleBounds DEF Mint
    <2>2. CASE ~Mint
      <3>1. pc \in Minted /\ token' = token
        BY <1>2, <2>2, MintedSteps
        DEF WriteSecret, PersistHandle, UpdateStatus, Put, Minted
      <3> QED BY <3>1 DEF Unknown, InUse
    <2> QED BY <2>1, <2>2
  <1> QED BY <1>1, <1>2 DEF InUse

\* A step discloses nothing of what is retired, by either replica.
LEMMA SafeStep ==
    ASSUME ReplicaInv, Unpublished, Next, ~Server.deleting,
           NEW n \in Names, NEW others, Safe(n, others),
           pc = "writeSecret" => token \notin others,
           Retired' \subseteq Retired \cup others,
           NEW t \in TokensIn(Secret(n))'
    PROVE  t \notin revoked' \cup Retired' \cup others
  <1> USE DEF ReplicaInv
  <1>1. revoked' \subseteq revoked \cup Retired
    <2>1. ~RevokeOnDelete
      BY DEF RevokeOnDelete, DeletionFinal, Deleting
    <2> QED BY <2>1, RevokedSteps DEF RevokePrevious, Revoke, Retired
  <1>2. CASE t \in TokensIn(Secret(n))
    BY <1>1, <1>2 DEF Safe
  <1>3. CASE WroteOnly
    <2>1. CASE n = ec.spec.target
      <3>1. t = token /\ pc = "writeSecret"
        BY <1>3, <2>1 DEF WroteOnly
      <3>2. Retired = {} /\ token \notin revoked
        BY <3>1 DEF Retired, Unpublished
      <3> QED BY <1>1, <3>1, <3>2
    <2>2. CASE n # ec.spec.target
      <3>1. Secret(n)' = Secret(n)
        BY <1>3, <2>2 DEF WroteOnly
      <3> QED BY <1>2, <3>1 DEF TokensIn
    <2> QED BY <2>1, <2>2
  <1> QED BY <1>2, <1>3, SecretTokens DEF Shrink

\* Retiring the previous credential begins with a write to the resource.
LEMMA RetiredSteps ==
    ASSUME ReplicaInv, Next
    PROVE  \/ Retired' \subseteq Retired
           \/ UpdateStatus /\ ECWrite /\ Retired' = {previous}
  <1>1. CASE UpdateStatus
    <2>1. ECWrite /\ previous' = previous /\ pc' = "revokePrevious"
      BY <1>1, PutWrites DEF UpdateStatus, Put, ECWrites
    <2> QED BY <1>1, <2>1 DEF Retired
  <1>2. CASE pc' # "revokePrevious"
    BY <1>2 DEF Retired
  <1>3. CASE ~UpdateStatus /\ pc' = "revokePrevious"
    <2>1. UNCHANGED <<pc, previous>>
      BY <1>3, MintedSteps DEF Minted, Mint, WriteSecret, PersistHandle, Put
    <2> QED BY <2>1 DEF Retired
  <1> QED BY <1>1, <1>2, <1>3

LEMMA CurrentSafeStep ==
    ASSUME ReplicaInv, Unpublished, Next, NEW others,
           CurrentSafe(others), CopySafe(others),
           pc = "writeSecret" => token \notin others,
           UpToDate', NEW n \in Names, n = Server'.spec.target,
           NEW t \in TokensIn(Secret(n))'
    PROVE  t \notin revoked' \cup Retired' \cup others
  <1> USE DEF ReplicaInv
  <1>1. CASE UpToDate /\ n = Server.spec.target /\ ~UpdateStatus
    <2>1. Safe(n, others) /\ ~Server.deleting
      BY <1>1 DEF CurrentSafe, UpToDate
    <2>2. Retired' \subseteq Retired
      BY <1>1, RetiredSteps
    <2> QED BY <2>1, <2>2, SafeStep
  <1>2. CASE ECWrite
    <2>1. pc \in ECWrites /\ Server' = desired /\ Server = ec /\ fresh
      BY <1>2, ECWriteServer DEF ECWrite
    <2>2. n = ec.spec.target /\ ~Server.deleting
      BY <2>1, DesiredFields DEF UpToDate
    <2>3. CASE pc = "updateStatus"
      <3>1. Safe(n, others \cup {previous})
        BY <2>1, <2>2, <2>3 DEF CopySafe
      <3>2. Retired' \subseteq Retired \cup (others \cup {previous})
        BY RetiredSteps
      <3>3. t \notin revoked' \cup Retired' \cup (others \cup {previous})
        BY <2>2, <2>3, <3>1, <3>2, SafeStep
      <3> QED BY <3>3
    <2>4. CASE pc # "updateStatus"
      <3>1. UpToDate /\ n = Server.spec.target
        BY <2>1, <2>2, <2>4, DesiredFields DEF UpToDate
      <3> QED BY <1>1, <2>4, <3>1 DEF UpdateStatus
    <2> QED BY <2>3, <2>4
  <1>3. CASE ~ECWrite /\ Server' = Server
    <2>1. ~UpdateStatus
      BY <1>3, PutWrites DEF UpdateStatus, ECWrites
    <2> QED BY <1>1, <1>3, <2>1 DEF UpToDate
  <1> QED BY <1>2, <1>3, ECSteps, ServerKept, EditedNotUpToDate

LEMMA CopySafeStep ==
    ASSUME ReplicaInv, Unpublished, Next, NEW others, CopySafe(others),
           pc = "writeSecret" => token \notin others,
           fresh', pc' \in {"persistHandle", "updateStatus"},
           NEW n \in Names, n = ec'.spec.target, NEW t \in TokensIn(Secret(n))'
    PROVE  t \notin revoked' \cup Retired' \cup (others \cup {previous'})
  <1> USE DEF ReplicaInv
  <1>r. Retired' = {}
    BY DEF Retired
  <1>1. CASE WriteSecret
    <2>1. /\ pc = "writeSecret" /\ writeTargetSecret /\ revoked' = revoked
          /\ UNCHANGED <<ec, previous>>
      BY <1>1 DEF WriteSecret, provider
    <2>2. t = token
      BY <2>1, WriteTokens
    <2>3. token \notin revoked \cup {previous}
      BY <2>1 DEF Unpublished, Handles
    <2> QED BY <1>r, <2>1, <2>2, <2>3
  <1>2. CASE /\ pc \in {"persistHandle", "updateStatus"} /\ fresh
             /\ ec'.spec = ec.spec /\ previous' = previous
    <2>1. ~Server.deleting
      BY <1>2 DEF FreshCopy, Wanted, Minted
    <2>2. Safe(n, others \cup {previous})
      BY <1>2 DEF CopySafe
    <2>3. Retired' \subseteq Retired \cup (others \cup {previous})
      BY <1>r
    <2> QED BY <1>2, <2>1, <2>2, <2>3, SafeStep
  <1>3. CASE PersistHandle
    <2>1. /\ pc = "persistHandle" /\ pc \in ECWrites /\ ec' = desired
          /\ UNCHANGED <<fresh, previous>>
      BY <1>3 DEF PersistHandle, Put, ECWrites
    <2> QED BY <1>2, <2>1, DesiredFields
  <1>4. CASE UNCHANGED <<pc, ec, token, previous, revoked>>
    <2>1. fresh
      <3>1. pc # "idle" /\ ~EndRun /\ ~Reconcile
        BY <1>4 DEF EndRun, Reconcile, ReconcileGone, ReconcileDelete,
             ReconcileNew, ReconcileUnknownProvider, ReconcileSteady,
             ReconcileMint, Dequeue
      <3> QED BY <3>1, LocalSteps
    <2> QED BY <1>2, <1>4, <2>1
  <1>5. ~Mint /\ ~UpdateStatus
    BY DEF Mint, UpdateStatus, Put
  <1> QED BY <1>1, <1>3, <1>4, <1>5, MintedSteps DEF Minted

\* What a replica learns of the other leaves its own invariant alone.
LEMMA LearnsVersion ==
    ASSUME TypeOK, Learns
    PROVE  /\ ecw' \in Seq(Credentials) /\ Len(ecw') >= 1
           /\ \/ ecw' = ecw /\ Server' = Server /\ fresh' = fresh
              \/ /\ fresh' = FALSE /\ Successor(Server')
                 /\ \A i \in 1..Len(ecw') :
                       ecw'[i] = Server' \/ \E j \in 1..Len(ecw) : ecw'[i] = ecw[j]
  <1>1. CASE ecw' = ecw /\ fresh' = fresh
    BY <1>1 DEF TypeOK, Server
  <1>2. ASSUME NEW v, Successor(v), ecw' = Append(ecw, v), fresh' = FALSE
        PROVE  /\ ecw' \in Seq(Credentials) /\ Len(ecw') >= 1 /\ Server' = v
               /\ \A i \in 1..Len(ecw') :
                     ecw'[i] = v \/ \E j \in 1..Len(ecw) : ecw'[i] = ecw[j]
    <2>1. v \in Credentials
      BY <1>2 DEF Successor
    <2>2. PutEC(v)
      BY <1>2 DEF PutEC
    <2>3. ecw' \in Seq(Credentials) /\ Len(ecw') = Len(ecw) + 1 /\ Server' = v
      BY <2>1, <2>2, PutECType
    <2>4. \A i \in 1..Len(ecw') :
            ecw'[i] = v \/ \E j \in 1..Len(ecw) : ecw'[i] = ecw[j]
      BY <1>2, <2>1 DEF TypeOK
    <2> QED BY <2>3, <2>4 DEF TypeOK
  <1> QED BY <1>1, <1>2 DEF Learns

LEMMA LearnsSecrets ==
    ASSUME TypeOK, TokensManaged, Learns
    PROVE  /\ secw' \in [Names -> Seq(Secrets)]
           /\ \A n \in Names : Len(secw'[n]) >= 1
           /\ TokensManaged'
  <1>1. ASSUME NEW n \in Names
        PROVE  /\ secw'[n] \in Seq(Secrets) /\ Len(secw'[n]) >= 1
               /\ \A i \in 1..Len(secw'[n]) : Managed(secw'[n][i])
    <2>t. secw[n] \in Seq(Secrets) /\ Len(secw[n]) >= 1
      BY DEF TypeOK
    <2>m. \A i \in 1..Len(secw[n]) : Managed(secw[n][i])
      BY DEF TokensManaged, Managed
    <2>1. CASE secw'[n] = secw[n]
      BY <2>t, <2>m, <2>1
    <2>2. ASSUME NEW v \in Secrets, Managed(v), secw'[n] = Append(secw[n], v)
          PROVE  /\ secw'[n] \in Seq(Secrets) /\ Len(secw'[n]) >= 1
                 /\ \A i \in 1..Len(secw'[n]) : Managed(secw'[n][i])
      <3>1. \A i \in 1..Len(secw'[n]) :
              \/ secw'[n][i] = v
              \/ i \in 1..Len(secw[n]) /\ secw'[n][i] = secw[n][i]
        BY <2>t, <2>2
      <3>2. \A i \in 1..Len(secw'[n]) : Managed(secw'[n][i])
        BY <2>m, <2>2, <3>1
      <3> QED BY <2>t, <2>2, <3>2
    <2> QED BY <1>1, <2>1, <2>2 DEF Learns
  <1>2. secw' \in [Names -> Seq(Secrets)]
    BY <1>1 DEF Learns
  <1> QED BY <1>1, <1>2 DEF TokensManaged, Managed

LEMMA LearnsKeeps ==
    ASSUME ReplicaInv, Learns
    PROVE  ReplicaInv'
  <1> USE DEF ReplicaInv
  <1>u. UNCHANGED <<pc, ec, token, previous, started, fail, queue>>
    BY DEF Learns
  <1>l. Len(ledger) \in Nat /\ Len(ledger') \in Nat /\ Len(ledger) <= Len(ledger')
    BY DEF Learns, TypeOK
  <1>1. TypeOK'
    <2>1. fresh' \in BOOLEAN
      BY LearnsVersion DEF TypeOK, LocalsOK
    <2>2. LocalsOK'
      BY <1>u, <2>1 DEF TypeOK, LocalsOK
    <2>3. queued' \in BOOLEAN /\ wakeAt' \in Times /\ retrying' \in BOOLEAN
      BY <1>u DEF TypeOK, queue, timer
    <2>4. /\ now' \in Nat /\ used' \in Nat
          /\ ledger' \in Seq(Tokens) /\ revoked' \subseteq 1..Len(ledger')
      BY DEF Learns
    <2> QED BY <2>2, <2>3, <2>4, LearnsVersion, LearnsSecrets DEF TypeOK
  <1>2. RunOK'
    BY <1>u, <1>l DEF RunOK
  <1>3. FreshCopy'
    BY <1>u, LearnsVersion DEF FreshCopy
  <1>4. Observed'
    BY LearnsVersion DEF Observed, Successor
  <1>5. DeletionFinal'
    <2>1. Server.deleting => Server'.deleting
      BY LearnsVersion DEF Successor
    <2>2. \A i \in 1..Len(ecw') : ecw'[i].deleting => Server'.deleting
      BY <2>1, LearnsVersion DEF DeletionFinal
    <2> QED BY <1>u, <2>1, <2>2 DEF DeletionFinal
  <1>6. HandlesMinted'
    <2>1. \A c \in Credentials : c.handle \in Nat
      BY DEF Credentials
    <2>2. /\ \A i \in 1..Len(ecw) : ecw[i].handle \in Nat
          /\ ec.handle \in Nat /\ previous \in Nat
      BY <2>1 DEF TypeOK, LocalsOK
    <2>3. /\ \A i \in 1..Len(ecw) : ecw[i].handle <= Len(ledger')
          /\ ec.handle <= Len(ledger') /\ previous <= Len(ledger')
      BY <1>l, <2>2 DEF HandlesMinted
    <2>4. \A i \in 1..Len(ecw') : ecw'[i].handle <= Len(ledger')
      BY <2>3, LearnsVersion DEF Successor
    <2> QED BY <1>u, <2>3, <2>4 DEF HandlesMinted
  <1>7. Wanted'
    BY <1>u DEF Wanted
  <1>8. Held'
    <2>1. \A i \in 1..Len(ecw') : ecw'[i].exists => ecw'[i].finalizer
      BY LearnsVersion DEF Held, Successor
    <2> QED BY <1>u, <2>1 DEF Held
  <1> QED BY <1>1, <1>2, <1>3, <1>4, <1>5, <1>6, <1>7, <1>8, LearnsSecrets

LEMMA LearnsUnknown ==
    ASSUME TypeOK, Learns, NEW w, w \notin Handles, w # Server'.handle
    PROVE  w \notin Handles'
  <1>1. \A i \in 1..Len(ecw') : w # ecw'[i].handle
    BY LearnsVersion DEF Handles
  <1>2. ec' = ec /\ previous' = previous
    BY DEF Learns
  <1> QED BY <1>1, <1>2 DEF Handles

LEMMA LearnsCleaned ==
    ASSUME TypeOK, HandlesMinted, Cleaned, Learns
    PROVE  Cleaned'
  <1>1. ec.handle \in Nat /\ ec.handle <= Len(ledger)
    BY DEF HandlesMinted, TypeOK, LocalsOK, Credentials
  <1>2. UNCHANGED <<pc, ec>> /\ revoked \subseteq revoked'
        /\ \A t \in 1..Len(ledger) : ledger'[t] = ledger[t]
    BY DEF Learns
  <1>3. ec.handle # 0 => ledger'[ec.handle] = ledger[ec.handle]
    BY <1>1, <1>2 DEF TypeOK
  <1> QED BY <1>2, <1>3 DEF Cleaned, Revocable

\* The credential in hand before it is published: just minted, or before.
LEMMA FirstInHand ==
    ASSUME Next, pc' = "writeSecret"
    PROVE  token' = Len(ledger) + 1 \/ (pc = "writeSecret" /\ token' = token)
  BY MintedSteps DEF Minted, Mint, WriteSecret, PersistHandle, UpdateStatus, Put

\* What the resource records last, and what its deletion leaves.
LEMMA ReplicaGone ==
    ASSUME ReplicaInv, Cleaned, RevokedWhenGone, Next
    PROVE  RevokedWhenGone'
  <1>1. FinalizerBeforeMint
    BY Generation DEF ReplicaInv, Held, FinalizerBeforeMint, Server
  <1> QED BY <1>1, RevokedWhenGoneStep DEF ReplicaInv, Wanted

LEMMA StartReplica ==
    ASSUME NEW c, Starts(c), c.finalizer
    PROVE  ReplicaInv /\ Unpublished /\ Cleaned
  <1>1. ecw = <<c>> /\ ec = NilEC /\ pc = "idle"
    BY DEF Starts
  <1>2. \A i \in 1..Len(ecw) : ecw[i] = c
    BY <1>1
  <1>3. ~ec.exists
    BY <1>1 DEF NilEC, NewEC
  <1>4. Wanted /\ Held
    BY <1>1, <1>2, <1>3 DEF Wanted, Held, Minted
  <1>5. Unpublished /\ Cleaned
    BY <1>1 DEF Unpublished, Cleaned
  <1> QED BY <1>4, <1>5, StartIInv DEF IInv, ReplicaInv
=============================================================================
