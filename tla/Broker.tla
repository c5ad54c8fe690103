------------------------------- MODULE Broker -------------------------------
(***************************************************************************)
(* The EphemeralCredential controller: one EphemeralCredential, the        *)
(* Secrets it may target, the API server with the informer caches the      *)
(* controller reads through, the work queue that decides when Reconcile    *)
(* runs, and the credentials the provider has handed out.                  *)
(*                                                                         *)
(* Every API call that writes and every provider call of Reconcile is one  *)
(* action, so users, the garbage collector, the informers and the clock    *)
(* may act between any two of them.  Reads are served by the caches; a     *)
(* read is part of the call it prepares.                                   *)
(***************************************************************************)
EXTENDS RotationWindow, TargetSecret, Sequences

CONSTANTS
    Names,              \* names of Secrets in the credential's namespace
    Specs,              \* the specs users write
    InitialSecrets,     \* what the namespace may hold at first: [Names -> Secret]
    Registered,         \* providers in the Registry; {"github-app"} in v1
    Lifetimes,          \* lifetimes the provider grants
    BackoffDelays,      \* delays of the rate limiter
    Disturbances,       \* what users and failures do in this instance
    MaxDisturbances,    \* bound on how often they do it
    MaxTokens,          \* how many credentials the provider grants at most
    MaxTime,            \* bound of the clock
    Prompt              \* TRUE: time stands still while there is work to do

Kinds == {"editSpec", "deleteEC", "deleteSecret", "editSecret", "crash",
          "apiError", "lostReply", "mintFail", "revokeFail", "resync"}

SpecType == [provider : STRING, target : Names \cup {""}, keys : KeyMaps,
             rotateBeforeSeconds : Int]

ASSUME NamesAssumption == "" \notin Names
ASSUME SpecsAssumption == Specs # {} /\ Specs \subseteq SpecType
ASSUME InitialSecretsAssumption ==
    \A s \in InitialSecrets :
        /\ s \in [Names -> Secrets]
        /\ \A n \in Names :
              /\ TokensIn(s[n]) = {} /\ s[n].owner # "ec"
              /\ ~s[n].exists => s[n] = NoSecret
ASSUME RegisteredAssumption == Registered \subseteq STRING
ASSUME LifetimesAssumption == Lifetimes \subseteq Nat \ {0}
ASSUME BackoffAssumption == BackoffDelays # {} /\ BackoffDelays \subseteq Nat
ASSUME DisturbancesAssumption == Disturbances \subseteq Kinds
ASSUME BoundsAssumption ==
    MaxDisturbances \in Nat /\ MaxTokens \in Nat /\ MaxTime \in Nat
ASSUME PromptAssumption == Prompt \in BOOLEAN

VARIABLES
    now,        \* the clock
    ecw,        \* versions of the EphemeralCredential: ecw[1] is what the
                \* informer cache holds, the last one what the API server holds
    secw,       \* the same window for each Secret
    pc,         \* where Reconcile stands: the call it makes next
    ec,         \* Reconcile's copy of the EphemeralCredential
    fresh,      \* whether that copy carries the current resourceVersion
    token,      \* the credential Reconcile has minted, 0 if none
    previous,   \* previousHandle, 0 if none
    started,    \* now as Reconcile read it
    fail,       \* what failStatus decided: credentialStillValid, retryable
    queued,     \* whether the key is in the work queue
    wakeAt,     \* when the delaying queue adds the key, NoTime if never
    retrying,   \* whether the rate limiter remembers the key
    ledger,     \* the credentials the provider has created
    revoked,    \* those it has revoked
    used        \* how many disturbances have happened

locals == <<pc, ec, fresh, token, previous, started, fail>>
cluster == <<ecw, secw>>
timer == <<wakeAt, retrying>>
queue == <<queued, timer>>
provider == <<ledger, revoked>>
vars == <<now, cluster, locals, queue, provider, used>>

----------------------------------------------------------------------------
(* Objects. *)

States == {"", "Pending", "Active", "Expiring", "Failed"}

Times == {t \in Int : t >= NoTime}

Statuses == [state : States, ready : {"", "True", "False"}, expiresAt : Times,
             lastRotatedAt : Times, observedGeneration : Nat]

\* handle is the last-credential-handle annotation: a token, 0 for none.
Credentials == [exists : BOOLEAN, deleting : BOOLEAN, finalizer : BOOLEAN,
                generation : Nat, spec : Specs, handle : Nat,
                status : Statuses]

Tokens == [provider : STRING, expiry : Nat, mintedAt : Nat]

NoStatus == [state |-> "", ready |-> "", expiresAt |-> NoTime,
             lastRotatedAt |-> NoTime, observedGeneration |-> 0]

NewEC(s) == [exists |-> TRUE, deleting |-> FALSE, finalizer |-> FALSE,
             generation |-> 1, spec |-> s, handle |-> 0, status |-> NoStatus]

\* The resource as the first reconcile leaves it, before anything is minted.
AcceptedEC(s) ==
    [NewEC(s) EXCEPT !.finalizer = TRUE, !.status.state = "Pending",
                     !.status.ready = "False"]

\* The value of Reconcile's locals while it does not run.
NilEC == [NewEC(CHOOSE s \in Specs : TRUE) EXCEPT !.exists = FALSE]
NoFail == [valid |-> FALSE, retry |-> FALSE]

Server == ecw[Len(ecw)]
Cached == ecw[1]
Secret(n) == secw[n][Len(secw[n])]
CachedSecret(n) == secw[n][1]

\* A Secret of this name is in the cache; there is none with an empty name.
targetSecretExists(n) == n \in Names /\ CachedSecret(n).exists

----------------------------------------------------------------------------
(* Writing to the API server. *)

PutEC(v) == ecw' = Append(ecw, v)
PutSecret(n, v) == secw' = [secw EXCEPT ![n] = Append(@, v)]

\* One of the things users and failures do, within the bound.
Disturb(kind) ==
    /\ kind \in Disturbances
    /\ used < MaxDisturbances
    /\ used' = used + 1

----------------------------------------------------------------------------
(* How Reconcile ends. *)

Earliest(a, b) == IF a = NoTime \/ b < a THEN b ELSE a

EndRun ==
    /\ pc' = "idle"
    /\ ec' = NilEC
    /\ fresh' = FALSE
    /\ token' = 0
    /\ previous' = 0
    /\ started' = NoTime
    /\ fail' = NoFail

\* Result{} and a nil error: nothing is scheduled, and the rate limiter
\* forgets the key.
ReturnNil == EndRun /\ retrying' = FALSE /\ UNCHANGED wakeAt

\* The delaying queue keeps the earlier of two times.
Schedule(d) == wakeAt' = Earliest(wakeAt, now + d)

\* RequeueAfter: the rate limiter forgets the key.
ReturnAfter(d) == EndRun /\ retrying' = FALSE /\ Schedule(d)

\* An error or Requeue: the rate limiter remembers the key and chooses the
\* delay.
ForgetMutant == ReturnNil
ReturnRateLimited ==
    EndRun /\ retrying' = TRUE /\ \E d \in BackoffDelays : Schedule(d)

----------------------------------------------------------------------------
(* Reconcile, up to the first call that leaves the process. *)

needsMint(c) ==
    \/ c.status.expiresAt = NoTime
    \/ c.generation # c.status.observedGeneration
    \/ windowOpen(now, statusWindow(c.spec.rotateBeforeSeconds, c.status),
                  c.status.expiresAt)

\* Take the key off the queue.
Dequeue ==
    /\ pc = "idle"
    /\ queued
    /\ queued' = FALSE
    /\ UNCHANGED <<now, cluster, provider, used>>

\* Reconcile keeps running with the object as the cache has it.
ReadEC ==
    /\ ec' = Cached
    /\ fresh' = (Len(ecw) = 1)
    /\ token' = 0
    /\ previous' = Cached.handle
    /\ started' = now
    /\ UNCHANGED timer

GoTo(next) == pc' = next /\ fail' = NoFail

\* Not found, or deleted without our finalizer: nothing to do.
ReconcileGone ==
    /\ Dequeue
    /\ ~Cached.exists \/ (Cached.deleting /\ ~Cached.finalizer)
    /\ ReturnNil

ReconcileDelete ==
    /\ Dequeue
    /\ Cached.exists /\ Cached.deleting /\ Cached.finalizer
    /\ ReadEC /\ GoTo("revoke")

\* Add the finalizer before minting anything.
NeverLacksMutant == FALSE
LacksFinalizer == ~Cached.finalizer

ReconcileNew ==
    /\ Dequeue
    /\ Cached.exists /\ ~Cached.deleting /\ LacksFinalizer
    /\ ReadEC /\ GoTo("addFinalizer")

\* The rest of Reconcile is for a credential that is wanted and ours.
Ours == Cached.exists /\ ~Cached.deleting /\ ~LacksFinalizer

\* failStatus up to its first call: is the credential that status describes
\* still valid?  If there was one and it is not, its Secret goes first.
KeepExpiredMutant(c, retry) ==
    /\ fail' = [valid |-> c.status.expiresAt # NoTime /\ now < c.status.expiresAt,
                retry |-> retry]
    /\ pc' = "failStatus"
failStatus(c, retry) ==
    LET minted == c.status.expiresAt # NoTime
        valid == minted /\ now < c.status.expiresAt
    IN  /\ fail' = [valid |-> valid, retry |-> retry]
        /\ pc' = IF minted /\ ~valid THEN "deleteExpired" ELSE "failStatus"

ReconcileUnknownProvider ==
    /\ Dequeue
    /\ Ours
    /\ Cached.spec.provider \notin Registered
    /\ ReadEC /\ failStatus(Cached, FALSE)

\* The credential is due, or it is not but its Secret is missing.
IgnoreMissingMutant(c) == needsMint(c)
MustMint(c) == needsMint(c) \/ ~targetSecretExists(c.spec.target)

\* Valid, outside its window and the Secret is there: sleep until the window
\* opens.
RotationDelay(c) ==
    requeueAfter(c.status.expiresAt,
                 statusWindow(c.spec.rotateBeforeSeconds, c.status), now)

ReconcileSteady ==
    /\ Dequeue
    /\ Ours
    /\ Cached.spec.provider \in Registered
    /\ ~MustMint(Cached)
    /\ ReturnAfter(RotationDelay(Cached))

ReconcileMint ==
    /\ Dequeue
    /\ Ours
    /\ Cached.spec.provider \in Registered
    /\ MustMint(Cached)
    /\ ReadEC /\ GoTo("mint")

----------------------------------------------------------------------------
(* Reconcile's writes to the EphemeralCredential.  Each sends the whole    *)
(* local copy and is refused when that copy is not the current version.    *)

withFinalizer == [ec EXCEPT !.finalizer = TRUE]

pendingStatus ==
    [ec EXCEPT !.status.state = "Pending", !.status.ready = "False"]

withHandle == [ec EXCEPT !.handle = token]

activeStatus ==
    [ec EXCEPT !.status =
        [state |-> "Active", ready |-> "True",
         expiresAt |-> Persisted(ledger[token].expiry),
         lastRotatedAt |-> Persisted(started),
         observedGeneration |-> ec.generation]]

failedStatus ==
    [ec EXCEPT !.status.state = IF fail.valid THEN "Expiring" ELSE "Failed",
               !.status.ready = IF fail.valid THEN "True" ELSE "False"]

\* Nothing else holds the object once our finalizer is off.
withoutFinalizer == [ec EXCEPT !.finalizer = FALSE, !.exists = FALSE]

desired ==
    CASE pc = "addFinalizer"    -> withFinalizer
      [] pc = "setPending"      -> pendingStatus
      [] pc = "persistHandle"   -> withHandle
      [] pc = "updateStatus"    -> activeStatus
      [] pc = "failStatus"      -> failedStatus
      [] pc = "removeFinalizer" -> withoutFinalizer

ECWrites == {"addFinalizer", "setPending", "persistHandle", "updateStatus",
             "failStatus", "removeFinalizer"}

\* Optimistic concurrency: the write carries the resourceVersion read.
NoConflictMutant == Server.exists
Accepted == fresh

\* An update that changes nothing is not stored, and no watch hears of it.
\* What a failure's message changes is not modelled.
StoreEC ==
    \/ PutEC(desired) /\ (desired # Server \/ pc = "failStatus")
    \/ desired = Server /\ UNCHANGED ecw

\* The write succeeds and its reply replaces the local copy.
Put(next) ==
    /\ Accepted
    /\ StoreEC
    /\ ec' = desired
    /\ pc' = next
    /\ UNCHANGED <<now, secw, fresh, token, previous, started, fail, queue,
                   provider, used>>

\* Update conflicts, or the API server fails: Reconcile returns the error.
ECWriteFails ==
    /\ pc \in ECWrites
    /\ (~Accepted /\ UNCHANGED used) \/ Disturb("apiError")
    /\ ReturnRateLimited
    /\ UNCHANGED <<now, cluster, queued, provider>>

\* The write is stored and its reply lost: Reconcile returns an error too.
ECWriteLost ==
    /\ pc \in ECWrites
    /\ Accepted
    /\ Disturb("lostReply")
    /\ StoreEC
    /\ ReturnRateLimited
    /\ UNCHANGED <<now, secw, queued, provider>>

AddFinalizer ==
    /\ pc = "addFinalizer"
    /\ Accepted
    /\ PutEC(desired)
    /\ IF ec.status.state = ""
       THEN /\ pc' = "setPending"
            /\ ec' = desired
            /\ UNCHANGED <<fresh, token, previous, started, fail, timer>>
       ELSE ReturnRateLimited
    /\ UNCHANGED <<now, secw, queued, provider, used>>

SetPending ==
    /\ pc = "setPending"
    /\ Accepted
    /\ PutEC(desired)
    /\ ReturnRateLimited
    /\ UNCHANGED <<now, secw, queued, provider, used>>

PersistHandle == pc = "persistHandle" /\ Put("updateStatus")

UpdateStatus == pc = "updateStatus" /\ Put("revokePrevious")

FailStatus ==
    /\ pc = "failStatus"
    /\ Accepted
    /\ StoreEC
    /\ IF fail.retry THEN ReturnRateLimited ELSE ReturnNil
    /\ UNCHANGED <<now, secw, queued, provider, used>>

RemoveFinalizer ==
    /\ pc = "removeFinalizer"
    /\ Accepted
    /\ PutEC(desired)
    /\ ReturnNil
    /\ UNCHANGED <<now, secw, queued, provider, used>>

----------------------------------------------------------------------------
(* Minting and publishing. *)

\* failStatus called in the middle of a reconcile, after its own reads.
Fail ==
    /\ failStatus(ec, TRUE)
    /\ UNCHANGED <<ec, fresh, token, previous, started>>

\* The only provider whose scope can be built, registered or not.
buildScope(p) == p = "github-app"

\* The provider creates a credential.
Grant(l) ==
    /\ Len(ledger) < MaxTokens
    /\ ledger' = Append(ledger, [provider |-> ec.spec.provider,
                                 expiry |-> now + l, mintedAt |-> now])
    /\ UNCHANGED revoked

Mint ==
    /\ pc = "mint"
    /\ buildScope(ec.spec.provider)
    /\ \E l \in Lifetimes : Grant(l)
    /\ token' = Len(ledger) + 1
    /\ pc' = "writeSecret"
    /\ UNCHANGED <<now, cluster, ec, fresh, previous, started, fail, queue,
                   used>>

\* The scope cannot be built, the provider refuses or cannot be reached.
MintFails ==
    /\ pc = "mint"
    /\ \/ ~buildScope(ec.spec.provider) /\ UNCHANGED used
       \/ Len(ledger) = MaxTokens /\ UNCHANGED used
       \/ Disturb("mintFail")
    /\ Fail
    /\ UNCHANGED <<now, cluster, queue, provider>>

\* The credential is created and the reply with it lost or unreadable.
MintLost ==
    /\ pc = "mint"
    /\ buildScope(ec.spec.provider)
    /\ Disturb("lostReply")
    /\ \E l \in Lifetimes : Grant(l)
    /\ Fail
    /\ UNCHANGED <<now, cluster, queue>>

\* CreateOrUpdate: create if the cache has no such Secret, otherwise update
\* the cached version; refused when the server disagrees with the cache or
\* when somebody else controls the Secret.
TakeOverMutant(n) ==
    /\ n \in Names
    /\ Len(secw[n]) = 1 \/ (~CachedSecret(n).exists /\ ~Secret(n).exists)
SecretWritable(n) ==
    /\ n \in Names
    /\ CachedSecret(n).owner # "other"
    /\ Len(secw[n]) = 1 \/ (~CachedSecret(n).exists /\ ~Secret(n).exists)

writeTargetSecret ==
    /\ SecretWritable(ec.spec.target)
    /\ PutSecret(ec.spec.target,
                 mutate(CachedSecret(ec.spec.target), ec.spec.keys, token))

WriteSecret ==
    /\ pc = "writeSecret"
    /\ writeTargetSecret
    /\ pc' = "persistHandle"
    /\ UNCHANGED <<now, ecw, ec, fresh, token, previous, started, fail, queue,
                   provider, used>>

SwallowErrorMutant ==
    /\ pc = "writeSecret"
    /\ (~SecretWritable(ec.spec.target) /\ UNCHANGED used) \/ Disturb("apiError")
    /\ pc' = "persistHandle"
    /\ UNCHANGED <<now, cluster, ec, fresh, token, previous, started, fail,
                   queue, provider>>
WriteSecretFails ==
    /\ pc = "writeSecret"
    /\ (~SecretWritable(ec.spec.target) /\ UNCHANGED used) \/ Disturb("apiError")
    /\ Fail
    /\ UNCHANGED <<now, cluster, queue, provider>>

WriteSecretLost ==
    /\ pc = "writeSecret"
    /\ Disturb("lostReply")
    /\ writeTargetSecret
    /\ Fail
    /\ UNCHANGED <<now, ecw, queue, provider>>

\* A handle is only passed to the provider that issued it.
AnyHandleMutant(h, c) == c.spec.provider \in Registered
OtherProviderMutant(h, c) == h # 0 /\ c.spec.provider \in Registered
Revocable(h, c) ==
    /\ h # 0
    /\ c.spec.provider \in Registered
    /\ ledger[h].provider = c.spec.provider

\* Best effort: an error is logged and forgotten.
Revoke(h, c) ==
    /\ \/ Revocable(h, c) /\ revoked' = revoked \cup {h} /\ UNCHANGED used
       \/ Revocable(h, c) /\ Disturb("revokeFail") /\ UNCHANGED revoked
       \/ ~Revocable(h, c) /\ UNCHANGED <<revoked, used>>
    /\ UNCHANGED ledger

\* When the next reconcile is scheduled, from the clock read at the start.
NextRotation ==
    LET expiry == ledger[token].expiry
    IN  requeueAfter(expiry,
            clampRotateBefore(
                requestedRotateBefore(ec.spec.rotateBeforeSeconds),
                expiry - started),
            started)

RevokeRecordedMutant ==
    /\ pc = "revokePrevious"
    /\ Revoke(ec.handle, ec)
    /\ ReturnAfter(NextRotation)
    /\ UNCHANGED <<now, cluster, queued>>
RevokePrevious ==
    /\ pc = "revokePrevious"
    /\ Revoke(previous, ec)
    /\ ReturnAfter(NextRotation)
    /\ UNCHANGED <<now, cluster, queued>>

----------------------------------------------------------------------------
(* Removing the Secret. *)

\* Delete what the cache shows; a Secret the cache does not show is left.
deleteTargetSecret(n) ==
    IF targetSecretExists(n) /\ Secret(n).exists
    THEN PutSecret(n, NoSecret)
    ELSE UNCHANGED secw

\* In failStatus an error of the deletion is only logged.
DeleteExpired ==
    /\ pc = "deleteExpired"
    /\ \/ deleteTargetSecret(ec.spec.target) /\ UNCHANGED used
       \/ Disturb("apiError") /\ UNCHANGED secw
    /\ pc' = "failStatus"
    /\ UNCHANGED <<now, ecw, ec, fresh, token, previous, started, fail, queue,
                   provider>>

RevokeActiveMutant ==
    /\ pc = "revoke"
    /\ Revoke(IF ec.status.state = "Active" THEN ec.handle ELSE 0, ec)
    /\ pc' = "deleteSecret"
    /\ UNCHANGED <<now, cluster, ec, fresh, token, previous, started, fail,
                   queue>>
RevokeOnDelete ==
    /\ pc = "revoke"
    /\ Revoke(ec.handle, ec)
    /\ pc' = "deleteSecret"
    /\ UNCHANGED <<now, cluster, ec, fresh, token, previous, started, fail,
                   queue>>

DeleteSecret ==
    /\ pc = "deleteSecret"
    /\ deleteTargetSecret(ec.spec.target)
    /\ pc' = "removeFinalizer"
    /\ UNCHANGED <<now, ecw, ec, fresh, token, previous, started, fail, queue,
                   provider, used>>

DeleteSecretFails ==
    /\ pc = "deleteSecret"
    /\ Disturb("apiError")
    /\ ReturnRateLimited
    /\ UNCHANGED <<now, cluster, queued, provider>>

----------------------------------------------------------------------------
(* The work queue, the informers and the clock. *)

\* An event of the EphemeralCredential reaches the cache and the queue.
DeliverEC ==
    /\ Len(ecw) > 1
    /\ ecw' = Tail(ecw)
    /\ queued' = TRUE
    /\ UNCHANGED <<now, secw, locals, timer, provider, used>>

\* A Secret's event is enqueued for its owner, before or after the change.
DeletionUnseenMutant(old, new) == new.owner = "ec"
Enqueues(old, new) == old.owner = "ec" \/ new.owner = "ec"

DeliverSecret(n) ==
    /\ Len(secw[n]) > 1
    /\ secw' = [secw EXCEPT ![n] = Tail(@)]
    /\ queued' = (queued \/ Enqueues(secw[n][1], secw[n][2]))
    /\ UNCHANGED <<now, ecw, locals, timer, provider, used>>

TimerFires ==
    /\ wakeAt # NoTime /\ wakeAt <= now
    /\ wakeAt' = NoTime
    /\ queued' = TRUE
    /\ UNCHANGED <<now, cluster, locals, retrying, provider, used>>

\* The informers replay their caches every ten hours.
Resync ==
    /\ Disturb("resync")
    /\ queued' = TRUE
    /\ UNCHANGED <<now, cluster, locals, timer, provider>>

\* No reconcile runs or is due, and the caches are up to date.
Settled ==
    /\ pc = "idle" /\ ~queued
    /\ ~(wakeAt # NoTime /\ wakeAt <= now)
    /\ Len(ecw) = 1
    /\ \A n \in Names : Len(secw[n]) = 1

Tick ==
    /\ now < MaxTime
    /\ Prompt => Settled
    /\ now' = now + 1
    /\ UNCHANGED <<cluster, locals, queue, provider, used>>

----------------------------------------------------------------------------
(* Users, the garbage collector and the process itself. *)

EditSpec ==
    /\ Disturb("editSpec")
    /\ Server.exists
    /\ \E s \in Specs \ {Server.spec} :
         PutEC([Server EXCEPT !.spec = s, !.generation = @ + 1])
    /\ fresh' = FALSE
    /\ UNCHANGED <<now, secw, pc, ec, token, previous, started, fail, queue,
                   provider>>

DeleteEC ==
    /\ Disturb("deleteEC")
    /\ Server.exists /\ ~Server.deleting
    /\ PutEC(IF Server.finalizer
             THEN [Server EXCEPT !.deleting = TRUE, !.generation = @ + 1]
             ELSE [Server EXCEPT !.exists = FALSE])
    /\ fresh' = FALSE
    /\ UNCHANGED <<now, secw, pc, ec, token, previous, started, fail, queue,
                   provider>>

UserDeletesSecret(n) ==
    /\ Disturb("deleteSecret")
    /\ Secret(n).exists
    /\ PutSecret(n, NoSecret)
    /\ UNCHANGED <<now, ecw, locals, queue, provider>>

\* Somebody writes a value of their own under a key, creating the Secret if
\* need be.
UserEditsSecret(n) ==
    /\ Disturb("editSecret")
    /\ \E k \in DataKeys :
         /\ Secret(n).data[k] # Foreign
         /\ PutSecret(n, [Secret(n) EXCEPT !.exists = TRUE,
                                           !.data[k] = Foreign])
    /\ UNCHANGED <<now, ecw, locals, queue, provider>>

\* Owner references: what the credential controlled goes after it.
GarbageCollect(n) ==
    /\ ~Server.exists
    /\ Secret(n).exists /\ Secret(n).owner = "ec"
    /\ PutSecret(n, NoSecret)
    /\ UNCHANGED <<now, ecw, locals, queue, provider, used>>

\* The process dies between any two steps and starts again with fresh caches
\* and an empty queue, to which the initial list adds the key.
Crash ==
    /\ Disturb("crash")
    /\ EndRun
    /\ ecw' = <<Server>>
    /\ secw' = [n \in Names |-> <<Secret(n)>>]
    /\ queued' = TRUE
    /\ wakeAt' = NoTime
    /\ retrying' = FALSE
    /\ UNCHANGED <<now, provider>>

----------------------------------------------------------------------------
Init ==
    /\ now = 0
    /\ \E s \in Specs : ecw = <<NewEC(s)>>
    /\ \E secrets \in InitialSecrets : secw = [n \in Names |-> <<secrets[n]>>]
    /\ pc = "idle"
    /\ ec = NilEC
    /\ fresh = FALSE
    /\ token = 0
    /\ previous = 0
    /\ started = NoTime
    /\ fail = NoFail
    /\ queued = TRUE
    /\ wakeAt = NoTime
    /\ retrying = FALSE
    /\ ledger = <<>>
    /\ revoked = {}
    /\ used = 0

Reconcile ==
    \/ ReconcileGone \/ ReconcileDelete \/ ReconcileNew
    \/ ReconcileUnknownProvider \/ ReconcileSteady \/ ReconcileMint

\* The calls a running reconcile makes.
Calls ==
    \/ AddFinalizer \/ SetPending
    \/ Mint \/ MintFails \/ MintLost
    \/ WriteSecret \/ WriteSecretFails \/ WriteSecretLost
    \/ PersistHandle \/ UpdateStatus \/ RevokePrevious
    \/ DeleteExpired \/ FailStatus
    \/ RevokeOnDelete \/ DeleteSecret \/ DeleteSecretFails \/ RemoveFinalizer
    \/ ECWriteFails \/ ECWriteLost

Deliveries == DeliverEC \/ TimerFires \/ \E n \in Names : DeliverSecret(n)

Users ==
    \/ EditSpec \/ DeleteEC
    \/ \E n \in Names : UserDeletesSecret(n) \/ UserEditsSecret(n)

Next ==
    \/ Reconcile \/ Calls \/ Deliveries \/ Users
    \/ Resync \/ Crash \/ Tick
    \/ \E n \in Names : GarbageCollect(n)

Spec == Init /\ [][Next]_vars

\* The process runs and its watches deliver; so does the garbage collector,
\* and the clock goes on.  Users and failures owe nothing.
Fairness ==
    /\ WF_vars(Reconcile) /\ WF_vars(Calls) /\ WF_vars(Tick)
    /\ WF_vars(DeliverEC) /\ WF_vars(TimerFires)
    /\ \A n \in Names : WF_vars(DeliverSecret(n)) /\ WF_vars(GarbageCollect(n))

FairSpec == Spec /\ Fairness

----------------------------------------------------------------------------
(* The provider as Reconcile uses it. *)

issued == [i \in 1..Len(ledger) |->
             [provider |-> ledger[i].provider, expiry |-> ledger[i].expiry]]

\* The handle that Revoke is called with next, 0 if it is not called.
revoking ==
    LET h == CASE pc = "revoke" -> ec.handle
               [] pc = "revokePrevious" -> previous
               [] OTHER -> 0
    IN  IF Revocable(h, ec) THEN h ELSE 0

minting == pc = "mint" /\ buildScope(ec.spec.provider)

openCall ==
    [op |-> IF minting THEN "mint" ELSE IF revoking # 0 THEN "revoke" ELSE "none",
     provider |-> IF minting \/ revoking # 0 THEN ec.spec.provider ELSE "",
     handle |-> revoking]

Contract == INSTANCE Provider WITH
    ledger <- issued, call <- openCall, minted <- token

----------------------------------------------------------------------------
(* Properties. *)

Locations == ECWrites \cup {"idle", "mint", "writeSecret", "revokePrevious",
                            "deleteExpired", "revoke", "deleteSecret"}

LocalsOK ==
    /\ pc \in Locations
    /\ ec \in Credentials
    /\ fresh \in BOOLEAN
    /\ token \in Nat
    /\ previous \in Nat
    /\ started \in Times
    /\ fail \in [valid : BOOLEAN, retry : BOOLEAN]

\* Every variable has its type, no window is empty, and only credentials the
\* provider created are revoked.
TypeOK ==
    /\ now \in Nat
    /\ ecw \in Seq(Credentials) /\ Len(ecw) >= 1
    /\ secw \in [Names -> Seq(Secrets)] /\ \A n \in Names : Len(secw[n]) >= 1
    /\ LocalsOK
    /\ queued \in BOOLEAN
    /\ wakeAt \in Times
    /\ retrying \in BOOLEAN
    /\ ledger \in Seq(Tokens)
    /\ revoked \subseteq 1..Len(ledger)
    /\ used \in Nat

\* The credential described by status is the one of the current spec.
UpToDate ==
    /\ Server.exists /\ ~Server.deleting
    /\ Server.spec.target \in Names
    /\ Server.status.expiresAt # NoTime
    /\ Server.generation = Server.status.observedGeneration

Target == Secret(Server.spec.target)

\* Revoke comes after the new credential is published (Reconcile revokes
\* previousHandle last, "so consumers never see a gap"): once the controller
\* has handled the current spec, its Secret never holds a revoked token,
\* whatever fails, crashes or is edited in between.
PublishedNotRevoked == UpToDate => TokensIn(Target) \cap revoked = {}

\* writeTargetSecret drops the keys an earlier mapping wrote: once the
\* current spec has been handled, its Secret discloses tokens only under the
\* keys that spec maps, and all of them are one and the same token.
NoStrandedKeys ==
    UpToDate => \E t \in 0..Len(ledger) :
        \A k \in DataKeys :
            Target.data[k] \in {Empty, Foreign}
            \/ (k \in written(Server.spec.keys) /\ Target.data[k] = t)

\* status.expiresAt is what rotation and consumers go by: with a provider
\* that grants a fixed lifetime, the token in the Secret lives at least as
\* long as status says, also when a later write of a reconcile was lost.
StatusNotAheadOfSecret ==
    UpToDate => \A t \in TokensIn(Target) :
                    ledger[t].expiry >= Server.status.expiresAt

\* The finalizer is added "before minting anything": no credential exists for
\* a resource that could vanish without the controller's cleanup.
FinalizerBeforeMint ==
    ledger # <<>> /\ Server.exists => Server.finalizer

\* reconcileDelete revokes the recorded credential before it lets the
\* resource go: the handle revoked is the one recorded at the end, although
\* it was read from a cache, and no failed or repeated attempt skips it.
\* (Revocation is best effort: for instances where Revoke does not fail.)
RevokedWhenGone ==
    ~Server.exists /\ Revocable(Server.handle, Server)
        => Server.handle \in revoked

\* Mint is only called for a resource that exists: no credential is created
\* for one whose cleanup has already run.
MintsOnlyForExisting ==
    [][Len(ledger') > Len(ledger) => Server.exists]_vars

\* Whenever nothing is running or about to run, somebody will wake the
\* controller: a deletion that is not finished and a credential not yet
\* handled have a retry scheduled,
RetryScheduled ==
    /\ Settled
    /\ Server.exists
    /\ Server.deleting \/ Server.spec.provider \in Registered
    => wakeAt # NoTime

\* and a credential that status describes is looked at before it expires, no
\* later than MinRequeueAfter into its window, or, after a failure, within one
\* delay of the rate limiter.
RotationBound(c) ==
    c.status.expiresAt + MinRequeueAfter
        - statusWindow(c.spec.rotateBeforeSeconds, c.status)

RetrySoon == retrying /\ \E d \in BackoffDelays : wakeAt <= now + d

RotationScheduled ==
    /\ Settled
    /\ UpToDate
    /\ Server.spec.provider \in Registered
    => wakeAt # NoTime /\ (RetrySoon \/ wakeAt < RotationBound(Server))

\* No path through Reconcile, not even one that fails, leaves the controller
\* asleep with work to do or asleep for too long.
WakeupScheduled == RetryScheduled /\ RotationScheduled

\* "Consumers reading the Secret see updated contents with no interruption":
\* the controller has caught up over a resource whose provider it knows and
\* is not going to try again only when the mapped keys hold a token that is
\* neither expired nor revoked.  So it is through rotations, spec changes,
\* deleted Secrets, failures and retries, until the next rotation.
ServedWhenSettled ==
    /\ Settled /\ ~retrying
    /\ Server.exists /\ ~Server.deleting
    /\ Server.spec.provider \in Registered
    => /\ Server.spec.target \in Names
       /\ \A k \in written(Server.spec.keys) :
             /\ Target.data[k] \in (1..Len(ledger)) \ revoked
             /\ now < ledger[Target.data[k]].expiry

\* clampRotateBefore exists so that a short grant does not re-mint "on every
\* reconcile": looking at the current object, with status recording the last
\* credential and its Secret in place, Reconcile decides to mint again only
\* when half of the lifetime granted last has passed, up to the fractions of
\* a second that status does not keep of either end.
Recorded ==
    /\ UpToDate /\ Target.exists
    /\ Len(ecw) = 1 /\ Len(secw[Server.spec.target]) = 1
    /\ ledger # <<>>
    /\ Server.status.expiresAt = Persisted(ledger[Len(ledger)].expiry)
    /\ Server.status.lastRotatedAt = Persisted(ledger[Len(ledger)].mintedAt)

MintsSpread ==
    [][pc = "idle" /\ pc' = "mint" /\ Recorded =>
         LET last == ledger[Len(ledger)]
         IN  now - last.mintedAt
                 >= (last.expiry - last.mintedAt - 2 * Second) \div 2]_vars

\* Reconcile keeps to the contract of provider.Provider and relies on nothing
\* beyond it: Mint is called of registered providers, one call at a time,
\* and a handle goes back only to the provider that issued it, whatever the
\* spec has been changed to since.
KeepsProviderContract == Contract!Spec

\* Finalizer and owner references: a deleted resource goes away for good and
\* takes every Secret it controlled along.
DeletionCompletes ==
    Server.deleting ~>
        [](~Server.exists /\ \A n \in Names : Secret(n).owner # "ec")

\* "If a credential is not renewed and passes its expiry, the Secret is
\* removed too": an expired token does not stay in the Secret, even when the
\* provider never grants another one.
Lingering ==
    /\ Server.exists /\ ~Server.deleting
    /\ Server.spec.provider \in Registered
    /\ UpToDate
    /\ \E t \in TokensIn(Target) : ledger[t].expiry <= now

ExpiredRemoved == Lingering ~> ~Lingering

----------------------------------------------------------------------------
(* What the repository says of itself and the code does not keep; README.md *)
(* tells the behaviours TLC finds.                                         *)

\* "Add the finalizer before minting anything, so a credential is never
\* created that a later delete couldn't clean up" (Reconcile).
DeleteCleansUp ==
    Settled /\ ~Server.exists =>
        \A t \in 1..Len(ledger) : t \in revoked \/ ledger[t].expiry <= now

\* "It escalates to Failed, and deletes the Secret, only once the credential
\* is genuinely past expiry" (README.md, of failStatus).
DeletesOnlyExpired ==
    [][\A n \in Names :
         pc = "deleteExpired" /\ Secret(n).exists /\ ~Secret(n)'.exists =>
             \A t \in TokensIn(Secret(n)) : ledger[t].expiry <= now]_vars

\* ConditionReady "summarizes whether a valid, unexpired credential is
\* currently present in targetSecret".
ReadyMeansPresent ==
    Settled /\ Server.exists /\ Server.status.ready = "True" =>
        TokensIn(Target) # {}

\* StateExpiring "will become StateFailed if rotation is still failing when
\* the credential actually expires".
ExpiringEndsAtExpiry ==
    Settled /\ Server.exists /\ Server.status.state = "Expiring" =>
        now < Server.status.expiresAt

\* SetupWithManager watches Secrets "so that someone deleting/editing the
\* target Secret out from under us triggers a re-reconcile that puts it
\* back".
EditsPutBack ==
    Settled /\ UpToDate /\ Server.status.state = "Active" =>
        \A k \in written(Server.spec.keys) : Target.data[k] \in 1..Len(ledger)
=============================================================================
