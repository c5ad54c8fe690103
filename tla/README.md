# A verification of the ephemeral credential broker

TLA+ modules for the controller in `internal/controller` and the provider in
`internal/provider/github`, the model-checking runs over them, and theorems
about them whose proofs TLAPS checks.  The broker watches `EphemeralCredential`
resources, mints a short-lived credential for each, keeps it in a Kubernetes
Secret, rotates it before it expires and revokes it afterwards.

## The system

| part | state | operations | interacts with |
| --- | --- | --- | --- |
| reconciler (`ephemeralcredential_controller.go`) | none between runs; a copy of the resource, the minted result and the previous handle during one | `Reconcile`, `reconcileDelete`, `failStatus`, `writeTargetSecret`, `deleteTargetSecret` | reads through the caches, writes to the API server, calls the provider |
| rotation arithmetic (same file) | none | `requestedRotateBefore`, `grantedLifetime`, `clampRotateBefore`, `needsMint`, the two requeue computations | status, which keeps whole seconds |
| target Secret | data, `managed-keys` annotation, controller reference | the mutate function of `CreateOrUpdate`, delete | users and other controllers write it too |
| resource (`ephemeralcredential_types.go`) | spec, generation, finalizer, handle annotation, status | edited and deleted by users | optimistic concurrency on `resourceVersion` |
| API server, informers, work queue, garbage collector (external) | the stored objects, the caches behind them, the pending key and its timer | watch events, conflicts, retries, owner references | wake the reconciler |
| provider interface and registry (`provider.go`) | the registered providers | `Get`, `Mint`, `Revoke` | called by the reconciler |
| GitHub provider (`github/github.go`) | nothing between calls; the signed JWT and the installation during one | `Mint` (sign, resolve, create), `Revoke` | GitHub, by HTTP and with a clock of its own; may fail, or succeed and lose the reply |
| wiring (`cmd/main.go`) | one worker, one provider, no leader election | start-up | two replicas overlap in a rollout |

What is hard: a reconcile is a sequence of calls without a transaction
(mint, Secret, annotation, status, revoke), each may fail or succeed unseen,
the process may stop between any two, users act in between, another replica or
another resource may do the same, and every decision rests on caches that the
controller's own writes have already overtaken.  Expiries are written by
GitHub's clock and read by the broker's.  What
makes it correct: consumers are never left with a revoked token, tokens do not
stay where nobody will look for them, status does not promise more than the
Secret holds, cleanup happens, and somebody always wakes the controller in time.
The full list of hazards, each at its line, is in `PROJECT.json`.

## Modules

* `RotationWindow`: the time arithmetic as pure operators, in a clock unit
  finer than a second (`Second` units make one); `Persisted` is what the JSON
  form of `metav1.Time` keeps.
* `TargetSecret`: a Secret as existence, controller, value per data key
  (nothing, somebody else's, or the number of a token) and managed keys;
  `mutate` is the function `writeTargetSecret` passes to `CreateOrUpdate`.
* `Broker` composes both with the reconciler and its surroundings.
* `Provider`: the abstract specification between the two halves of the system,
  what the controller may ask of a `provider.Provider` and what it may rely on.
* `GitHubProvider`: the provider's half, request by request; it uses
  `RotationWindow` for what the controller makes of an expiry.
* `Rollout`: two `Broker`s on one resource, the replicas of a rollout.
* `SharedTarget`: two `Broker`s with a resource each and one worker, whose specs
  may name the same Secret.
* `MCRotationWindow`, `MCBroker`, `MCGitHubProvider`, `MCRollout`,
  `MCSharedTarget`: instances for TLC.
* `RotationWindowProofs`, `MCRotationWindowProofs`, `GitHubProviderProofs`,
  `BrokerProofs` (types and revocation), `BrokerSafetyProofs` (finalizer, keys,
  deletion, expiry), `BrokerWorkProofs` (scheduling, the provider's contract,
  what consumers find), `SharedTargetProofs` and `RolloutProofs`: theorems.

### How Broker corresponds to the code

`ecw` is the sequence of versions of the resource from the one in the cache
(`Cached`) to the one the API server holds (`Server`); `secw[n]` is the same for
each Secret.  A write appends, `DeliverEC` and `DeliverSecret` move the cache on
by one event and enqueue the key as `For` and `Owns` do.  `pc` names the call
Reconcile makes next; `ec`, `token`, `previous`, `started` are its local
variables and `fresh` says whether its copy still carries the current
`resourceVersion`.  Everything between two calls is part of the action of the
next one, so `ReconcileGone`, `ReconcileDelete`, `ReconcileNew`,
`ReconcileUnknownProvider`, `ReconcileSteady` and `ReconcileMint` are the paths
from the top of `Reconcile` to its first call or return, and

* `AddFinalizer`, `SetPending`, `PersistHandle`, `UpdateStatus`, `FailStatus`,
  `RemoveFinalizer` are its writes to the resource; `ECWriteFails` (conflict or
  error) and `ECWriteLost` (stored, reply lost) their failures;
* `Mint`/`MintFails`/`MintLost`, `WriteSecret`/`WriteSecretFails`/
  `WriteSecretLost`, `RevokePrevious` are the middle of `Reconcile`; a scope
  that cannot be built is part of `MintFails`;
* `RevokeOnDelete`, `DeleteSecret`/`DeleteSecretFails` are `reconcileDelete`,
  `DeleteExpired` the deletion inside `failStatus`;
* how a run ends decides what is scheduled: `ReturnNil`, `ReturnAfter`,
  `ReturnRateLimited`.  `wakeAt` is the delaying queue, which keeps the earlier
  of two times for a key (`Schedule`).  `retrying` says whether the rate limiter
  remembers the key: from a failed run until one that ends otherwise, or until
  the process stops.  A failed run is tried again after one of `BackoffDelays`.

`ledger` lists the credentials GitHub has created, `revoked` those it has
revoked.  Users (`EditSpec`, `DeleteEC`, `UserDeletesSecret`,
`UserEditsSecret`), failures, resyncs and crashes are disturbances; `Disturbances`
selects the kinds of an instance and `MaxDisturbances` bounds their number.
`Crash` drops the locals, the queue and the timer and starts with fresh caches.

Abstracted: a token is its number and a handle the token it revokes, so that
encoding and decoding a handle are inverse to each other; the Ready condition
is its status without reason and message.  An update that changes nothing is not
stored and is no event (`StoreEC`); `FailStatus` may store one all the same,
as the message may differ.  Events, logs and provider configuration are left
out, and so are errors of `Get`: a started informer cache answers every read,
and a run that ended there would have changed nothing and be retried.  A
Secret with another type than `Opaque` is not considered.

`buildScope` knows only `github-app`.  `broker_faults` nevertheless registers a
second provider, so that a spec may be switched to it and back: its mints fail
for want of a scope, and the handles of the first must never reach it.

### How GitHubProvider corresponds to the code

A call of the provider is `pc`, the request whose reply it waits for, with its
locals.  Each HTTP request is two actions: `ServeResolve`, `ServeCreate`,
`ServeRevoke` are GitHub handling it, `Resolved`, `Minted`, `Revoked` and
`Refused` the provider reading the reply.  `Mint` and `Revoke` are what happens
up to the first request, and `MintRejected` every check that fails before it
(`Configs` lists what may be wrong).  `Broken` is a request that ends in an error
of the transport, of decoding or of the context, before or after GitHub has
handled it.  A request GitHub handles only after the client gave up is the same
as one handled just before.

`clock` is GitHub's, the broker's is `skew` ahead for the whole behaviour.  The
JWT is signed by the broker's clock in whole seconds and judged by GitHub's;
`signedAt` is GitHub's time of the signature and only properties mention it.
`expires_at` has whole seconds, too.  `Minted` goes on to what `Reconcile` does
with the result (`ScheduleRotation`): the clamped window and the delay until
rotation, by the broker's clock, which is where a skew does harm.  The delay
begins to count when `Reconcile` returns, so that the call of a `Mint` is, for
the time it takes, the whole reconcile around it, from reading the clock to the
last write, and `MaxLatency` bounds that.

### How the contract is stated

`Provider` has one call at a time.  A `Mint` returns one new credential, or fails
and may still have created one that nobody knows.  A `Revoke` is passed a
credential of the very provider it is asked of, and invalidates that one or
none.  Two refinements meet in it:

* `GitHubProvider!ImplementsProvider`.  What a call has done counts when it
  returns: `issued` is the ledger without the token of the current call,
  `invalidated` leaves out the handle just deleted, `openCall` is the call as the
  controller sees it.
* `Broker!KeepsProviderContract`.  `openCall` is derived from where `Reconcile`
  stands: before `Mint` with a scope that was built, or before `Revoke` of a
  handle of the spec's provider.  `minted` is the token in hand.

Together they justify that `Broker` has one action for a `Mint` and one for
a `Revoke`.

### How Rollout and SharedTarget use Broker

Both extend `Broker` and instantiate it a second time with variables ending
in 2.  In `Rollout` the replicas share the clock, the provider and the stored
objects; caches, queue and locals are each one's own.  Whatever one of them
stores is appended to the other's windows (`Learn`) and makes its copy of the
resource outdated.  `MaxLag` bounds how far a cache may stay behind the other
replica's writes.  The run starts when the old replica has accepted the resource
(finalizer set, status Pending).

In `SharedTarget` the resources share the clock, the worker and the Secrets, and
each has a ledger of its own.  Each sees the Secrets in its own terms, and
`Seen` translates: what one controls is controlled by "other" for the other one,
and the tokens of one are `Foreign` to the other.  One cache of Secrets serves
both (`CacheSecret`).  `displaced` and `displaced2` are history that no action
reads: the names under which somebody else's Secret has been since the resource
last controlled the one there.

## Runs

| run | asks | bounds |
| --- | --- | --- |
| `rotation_window` | the arithmetic, over every requested window, start and lifetime | second = 3 units, so every rounding occurs; lifetimes up to 20 units straddle the default window, the floor of the delay and the clamp |
| `broker_faults` | safety under failures | any 2 of edit, delete, Secret deleted, crash, failed call, lost reply, failed mint; 3 tokens, which is one more than two failed attempts use; mapping changes between two keys; a free and an adopted Secret |
| `broker_rotation` | rotation over time | second = 2 units, lifetime 6, clock to 10: several rotations, with a window that fits and one that must be clamped, and an unregistered provider; 1 disturbance |
| `broker_liveness` | progress | time may pass between any two calls; 1 token, so that rotation fails for good; any 2 of deletion, Secret edited, crash, failed call, lost reply, and a change of the target's name to the empty one, which the CRD allows and no Secret can have, so that the old Secret is left to the garbage collector |
| `github_provider` | the provider, its contract and the clocks | second = 2 units, guard 2, cap 8, lifetime 11; skews of 2 (the guard) and 3 (beyond it) either way; calls of up to 3 units, so that a JWT may expire under way; 2 tokens, 1 broken request, clock to 12; an App that works, one that is not installed, a key that is not RSA |
| `rollout` | two replicas at once | 2 tokens, one for each; a cache at most 1 version behind the other replica; 1 of deletion and crash; clock to 2, through the rotation window of a lifetime of 2 to its end |
| `shared_target` | two resources, one Secret | 2 names, an empty name, an unregistered provider, adopted Secrets; 2 tokens each; 1 of edits of spec and Secret, both deletions and a failed revocation; clock to 2, the expiry of a first token |

Durations are scaled down: a lifetime of 4 or 6 units stands for GitHub's hour,
and windows, the default and the floor of the delay keep their order to it.
In the runs of Broker and what is built on it `Prompt` makes the clock stand still
while there is work to do: calls take no time compared with lifetimes.
`broker_liveness` and `deletes_only_expired` drop that, and `github_provider` is
about the time calls take.  `BackoffDelays = {0}` stands for the first retries
of the rate limiter, milliseconds apart, and `{1}`, in `broker_rotation`,
`rollout` and `shared_target`, for later ones; the theorems are for any set of
delays.
Deadlock is not checked except in `rotation_window`: with the clock at `MaxTime`
and nothing to do the models stop, which is a bound, not a behaviour.

What the passing runs show:

* `PublishedNotRevoked`: once the current spec has been handled, its Secret
  never holds a revoked token, whatever half-finished attempts lie behind.
* `NoStrandedKeys`: nor a token under a key the spec does not map, nor two
  different tokens.
* `StatusNotAheadOfSecret`: the token in the Secret lives as long as status says
  (for a provider whose grants all last equally long, as GitHub's do).
* `FinalizerBeforeMint`, `MintsOnlyForExisting`: credentials are created only
  under the finalizer and only while the resource exists, stale cache or not.
* `RevokedWhenGone`: the handle recorded last has been revoked when the
  resource is gone (where revocation does not fail).
* `WakeupScheduled`: whenever all is quiet over an unfinished deletion or a
  credential of a known provider, a timer is set.  Once status describes that
  credential the timer is for no later than `MinRequeueAfter` into the rotation
  window, which is before the expiry if the window is longer than that; or, if
  the rate limiter remembers the key, for within one of its delays.
* `ServedWhenSettled`: when all is quiet and no retry is to come, the mapped
  keys hold a token that is neither expired nor revoked.
* `MintsSpread`: with the last credential recorded and in place, the next one is
  minted only after half of its lifetime, up to the fractions of a second that
  status does not keep of either end.
* `DeletionCompletes`, `ExpiredRemoved`: under fairness, a deleted resource
  and the Secrets it controlled go, also the one under a former name, and an
  expired token leaves its Secret.
* `KeepsProviderContract`: a handle goes back only to the provider that issued
  it, whatever edits, stale caches and crashes come between.
* `ImplementsProvider`: the provider keeps its side at every broken request.
* `ToleratesSkew`: with clocks no further apart than the guard, GitHub accepts
  the JWT for both requests of a Mint, up to the time the cap leaves.
* `RotatesInTime`: a token is rotated before GitHub lets it expire if its window
  covers the time of the reconcile and what the broker's clock is behind.
  Without the premise it is not: nothing in the code makes up for a slow clock.
* `OrphansAreLost`: tokens nobody knows are at most as many as broken requests.
* `CallReturns`: under fairness, a call ends once GitHub answers.
* In `rollout`, `PublishedNotRevoked` and `RevokedWhenGone` hold for the two
  replicas together, and `ServedByEither`: as soon as either has caught up and
  has nothing to retry, the Secret that status describes holds a good token,
  whichever wrote last.
  `StatusNotAheadOfSecret` is a property of one replica: with two, the one that
  recorded its token need not be the one that wrote the Secret last.
* In `shared_target`, `NeverTakenOver`: a Secret passes from one resource to the
  other only by being deleted; `BothPublished`, `BothWoken`: as for one resource;
  `OwnerServed`: a Secret that the other resource has deleted, which it may, is
  back when its own resource rests with no retry to come, as long as nobody else
  has had a Secret under the name since.  Without that condition it is false, but only from the second
  disturbance on: a user deletes the Secret of one resource, the other one
  creates its own there first, and the first, for which any Secret will do, takes
  it for its own; when the other one is deleted its Secret goes, and the watch
  tells only its owner.

Fairness: `Reconcile` and its calls (the process runs and calls return),
`DeliverEC`, `DeliverSecret` (watches deliver), `TimerFires` (the delaying
queue), `GarbageCollect` and `Tick`.  Users and failures have none, and only
finitely many disturbances happen, so a retry is eventually left alone.  That a
call returns is an assumption about the provider.  `github_provider` says where
it comes from: GitHub answers (`WF_vars(GitHub)`) and the provider reads the
answer (`WF_vars(Replies)`); broken requests have no fairness, and
`http.DefaultClient` sets no timeout that would end a call otherwise.

### What the repository says and the code does not do

Each is a run that TLC must find violated.

* `DeleteCleansUp`.  Reconcile adds the finalizer; its event wakes it again; the
  user deletes the resource; Reconcile, whose cache shows neither the deletion
  nor the Pending status, mints, writes the Secret, and conflicts when it
  records the handle.  Deletion finds no handle and lets the resource go: the
  token stays valid until it expires.
* `DeletesOnlyExpired`.  A first token is recorded; a reconcile on the cache of
  before mints a second one, puts it into the Secret and conflicts; when the
  first token's expiry has passed and a mint fails, `failStatus` deletes the
  Secret with the second, valid token.
* `ReadyMeansPresent`.  The Secret is deleted and minting fails: `failStatus`
  sees an expiry in the future and reports Ready=True.
* `ExpiringEndsAtExpiry`.  The spec is switched to an unregistered provider;
  Reconcile reports Expiring and returns an empty result; no reconcile is
  scheduled for the expiry.
* `EditsPutBack`.  An edit of the Secret triggers a reconcile that checks only
  that the Secret exists.

## Proofs

`RotationWindowProofs` proves what `rotation_window` asks for every natural
second, default window, floor, start, lifetime and requested window.  The lemmas
say what `Persisted` and `clampRotateBefore` may do to a number; the theorems are
linear arithmetic from there.  `MCRotationWindowProofs` concludes the run's three
invariants from it, for every bound (`FreshNeverDue`, `WakeAlwaysDue`,
`WakeAlwaysInTime`); the invariant needed is that what is drawn expires after it
was minted.

`GitHubProviderProofs` proves, for every skew, latency, guard, cap, lifetime and
configuration that satisfy the assumptions in the module,

* `ProviderTypeCorrect`: `Spec => []TypeOK`.  `TypeInv` adds `CallOK`, what the
  locals are at each request: which of them are set, and that a token created by
  the current call is the last of the ledger and not yet known.  Without that,
  `revoked \subseteq known` and the removal of the call's token from the ledger
  are not inductive.
* `SkewIsTolerated`: `Spec => []ToleratesSkew`, from `JwtOK`: the JWT is the
  one signed at `signedAt` by a clock `skew` ahead.  The rest is arithmetic with
  division by the second.
* `RotationIsInTime`: `Spec => []RotatesInTime`, from `LatencyOK` (no call takes
  longer than `MaxLatency`), `ExpiryOK` (a token under way expires within its
  lifetime of the call) and `RotationOK`.  `GrantAssumption`, a token is
  good for twice the shortest delay when `Reconcile` returns, is what an hour and
  seconds satisfy.
* `OrphansOnlyByLoss`: `Spec => []OrphansAreLost`; cardinalities of the set of
  unknown tokens before and after each step.
* `GitHubImplementsProvider`: `Spec => ImplementsProvider`; the initial
  states map to initial ones, and one lemma per action (`Sim...`) shows the step
  of `Provider` or the stuttering it maps to.

`BrokerProofs` proves, for every choice of the constants that satisfies the
assumptions in the modules,

* `TypeCorrect`: `Spec => []TypeOK`, with the strengthening `TypeInv`: a running
  reconcile has read the clock and, from `Mint` on, holds a token of the ledger;
  every recorded handle is a token of the ledger.  Without the last two,
  `ledger[token]` and the revocation of a handle have no type.
* `RevokedNeverPublished`: `Spec => []PublishedNotRevoked`.  Its inductive
  invariant `IInv` adds: a copy with the current version is the current object
  (`FreshCopy`), status never observes a generation that does not exist
  (`Observed`, so an edit always makes status out of date), deletion seen anywhere
  is known to the server (`DeletionFinal`, so revoking during a deletion
  concerns no live spec), keys that hold a token are managed (`TokensManaged`, so
  a write leaves one token), the token in hand is neither revoked nor the
  previous one and, once written, the only one in its Secret (`InHand`), and
  while the previous one is being revoked, status describes that Secret or is
  out of date (`RevokesOther`).  The proof first says what a step can do to the
  resource, to the Secrets, to the locals and to the revoked set (`ECSteps`,
  `SecretSteps`, `LocalSteps`, `MintedSteps`, `RevokedSteps`), then goes through
  the parts of the invariant with these few cases.

`BrokerSafetyProofs` extends `IInv` in three directions; its last section holds
the lemmas about one replica of two that `RolloutProofs` needs.

* `FinalizerFirst`: `Spec => []FinalizerBeforeMint`, and `NoMintForGone`:
  `Spec => MintsOnlyForExisting`, from `LifeInv`.  A reconcile acts on a cached
  version, so the invariant says how the versions between cache and server
  relate: generations grow and deletions stay (`Ordered`), a version of the
  current generation has the current spec and status observes no generation the
  cache has yet to show (`Generations`), the same of Reconcile's copy
  (`CopyOK`), the finalizer stays on while the resource exists
  (`FinalizerKept`), and cleanup runs only on a deletion that the cache has shown
  (`GoneSeen`).  The last one is why no reconcile mints for a resource that
  is gone: every version still to come is a deleted one.
* `KeysOfSpecOnly`: `Spec => []NoStrandedKeys`, from `KeysInv`: `LifeInv` and that
  what is published is one token under the keys of the copy's mapping.
  `Generations` is needed to pass from the copy's mapping to the server's.
* `DeletionRevokes`: `RevokeSucceeds` implies `Spec => []RevokedWhenGone`, from
  `GoneInv`, which adds that cleanup past Revoke has revoked the copy's
  handle (`Cleaned`).  Revoke is best effort in the code, so without the
  assumption the property is false.
* `StatusPromisesNoMore`: `FixedLifetime` implies
  `Spec => []StatusNotAheadOfSecret`, from `ExpiryInv`: later credentials expire
  later and the one in hand is the last.  GitHub's tokens all last an hour.

`BrokerWorkProofs` is about when the controller works.

* `AlwaysWoken`: `Spec => []WakeupScheduled`, for every set of delays, from
  `WorkInv`: a failure without retry is that of an unknown provider
  (`UnknownFails`), a resource being deleted is held by our finalizer
  (`DeletionHeld`), a timer is set while the controller sleeps (`Woken`) and is in
  time (`Timely`).  A token just minted is not the recorded one, so the write of
  the handle changes the resource and its event finds Reconcile still
  running or the key queued (`StatusNotified`); this is why it does no harm that
  `RequeueAfter` is computed from the clock as it was before the calls.
* `MintsAreSpread`: `Spec => MintsSpread`; arithmetic from what status keeps.
* `BrokerKeepsContract`: `Spec => KeepsProviderContract`, the refinement of
  `Provider`; one lemma per action that calls the provider or returns from it
  (`Sim...`), the others stutter.
* `ConsumersServed`: `NoEdits`, `FixedLifetime` and `AmpleWindows` imply
  `Spec => []ServedWhenSettled`.  `ServedInv` says that what is published is
  there in full or gone (`PublishedWhole`, `CurrentWhole`), that every version
  between cache and server is ours or none (`OursOrNone`), so that the watch
  reports what becomes of it (`Traced`), and that a controller at rest over a
  resource of a known provider, with no retry to come (`Rests`), has status up to
  date and its timer set for the rotation (`Rested`) and has the Secret in its
  window (`Attended`).  `GrantInv` keeps the lifetime status describes long enough
  for the window to open before the expiry.

The assumptions of the last: `NoEdits`, for the code does not put back what
somebody else writes under a mapped key (`EditsPutBack` above);
`FixedLifetime`; and `AmpleWindows`, requested windows are no shorter than
`minRequeueAfter` and lifetimes, less the second that rounding may cost, at least
twice that (`AmpleFor(d)` is the same with `d` added to `minRequeueAfter`).  With
`minRequeueAfter` five seconds, `rotateBeforeSeconds` at least 30 by the CRD and
an hour's grant the code satisfies it.  Nothing is assumed of the rate limiter.
The last section of the module holds what `RolloutProofs` needs of one replica.

`SharedTargetProofs` proves, for any two resources,

* `NeitherSpoilsOther`: `SharedSpec => []BothPublished`,
* `OwnersRespected`: `SharedSpec => NeverTakenOver`,
* `BothAlwaysWoken`: `SharedSpec => []BothWoken`,
* `OwnersServed`: with `FixedLifetime` and `AmpleWindows`,
  `SharedSpec => []OwnerServed`.

Each resource is a `Broker`; the lemmas of `BrokerWorkProofs` are cited for the
first and, through an instance with its variables, for the second.  `OthersStep`
is a step in which somebody changes Secrets without disclosing a token of this
resource, and `WorkInv` survives it (`OthersKeepWork`).  What is left to show is that a
step of one resource is an `OthersStep` of the other, and for that `Coupled`
relates the two views of every version of every Secret: they agree on existence
and managed keys, at most one of the two controls it and no key holds a token
of both (`Twins`).  `OwnersRespected` falls out of the same lemma
(`SeenTwins`), because `mutate` is applied only to what nobody else controls and
an outdated cache makes the write fail.

For `OwnersServed` each resource also keeps `CareInv`, which holds whatever others
do to its Secret: as long as the Secret is its own every key has a value
(`CurrentComplete`), and a resource at rest is `Rested`.  That the Secret is its own takes history:
`Intact`, where nobody else has been, whatever the window shows of somebody
else's is followed by a Secret of its own (`Reclaimed`), so a reconcile that
finds any Secret in the cache has one of its own to be told of; and `Watched`, a
resource at rest that is not displaced has such a version between cache and
server.  When that one passes, the watch puts the key into the queue and the
resource is not at rest any more.  `WatchedStep` shows it for one resource, for
its own steps and those of the other alike.

`RolloutProofs` proves, for two replicas at work on one resource,

* `ReplicasNeverRevokePublished`: `RolloutSpec => []PublishedNotRevoked`,
* `ReplicasCleanUp`: `RevokeSucceeds` implies `RolloutSpec => []RevokedWhenGone`,
* `ReplicaAtRestServes`: with `NoEdits`, `FixedLifetime` and `AmpleFor(d)`, a
  behaviour of `RolloutSpec` that is always `Brisk(d)` for both replicas satisfies
  `[]ServedByEither`.

`InHand` does not survive a second replica, which may overwrite the Secret
just written, nor does `RevokesOther`.  What does hold of each replica
(`ReplicaInv`) is kept by its own steps (`ReplicaStep`) and by whatever it
learns of the other (`LearnsKeeps`); `Held`, the resource has its finalizer from
the start, replaces the order of versions that `LifeInv` needed.  `RolloutInv`
relates the two:
their windows end with the same versions (`Agree`); neither knows the credential
that the other has minted and not yet written (`Apart`), so a late write of the
Secret never publishes what somebody is going to revoke; and no Secret that
status describes discloses what either has revoked or is about to revoke, nor
does one that a copy still current is about to describe (`Undisclosed`).  Whether
the copy is current is what decides: of two replicas that have published, one
has its write of the handle refused and revokes nothing.  For the deletion,
`Cleaned` of both is enough, because the finalizer can only be taken off the
version whose handle was revoked.  A step of the old replica and one of the new
are the same proof with the roles exchanged.

That consumers are served needs more, since the replica that records its
credential in status need not be the one that wrote the Secret last: status then
describes an expiry that the token in the Secret does not have.  `ServeInv(d)`
adds to `RolloutInv` what bounds the difference.  `CurrentLate(d)` and
`PublishedLate(d)`: the Secret that status describes, or is about to, is empty of
ours or discloses only tokens that expire at most `d` before what status says
(or will say).  It holds because a credential is written within `d` of being
minted, `Brisk(d)`, and all grants last equally long, so whichever write comes last
discloses a token that was minted not much before.  `GrantCovers(d)` keeps the
recorded lifetime long enough for the window to open more than `d` before the
recorded expiry.  `TracedInv` is `Traced` for both windows, and `TendsOn` what one
replica alone keeps of `ServedInv` (`Attended`, `Rested`, `Woken`); the other's
steps do not spoil it, because they append to the windows and every version
appended is an event to come (`TendLearned`).

`Brisk(d)` is an assumption on the environment and not something the code enforces:
nothing bounds the time between Mint's answer and the write of the Secret, and a
replica held up there for long enough would overwrite the Secret with a
credential that expires before the rotation that status promises.  The `rollout`
run meets it with d = 0: `Prompt` lets no time pass while a replica works, and
the lemma `PromptIsBrisk` shows that `Brisk(0)` is then an invariant.

Only model-checked: liveness (TLAPS does not reason about fairness and
`ENABLED`): `DeletionCompletes`, `ExpiredRemoved` and `CallReturns`; and what five
of the runs refute.  Every invariant and every action property of the passing
runs, and both refinements, are stated by a theorem, and each run meets the
hypotheses on the constants of the theorems about its properties.

## Not modelled

* Calls that never return: with one worker everything would wait for them, and
  the fairness above excludes it.
* GitHub's rate limits, and that the delays of the work queue's rate limiter
  grow with each failure: a retry comes after any one of `BackoffDelays`.  The
  theorems hold for every set of them, a run has one.
* Reads that fail (see above).
* The CEL validation of the resource.  The properties hold without it.
* Flags, probes, metrics and logging of `cmd/main.go`: no state the controller
  depends on.
* More than two replicas or resources at a time.
* The AWS, database and vault providers are placeholders without code, and the
  deepcopy code is generated.

## Plan

1. `RotationWindow`, `TargetSecret`, `Broker`, their runs and theorems: done.
2. `Provider` and its two refinements, `GitHubProvider` with its theorems: done.
3. Two replicas (`Rollout`), two resources with one Secret (`SharedTarget`): done.
4. Theorems for every safety property of `Broker`, for two resources with
   one Secret and for two replicas: done.
5. `OwnerServed`, from a form of `Attended` that allows for the other resource:
   done.
6. `ServedByEither`: the token in the Secret is the one recorded or a later one,
   whichever replica wrote it, or expires hardly before it: done.
7. What the rate limiter remembers (`retrying`), so that the theorems about the
   controller at rest hold for every delay: done.
8. How long consumers may be without a credential while retries grow further
   apart, which takes a rate limiter whose delays grow.
