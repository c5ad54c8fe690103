---------------------------- MODULE SharedTarget ----------------------------
(***************************************************************************)
(* Two EphemeralCredentials that may name the same target Secret, served   *)
(* by the one worker of the one process.  Each is a Broker with a copy, a  *)
(* timer and credentials of its own.  What they share are the Secrets,     *)
(* their cache, the worker and the clock.                                  *)
(*                                                                         *)
(* Each resource sees the Secrets in its own terms: what the other one     *)
(* controls is controlled by "other", and the other one's tokens are       *)
(* Foreign.  The variables of Broker are those of the first resource.      *)
(***************************************************************************)
EXTENDS Broker

CONSTANT InitialSpecs   \* the specs the two resources start with

ASSUME InitialSpecsAssumption == InitialSpecs \subseteq Specs

VARIABLES ecw2, secw2, pc2, ec2, fresh2, token2, previous2, started2, fail2,
          queued2, wakeAt2, retrying2, ledger2, revoked2

\* History, which no action reads: the names under which somebody else's
\* Secret has been since a resource last controlled the one there.
VARIABLES displaced, displaced2

Peer == INSTANCE Broker WITH
    ecw <- ecw2, secw <- secw2, pc <- pc2, ec <- ec2, fresh <- fresh2,
    token <- token2, previous <- previous2, started <- started2,
    fail <- fail2, queued <- queued2, wakeAt <- wakeAt2,
    retrying <- retrying2, ledger <- ledger2, revoked <- revoked2

own == <<ecw, locals, queue, provider>>
own2 == <<ecw2, pc2, ec2, fresh2, token2, previous2, started2, fail2, queued2,
          wakeAt2, retrying2, ledger2, revoked2>>
history == <<displaced, displaced2>>
sharedVars == <<vars, secw2, own2, history>>

----------------------------------------------------------------------------
\* A Secret as the other resource sees it, which saw it as seen before it was
\* changed from old to new.
Seen(new, old, seen) ==
    [exists |-> new.exists,
     owner |-> CASE new.owner = "ec" -> "other"
                 [] new.owner = "other" -> seen.owner
                 [] new.owner = "none" -> "none",
     data |-> [k \in DataKeys |->
                 IF new.data[k] = old.data[k] THEN seen.data[k]
                 ELSE IF new.data[k] = Empty THEN Empty ELSE Foreign],
     managed |-> new.managed]

\* One resource's window of a Secret after another one's has gone from before
\* to after.
Follow(window, before, after) ==
    IF Len(after) > Len(before)
    THEN Append(window, Seen(after[Len(after)], before[Len(before)],
                             window[Len(window)]))
    ELSE window

\* What history says of a resource once the Secrets are the given ones.
Displaced(before, secrets) ==
    {n \in Names : /\ secrets[n].owner # "ec"
                   /\ n \in before \/ secrets[n].exists}

Remember ==
    /\ displaced' = Displaced(displaced, [n \in Names |-> Secret(n)'])
    /\ displaced2' = Displaced(displaced2, [n \in Names |-> Peer!Secret(n)'])

\* A step that concerns the first resource, and one for the second.
OfFirst(A) ==
    /\ A
    /\ secw2' = [n \in Names |-> Follow(secw2[n], secw[n], secw'[n])]
    /\ UNCHANGED own2
    /\ Remember

OfPeer(A) ==
    /\ A
    /\ secw' = [n \in Names |-> Follow(secw[n], secw2[n], secw2'[n])]
    /\ UNCHANGED own
    /\ Remember

----------------------------------------------------------------------------
SharedInit ==
    /\ \E s \in InitialSpecs : ecw = <<AcceptedEC(s)>>
    /\ \E s \in InitialSpecs : ecw2 = <<AcceptedEC(s)>>
    /\ \E secrets \in InitialSecrets : secw = [n \in Names |-> <<secrets[n]>>]
    /\ now = 0 /\ ledger = <<>> /\ revoked = {} /\ used = 0
    /\ pc = "idle" /\ ec = NilEC /\ fresh = FALSE /\ token = 0
    /\ previous = 0 /\ started = NoTime /\ fail = NoFail
    /\ queued = TRUE /\ wakeAt = NoTime /\ retrying = FALSE
    /\ secw2 = secw /\ pc2 = pc /\ ec2 = ec /\ fresh2 = fresh
    /\ token2 = token /\ previous2 = previous /\ started2 = started
    /\ fail2 = fail /\ queued2 = queued /\ wakeAt2 = wakeAt
    /\ retrying2 = retrying
    /\ ledger2 = ledger /\ revoked2 = revoked
    /\ displaced = Displaced({}, [n \in Names |-> Secret(n)])
    /\ displaced2 = displaced

\* One worker: a reconcile runs while none does for the other resource.
FirstRuns == pc2 = "idle" /\ OfFirst(Reconcile \/ Calls)
PeerRuns == pc = "idle" /\ OfPeer(Peer!Reconcile \/ Peer!Calls)

FirstEvents ==
    OfFirst(\/ DeliverEC \/ TimerFires \/ Users
          \/ \E n \in Names : GarbageCollect(n))

PeerEvents ==
    OfPeer(\/ Peer!DeliverEC \/ Peer!TimerFires \/ Peer!Users
          \/ \E n \in Names : Peer!GarbageCollect(n))

\* One cache: an event of a Secret reaches it for both.
CacheSecret(n) ==
    DeliverSecret(n) /\ Peer!DeliverSecret(n) /\ UNCHANGED history

SharedTick ==
    /\ Prompt => Peer!Settled
    /\ Tick
    /\ UNCHANGED <<secw2, own2, history>>

SharedNext ==
    \/ FirstRuns \/ PeerRuns \/ FirstEvents \/ PeerEvents \/ SharedTick
    \/ \E n \in Names : CacheSecret(n)

SharedSpec == SharedInit /\ [][SharedNext]_sharedVars

----------------------------------------------------------------------------
(* Properties. *)

\* SetControllerReference makes writeTargetSecret refuse a Secret that another
\* resource controls, although the cache it looks at may be behind: a Secret
\* passes from one resource to the other only after it has been deleted.
NeverTakenOver ==
    [][\A n \in Names : Secret(n).owner = "ec" => Secret(n)'.owner # "other"]_sharedVars

\* Neither resource revokes what its Secret holds because of the other.
BothPublished == PublishedNotRevoked /\ Peer!PublishedNotRevoked

\* deleteTargetSecret does not ask who controls a Secret, so each resource may
\* delete the other's, when it is deleted or when its own credential has
\* expired.  The watch on owned Secrets makes up for it: a resource that
\* status describes rests, with nothing to retry, only when its Secret exists
\* and its keys hold a live token or what a user has put there.  It does so as
\* long as nobody else has had a Secret under the name since:
\* targetSecretExists takes any Secret for its own, and when that one goes the
\* watch does not tell.
Served(target, keys, tokens, invalid) ==
    \A k \in written(keys) :
        \/ target.data[k] = Foreign
        \/ /\ target.data[k] \in (1..Len(tokens)) \ invalid
           /\ now < tokens[target.data[k]].expiry

OwnerServed ==
    /\ /\ Settled /\ ~retrying
       /\ UpToDate /\ Server.spec.target \notin displaced
       => Served(Target, Server.spec.keys, ledger, revoked)
    /\ /\ Peer!Settled /\ ~retrying2
       /\ Peer!UpToDate /\ Peer!Server.spec.target \notin displaced2
       => Served(Peer!Target, Peer!Server.spec.keys, ledger2, revoked2)

\* Whatever one resource does to the other's Secret, both keep a timer: see
\* WakeupScheduled.
BothWoken == WakeupScheduled /\ Peer!WakeupScheduled
=============================================================================
