------------------------------ MODULE Rollout -------------------------------
(***************************************************************************)
(* Two replicas of the broker at work on the same resource.  There is no   *)
(* leader election, so this is what happens while a Deployment replaces    *)
(* the one replica by another.  Each replica is a Broker with caches, a    *)
(* queue and a reconcile of its own; the API server, the provider and the  *)
(* clock are shared.  A replica that is stopped is one that crashes, or    *)
(* takes no further step.                                                  *)
(*                                                                         *)
(* The variables of Broker are those of the old replica.                   *)
(***************************************************************************)
EXTENDS Broker

CONSTANT MaxLag     \* bound on how many versions a cache lacks of the other's

ASSUME LagAssumption == MaxLag \in Nat

VARIABLES ecw2, secw2, pc2, ec2, fresh2, token2, previous2, started2, fail2,
          queued2, wakeAt2, retrying2

New == INSTANCE Broker WITH
    ecw <- ecw2, secw <- secw2, pc <- pc2, ec <- ec2, fresh <- fresh2,
    token <- token2, previous <- previous2, started <- started2,
    fail <- fail2, queued <- queued2, wakeAt <- wakeAt2,
    retrying <- retrying2

rest2 == <<pc2, ec2, token2, previous2, started2, fail2, queued2, wakeAt2,
           retrying2>>
rest == <<pc, ec, token, previous, started, fail, queued, wakeAt, retrying>>
vars2 == <<vars, ecw2, secw2, fresh2, rest2>>

\* A window after the API server has stored what another window ends with.
Learn(window, before, after) ==
    IF Len(after) > Len(before) THEN Append(window, after[Len(after)])
    ELSE window

\* What reaches a replica of a step it did not take: the new versions are on
\* their way to its caches, and its copy of the resource may be outdated.
NewLearns ==
    /\ ecw2' = Learn(ecw2, ecw, ecw')
    /\ secw2' = [n \in Names |-> Learn(secw2[n], secw[n], secw'[n])]
    /\ fresh2' = (fresh2 /\ Len(ecw') <= Len(ecw))
    /\ ecw2' # ecw2 => Len(ecw2) <= MaxLag
    /\ UNCHANGED rest2

OldLearns ==
    /\ ecw' = Learn(ecw, ecw2, ecw2')
    /\ secw' = [n \in Names |-> Learn(secw[n], secw2[n], secw2'[n])]
    /\ fresh' = (fresh /\ Len(ecw2') <= Len(ecw2))
    /\ ecw' # ecw => Len(ecw) <= MaxLag
    /\ UNCHANGED rest

----------------------------------------------------------------------------
\* The old replica has accepted the resource and the new one starts.
RolloutInit ==
    /\ \E s \in Specs : ecw = <<AcceptedEC(s)>>
    /\ \E secrets \in InitialSecrets : secw = [n \in Names |-> <<secrets[n]>>]
    /\ now = 0 /\ ledger = <<>> /\ revoked = {} /\ used = 0
    /\ pc = "idle" /\ ec = NilEC /\ fresh = FALSE /\ token = 0
    /\ previous = 0 /\ started = NoTime /\ fail = NoFail
    /\ queued = TRUE /\ wakeAt = NoTime /\ retrying = FALSE
    /\ ecw2 = ecw /\ secw2 = secw
    /\ pc2 = pc /\ ec2 = ec /\ fresh2 = fresh /\ token2 = token
    /\ previous2 = previous /\ started2 = started /\ fail2 = fail
    /\ queued2 = queued /\ wakeAt2 = wakeAt /\ retrying2 = retrying

OldReplica == (Reconcile \/ Calls \/ Deliveries \/ Crash) /\ NewLearns

NewReplica ==
    (New!Reconcile \/ New!Calls \/ New!Deliveries \/ New!Crash) /\ OldLearns

Surroundings ==
    /\ Users \/ \E n \in Names : GarbageCollect(n)
    /\ NewLearns

SharedTick ==
    /\ Prompt => New!Settled
    /\ Tick
    /\ UNCHANGED <<ecw2, secw2, fresh2, rest2>>

RolloutNext == OldReplica \/ NewReplica \/ Surroundings \/ SharedTick

RolloutSpec == RolloutInit /\ [][RolloutNext]_vars2

----------------------------------------------------------------------------
(* Properties.  PublishedNotRevoked and RevokedWhenGone of Broker speak of  *)
(* what both replicas share, so they are asked of the two together: neither *)
(* revokes what the other has published, and the credential recorded last   *)
(* is revoked even if one was recording it while the other was cleaning up. *)

\* Both replicas may have minted and written the Secret, and only one has
\* recorded its credential: as soon as either has caught up and is not going
\* to try again, the Secret that status describes holds a token that is good,
\* whichever wrote last.
ServedByEither ==
    /\ (Settled /\ ~retrying) \/ (New!Settled /\ ~retrying2)
    /\ UpToDate
    => \E t \in TokensIn(Target) : t \notin revoked /\ now < ledger[t].expiry
=============================================================================
