--------------------------- MODULE RotationWindow ---------------------------
(***************************************************************************)
(* The time arithmetic of the reconciler: when a credential is due for     *)
(* rotation and when the next reconcile is scheduled.  Times are integers  *)
(* in a clock unit finer than what the API server stores: a metav1.Time    *)
(* loses everything below a second when it is written to status.           *)
(***************************************************************************)
EXTENDS Integers

CONSTANTS
    Second,                 \* clock units per second
    DefaultRotateBefore,    \* defaultRotateBefore, in clock units
    MinRequeueAfter         \* minRequeueAfter, in clock units

ASSUME SecondAssumption == Second \in Nat \ {0}
ASSUME DefaultAssumption == DefaultRotateBefore \in Nat \ {0}
ASSUME RequeueAssumption == MinRequeueAfter \in Nat \ {0}

\* A nil *metav1.Time.
NoTime == -1

\* What is left of a time once it has been through the API server: JSON
\* keeps whole seconds only.
Persisted(t) == t - (t % Second)

\* rotateBeforeSeconds as a duration, with the CRD default applied to an
\* object that reaches the reconciler without one.
requestedRotateBefore(seconds) ==
    IF seconds * Second <= 0 THEN DefaultRotateBefore ELSE seconds * Second

\* The lifetime the provider granted, as far as status tells.
grantedLifetime(status) ==
    IF status.expiresAt = NoTime \/ status.lastRotatedAt = NoTime
    THEN 0
    ELSE status.expiresAt - status.lastRotatedAt

\* The rotation window that is used: never more than half of what was
\* granted.
NoClampMutant(requested, granted) == requested
clampRotateBefore(requested, granted) ==
    IF granted <= 0 \/ requested <= granted \div 2
    THEN requested
    ELSE granted \div 2

\* Whether the rotation window of a credential has opened at time t:
\* !now.Add(rotateBefore).Before(expiresAt).
windowOpen(t, rotateBefore, expiresAt) == t + rotateBefore >= expiresAt

\* The window a reconcile that reads this status works with.
statusWindow(seconds, status) ==
    clampRotateBefore(requestedRotateBefore(seconds), grantedLifetime(status))

\* The delay until the window opens, with a floor.
CapMutant(expiresAt, rotateBefore, t) ==
    IF expiresAt - rotateBefore - t > MinRequeueAfter
    THEN MinRequeueAfter
    ELSE expiresAt - rotateBefore - t
LateMutant(expiresAt, rotateBefore, t) ==
    IF expiresAt - t < MinRequeueAfter THEN MinRequeueAfter ELSE expiresAt - t
requeueAfter(expiresAt, rotateBefore, t) ==
    IF expiresAt - rotateBefore - t < MinRequeueAfter
    THEN MinRequeueAfter
    ELSE expiresAt - rotateBefore - t

----------------------------------------------------------------------------
(* What the arithmetic is for.  A credential is minted at time t, expires   *)
(* at time expiry and asks for a window of so many seconds.                 *)

\* The status that such a mint leaves behind.
MintedStatus(t, expiry) ==
    [expiresAt |-> Persisted(expiry), lastRotatedAt |-> Persisted(t)]

\* When the reconcile that minted it asks to be called again.
ScheduledWake(seconds, t, expiry) ==
    t + requeueAfter(expiry,
                     clampRotateBefore(requestedRotateBefore(seconds),
                                       expiry - t), t)

\* Whether a reconcile at time u that reads this status finds its rotation
\* window open.
DueAt(u, seconds, t, expiry) ==
    windowOpen(u, statusWindow(seconds, MintedStatus(t, expiry)),
               Persisted(expiry))

\* A credential granted for two seconds or more is not due the moment it is
\* minted, whatever window the spec asks for ("mint, notice we're already in
\* the window, mint again, forever", clampRotateBefore), although status
\* rounds both its ends.
FreshNotDue(seconds, t, expiry) ==
    expiry - t >= 2 * Second => ~DueAt(t, seconds, t, expiry)

\* The reconcile that was scheduled finds the window open: the rounding of
\* status and the two places that compute the window never make it wake up
\* for nothing and go back to sleep.
WakeFindsDue(seconds, t, expiry) ==
    DueAt(ScheduledWake(seconds, t, expiry), seconds, t, expiry)

\* It is scheduled before the credential expires, unless the grant is no
\* longer than the shortest delay.
WakeBeforeExpiry(seconds, t, expiry) ==
    expiry - t >= 2 /\ expiry - t > MinRequeueAfter
        => ScheduledWake(seconds, t, expiry) < expiry
=============================================================================
