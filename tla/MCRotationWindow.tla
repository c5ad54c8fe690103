-------------------------- MODULE MCRotationWindow --------------------------
(***************************************************************************)
(* RotationWindow over all small inputs: one credential after another is   *)
(* minted with any requested window, at any time and for any lifetime.     *)
(***************************************************************************)
EXTENDS RotationWindow

CONSTANTS MaxSeconds, MaxStart, MaxLifetime

ASSUME DrawAssumption ==
    MaxSeconds \in Nat /\ MaxStart \in Nat /\ MaxLifetime \in Nat

VARIABLES
    asked,      \* spec.rotateBeforeSeconds
    from,       \* when the credential was minted
    till        \* when it expires

Init == asked = 0 /\ from = 0 /\ till = 1

Draw ==
    /\ asked' \in 0..MaxSeconds
    /\ from' \in 0..MaxStart
    /\ \E l \in 1..MaxLifetime : till' = from' + l

Spec == Init /\ [][Draw]_<<asked, from, till>>

\* A fresh credential is outside the window clampRotateBefore leaves it.
FreshIsNotDue == FreshNotDue(asked, from, till)

\* The requeue computed after the mint agrees with the needsMint that the
\* next reconcile computes from status.
WakeIsDue == WakeFindsDue(asked, from, till)

\* The requeue computed after the mint comes before the expiry.
WakeIsInTime == WakeBeforeExpiry(asked, from, till)
=============================================================================
