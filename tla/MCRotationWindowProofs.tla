----------------------- MODULE MCRotationWindowProofs -----------------------
(***************************************************************************)
(* The three properties of MCRotationWindow, for every bound of its inputs *)
(* and every scale of its times.                                           *)
(***************************************************************************)
EXTENDS MCRotationWindow, RotationWindowProofs

\* Whatever is drawn is a credential that expires after it was minted.
Drawn == asked \in Nat /\ from \in Nat /\ till \in Nat /\ from < till

\* Adding a positive duration to a time yields a later one.
LEMMA SumIsLater ==
    ASSUME NEW f \in Nat, NEW d \in Nat, d > 0
    PROVE  f + d \in Nat /\ f < f + d
  OBVIOUS

\* Every credential of the run is minted before it expires.
LEMMA DrawnInvariant == Spec => []Drawn
  <1>1. Init => Drawn
    BY DEF Init, Drawn
  <1>2. Drawn /\ [Draw]_<<asked, from, till>> => Drawn'
    <2> SUFFICES ASSUME Drawn, [Draw]_<<asked, from, till>> PROVE Drawn'
      OBVIOUS
    <2>1. CASE Draw
      <3>1. asked' \in Nat /\ from' \in Nat
        BY <2>1, DrawAssumption DEF Draw
      <3>2. PICK l \in 1..MaxLifetime : till' = from' + l
        BY <2>1 DEF Draw
      <3>3. l \in Nat /\ l > 0
        BY <3>2, DrawAssumption
      <3>4. till' \in Nat /\ from' < till'
        BY <3>1, <3>2, <3>3, SumIsLater
      <3> QED BY <3>1, <3>4 DEF Drawn
    <2>2. CASE UNCHANGED <<asked, from, till>>
      BY <2>2 DEF Drawn
    <2> QED BY <2>1, <2>2
  <1> QED BY <1>1, <1>2, PTL DEF Spec

\* A fresh credential is never due, so clampRotateBefore prevents the hot
\* loop of mints.
THEOREM FreshNeverDue == Spec => []FreshIsNotDue
  <1>1. Drawn => FreshIsNotDue
    BY FreshCredentialNotDue DEF Drawn, FreshIsNotDue
  <1> QED BY <1>1, DrawnInvariant, PTL

\* The requeue of Reconcile and the needsMint of the next one always agree.
THEOREM WakeAlwaysDue == Spec => []WakeIsDue
  <1>1. Drawn => WakeIsDue
    BY ScheduledWakeFindsDue DEF Drawn, WakeIsDue
  <1> QED BY <1>1, DrawnInvariant, PTL

\* The requeue of Reconcile always comes before the expiry.
THEOREM WakeAlwaysInTime == Spec => []WakeIsInTime
  <1>1. Drawn => WakeIsInTime
    BY ScheduledWakeInTime DEF Drawn, WakeIsInTime
  <1> QED BY <1>1, DrawnInvariant, PTL
=============================================================================
