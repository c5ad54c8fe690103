------------------------ MODULE RotationWindowProofs ------------------------
(***************************************************************************)
(* The facts about RotationWindow that TLC checks over small inputs, for   *)
(* every clock resolution, every requested window and every lifetime.      *)
(***************************************************************************)
EXTENDS RotationWindow, TLAPS

\* Rounding to seconds moves a time back by less than a second.
LEMMA PersistedBounds ==
    ASSUME NEW t \in Nat
    PROVE  /\ Persisted(t) \in Int
           /\ t - Second < Persisted(t)
           /\ Persisted(t) <= t
           /\ 0 <= Persisted(t)
  <1>1. t % Second \in 0..(Second - 1)
    BY SecondAssumption
  <1>2. t % Second <= t
    <2>1. t = Second * (t \div Second) + (t % Second)
      BY SecondAssumption
    <2>2. t \div Second \in Nat
      BY SecondAssumption
    <2> DEFINE q == t \div Second
               r == t % Second
    <2>3. Second * q \in Nat
      BY <2>2, SecondAssumption
    <2> QED BY <2>1, <2>3, <1>1, SecondAssumption
  <1> QED BY <1>1, <1>2, SecondAssumption DEF Persisted

\* Half of a lifetime, as clampRotateBefore rounds it.
LEMMA HalfBounds ==
    ASSUME NEW g \in Int
    PROVE  g \div 2 \in Int /\ 2 * (g \div 2) <= g /\ g < 2 * (g \div 2) + 2
  OBVIOUS

\* A requested window is a positive duration.
LEMMA RequestedPositive ==
    ASSUME NEW seconds \in Int
    PROVE  requestedRotateBefore(seconds) \in Nat \ {0}
  <1>1. seconds * Second \in Int
    BY SecondAssumption
  <1> QED BY <1>1, DefaultAssumption DEF requestedRotateBefore

\* The window that is used is an integer, at most what was requested, and
\* whenever a lifetime is known at most half of it, whatever was requested;
\* it is only smaller than requested when that half is.
LEMMA ClampBounds ==
    ASSUME NEW req \in Nat, NEW g \in Int
    PROVE  /\ clampRotateBefore(req, g) \in Int
           /\ clampRotateBefore(req, g) <= req
           /\ g > 0 => 2 * clampRotateBefore(req, g) <= g
           /\ clampRotateBefore(req, g) = req
              \/ (g > 0 /\ clampRotateBefore(req, g) = g \div 2)
  BY HalfBounds DEF clampRotateBefore

\* The status of a mint keeps both ends of the lifetime.
LEMMA MintedGrant ==
    ASSUME NEW t \in Nat, NEW expiry \in Nat
    PROVE  grantedLifetime(MintedStatus(t, expiry))
               = Persisted(expiry) - Persisted(t)
  BY PersistedBounds DEF grantedLifetime, MintedStatus, NoTime

\* The hot loop clampRotateBefore is there to prevent cannot happen: no
\* credential granted for two seconds or more is due at the time of its own
\* mint, for any requested window.
THEOREM FreshCredentialNotDue ==
    ASSUME NEW seconds \in Int, NEW t \in Nat, NEW expiry \in Nat
    PROVE  FreshNotDue(seconds, t, expiry)
  <1> SUFFICES ASSUME expiry - t >= 2 * Second, DueAt(t, seconds, t, expiry)
               PROVE  FALSE
    BY DEF FreshNotDue
  <1> DEFINE e == Persisted(expiry)
             s == Persisted(t)
             req == requestedRotateBefore(seconds)
             w == clampRotateBefore(req, e - s)
  <1>1. /\ e \in Int /\ s \in Int
        /\ expiry - Second < e /\ e <= expiry
        /\ t - Second < s /\ s <= t
    BY PersistedBounds
  <1>2. req \in Nat
    BY RequestedPositive
  <1>3. e - s > 0
    BY <1>1, SecondAssumption
  <1> HIDE DEF e, s, req
  <1>4. w \in Int /\ 2 * w <= e - s
    BY <1>1, <1>2, <1>3, ClampBounds
  <1> HIDE DEF w
  <1>5. t + w < e
    BY <1>1, <1>4, SecondAssumption
  <1>6. t + w >= e
    BY MintedGrant DEF DueAt, windowOpen, statusWindow, w, e, s, req,
                       MintedStatus
  <1> QED BY <1>1, <1>4, <1>5, <1>6

\* The two computations of the rotation window agree: the reconcile scheduled
\* after a mint finds the credential due, so it never wakes for nothing.
THEOREM ScheduledWakeFindsDue ==
    ASSUME NEW seconds \in Int, NEW t \in Nat, NEW expiry \in Nat, t < expiry
    PROVE  WakeFindsDue(seconds, t, expiry)
  <1> DEFINE e == Persisted(expiry)
             s == Persisted(t)
             req == requestedRotateBefore(seconds)
             g == e - s
             w == clampRotateBefore(req, g)
             v == clampRotateBefore(req, expiry - t)
             wake == ScheduledWake(seconds, t, expiry)
  <1>1. e \in Int /\ s \in Int /\ e <= expiry /\ s <= t
    BY PersistedBounds
  <1>2. req \in Nat
    BY RequestedPositive
  <1> HIDE DEF e, s, req
  <1>g. g \in Int
    BY <1>1
  <1> HIDE DEF g
  <1>3. w \in Int /\ (w = req \/ (g > 0 /\ w = g \div 2))
    BY <1>g, <1>2, ClampBounds
  <1>4. v \in Int /\ v <= req /\ 2 * v <= expiry - t
    BY <1>2, ClampBounds
  <1>5. wake \in Int /\ wake >= expiry - v
    BY <1>4, RequeueAssumption DEF wake, ScheduledWake, requeueAfter, v, req
  <1> HIDE DEF w, v, wake
  <1>6. wake + w >= e
    <2>1. CASE w = req
      BY <1>1, <1>2, <1>4, <1>5, <2>1
    <2>2. CASE w = g \div 2
      <3>1. g < 2 * w + 2
        BY <1>g, <2>2, HalfBounds
      <3>2. e - s < 2 * w + 2
        BY <3>1 DEF g
      <3> QED BY <1>1, <1>3, <1>4, <1>5, <3>2
    <2> QED BY <1>3, <2>1, <2>2
  <1> QED
    BY <1>6, MintedGrant
    DEF WakeFindsDue, DueAt, windowOpen, statusWindow, w, g, e, s, req, wake,
        MintedStatus

\* The reconcile scheduled after a mint comes before the credential expires.
THEOREM ScheduledWakeInTime ==
    ASSUME NEW seconds \in Int, NEW t \in Nat, NEW expiry \in Nat
    PROVE  WakeBeforeExpiry(seconds, t, expiry)
  <1> SUFFICES ASSUME expiry - t >= 2, expiry - t > MinRequeueAfter
               PROVE  ScheduledWake(seconds, t, expiry) < expiry
    BY DEF WakeBeforeExpiry
  <1> DEFINE req == requestedRotateBefore(seconds)
             g == expiry - t
             v == clampRotateBefore(req, g)
  <1>1. req \in Nat \ {0}
    BY RequestedPositive
  <1>g. g \in Int /\ g >= 2
    OBVIOUS
  <1> HIDE DEF req, g
  <1>2. v \in Int /\ (v = req \/ v = g \div 2)
    BY <1>1, <1>g, ClampBounds
  <1>3. v >= 1
    BY <1>1, <1>g, <1>2, HalfBounds
  <1> QED
    BY <1>2, <1>3, RequeueAssumption
    DEF ScheduledWake, requeueAfter, v, g, req
=============================================================================
