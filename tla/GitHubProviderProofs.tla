------------------------ MODULE GitHubProviderProofs ------------------------
(***************************************************************************)
(* What the github-app provider guarantees for every clock skew, every     *)
(* configuration, every lifetime and latency and every number of broken    *)
(* requests.                                                               *)
(***************************************************************************)
EXTENDS GitHubProvider, RotationWindowProofs, FiniteSetTheorems,
        SequenceTheorems

\* What the locals of a call are while it is under way: only a POST that was
\* answered has created a token, and it is the last one; Revoke has a token
\* that Mint returned.
CallOK ==
    /\ pc = "idle" => handle = 0 /\ reply = "none"
    /\ pc \in {"resolve", "create"} => minted = 0 /\ handle = 0
    /\ pc = "revoke" => handle \in known
    /\ created # 0 => /\ pc = "create" /\ reply = "ok"
                      /\ created = Len(ledger) /\ created \notin known
    /\ pc = "create" /\ reply = "ok" => created # 0
    /\ minted # 0 => minted \in known

TypeInv == TypeOK /\ CallOK

LEMMA UsableConfig ==
    ASSUME NEW c \in Configs, Usable(c)
    PROVE  c \in Configs \cap {"pkcs1", "pkcs8", "notInstalled"}
  BY GitHubAssumption
  DEF Usable, buildGitHubScope, hasRepositories, parsePrivateKey, AllConfigs

\* time.Time.Unix() rounds down.
LEMMA UnixBounds ==
    ASSUME NEW t \in Int
    PROVE  Unix(t) \in Int /\ Unix(t) * Second <= t /\ t < Unix(t) * Second + Second
  <1>1. t \div Second \in Int /\ t % Second \in 0..(Second - 1)
    BY SecondAssumption
  <1>2. t = Second * (t \div Second) + (t % Second)
    BY SecondAssumption
  <1> DEFINE q == t \div Second
             r == t % Second
  <1>3. q \in Int /\ r \in Int /\ 0 <= r /\ r < Second
    BY <1>1, SecondAssumption
  <1>4. t = Second * q + r
    BY <1>2
  <1>6. Unix(t) = q
    BY DEF Unix
  <1> HIDE DEF q, r
  <1>5. Second * q \in Int /\ q * Second = Second * q
    BY <1>3, SecondAssumption
  <1> QED BY <1>3, <1>4, <1>5, <1>6, SecondAssumption

\* The claims are numbers.
LEMMA JWTType ==
    ASSUME ClocksOK
    PROVE  /\ brokerClock \in Int
           /\ signAppJWT(brokerClock) \in [iat : Int, exp : Int, signedAt : Nat]
  <1>1. clock \in Nat /\ skew \in Int
    BY GitHubAssumption DEF ClocksOK
  <1>2. brokerClock \in Int
    BY <1>1 DEF brokerClock
  <1>3. /\ brokerClock - JwtClockSkewGuard \in Int
        /\ brokerClock + (JwtMaxLifetime - JwtClockSkewGuard) \in Int
    BY <1>2, JwtAssumption
  <1>4. /\ Unix(brokerClock - JwtClockSkewGuard) \in Int
        /\ Unix(brokerClock + (JwtMaxLifetime - JwtClockSkewGuard)) \in Int
    BY <1>3, UnixBounds
  <1> QED BY <1>1, <1>2, <1>4 DEF signAppJWT

\* What every return leaves is typed.
LEMMA NothingOK ==
    NoTime \in Int /\ NoJWT \in [iat : Int, exp : Int, signedAt : Nat]
  BY DEF NoTime, NoJWT

LEMMA TypeInit ==
    ASSUME Init
    PROVE  TypeInv
  <1>1. ClocksOK
    <2>1. /\ clock = 0 /\ skew \in Skews /\ started = NoTime /\ window = 0
          /\ rotateAt = NoTime /\ breaks = 0
      BY DEF Init
    <2> QED BY <2>1, NothingOK DEF ClocksOK
  <1>2. RequestOK
    BY NothingOK DEF Init, RequestOK
  <1>3. TokensOK
    <2>1. ledger = <<>> /\ handle = 0 /\ created = 0 /\ minted = 0
          /\ known = {} /\ revoked = {}
      BY DEF Init
    <2> QED BY <2>1 DEF TokensOK
  <1>4. CallOK
    BY DEF Init, CallOK
  <1> QED BY <1>1, <1>2, <1>3, <1>4 DEF TypeInv, TypeOK

LEMMA TypeMint ==
    ASSUME TypeInv, Mint
    PROVE  TypeInv'
  <1>0. ClocksOK /\ RequestOK /\ TokensOK /\ CallOK
    BY DEF TypeInv, TypeOK
  <1>1. ClocksOK'
    BY <1>0, JWTType, NothingOK DEF Mint, Drop, ClocksOK
  <1>2. RequestOK'
    BY <1>0, JWTType, UsableConfig DEF Mint, RequestOK
  <1>3. TokensOK'
    BY <1>0 DEF Mint, Drop, TokensOK
  <1>4. CallOK'
    BY <1>0 DEF Mint, Drop, CallOK
  <1> QED BY <1>1, <1>2, <1>3, <1>4 DEF TypeInv, TypeOK

LEMMA TypeMintRejected ==
    ASSUME TypeInv, MintRejected
    PROVE  TypeInv'
  <1>0. ClocksOK /\ RequestOK /\ TokensOK /\ CallOK
    BY DEF TypeInv, TypeOK
  <1>1. ClocksOK'
    BY <1>0, NothingOK DEF MintRejected, Drop, request, ClocksOK
  <1>2. RequestOK'
    BY <1>0 DEF MintRejected, request, RequestOK
  <1>3. TokensOK'
    BY <1>0 DEF MintRejected, Drop, request, TokensOK
  <1>4. CallOK'
    BY <1>0 DEF MintRejected, Drop, request, CallOK
  <1> QED BY <1>1, <1>2, <1>3, <1>4 DEF TypeInv, TypeOK

LEMMA TypeRevoke ==
    ASSUME TypeInv, Revoke
    PROVE  TypeInv'
  <1>0. ClocksOK /\ RequestOK /\ TokensOK /\ CallOK
    BY DEF TypeInv, TypeOK
  <1>1. ClocksOK'
    BY <1>0, JWTType DEF Revoke, schedule, ClocksOK
  <1>2. RequestOK'
    BY <1>0 DEF Revoke, RequestOK
  <1>3. TokensOK'
    BY <1>0 DEF Revoke, TokensOK
  <1>4. CallOK'
    BY <1>0 DEF Revoke, CallOK
  <1> QED BY <1>1, <1>2, <1>3, <1>4 DEF TypeInv, TypeOK

LEMMA TypeServeResolve ==
    ASSUME TypeInv, ServeResolve
    PROVE  TypeInv'
  <1>0. ClocksOK /\ RequestOK /\ TokensOK /\ CallOK
    BY DEF TypeInv, TypeOK
  <1>1. ClocksOK'
    BY <1>0 DEF ServeResolve, Answer, schedule, ClocksOK
  <1>2. RequestOK'
    BY <1>0 DEF ServeResolve, Answer, RequestOK
  <1>3. TokensOK'
    BY <1>0 DEF ServeResolve, Answer, TokensOK
  <1>4. CallOK'
    BY <1>0 DEF ServeResolve, Answer, CallOK
  <1> QED BY <1>1, <1>2, <1>3, <1>4 DEF TypeInv, TypeOK

\* Appending to a sequence of a type.
LEMMA AppendType ==
    ASSUME NEW S, NEW s \in Seq(S), NEW x \in S
    PROVE  /\ Append(s, x) \in Seq(S)
           /\ Len(Append(s, x)) = Len(s) + 1
           /\ Len(s) \in Nat
           /\ Append(s, x)[Len(s) + 1] = x
  OBVIOUS

\* What GitHub has done with a POST: nothing, or one more token.
LEMMA CreateSteps ==
    ASSUME TypeInv, ServeCreate
    PROVE  /\ pc = "create" /\ reply = "none" /\ revoked' = revoked
           /\ UNCHANGED <<clock, skew, pc, started, jwt, config, handle, minted,
                          window, rotateAt, known, breaks>>
           /\ \/ reply' = "refused" /\ UNCHANGED <<created, ledger>>
              \/ /\ reply' = "ok" /\ created' = Len(ledger) + 1
                 /\ \E tok \in [provider : {Name}, expiry : Int] :
                      /\ tok.expiry = Persisted(clock + TokenLifetime)
                      /\ ledger' = Append(ledger, tok)
  <1>1. clock + TokenLifetime \in Nat
    BY GitHubAssumption DEF TypeInv, TypeOK, ClocksOK
  <1> DEFINE tok == [provider |-> Name, expiry |-> Persisted(clock + TokenLifetime)]
  <1>2. /\ tok \in [provider : {Name}, expiry : Int]
        /\ tok.expiry = Persisted(clock + TokenLifetime)
    BY <1>1, PersistedBounds
  <1>3. CASE JWTValid /\ Len(ledger) < MaxTokens
    <2>1. /\ ledger' = Append(ledger, tok) /\ created' = Len(ledger) + 1
          /\ Answer("ok") /\ pc = "create" /\ revoked' = revoked
      BY <1>3 DEF ServeCreate
    <2> HIDE DEF tok
    <2> QED BY <1>2, <2>1 DEF Answer, schedule
  <1>4. CASE ~(JWTValid /\ Len(ledger) < MaxTokens)
    BY <1>4 DEF ServeCreate, Answer, schedule
  <1> QED BY <1>3, <1>4

LEMMA TypeServeCreate ==
    ASSUME TypeInv, ServeCreate
    PROVE  TypeInv'
  <1>0. ClocksOK /\ RequestOK /\ TokensOK /\ CallOK
    BY DEF TypeInv, TypeOK
  <1>s. CASE reply' = "refused" /\ UNCHANGED <<created, ledger>>
    <2>1. ClocksOK' /\ RequestOK'
      BY <1>0, <1>s, CreateSteps DEF ClocksOK, RequestOK
    <2>2. TokensOK'
      BY <1>0, <1>s, CreateSteps DEF TokensOK
    <2>3. CallOK'
      BY <1>0, <1>s, CreateSteps DEF CallOK
    <2> QED BY <2>1, <2>2, <2>3 DEF TypeInv, TypeOK
  <1>c. CASE /\ reply' = "ok" /\ created' = Len(ledger) + 1
             /\ \E tok \in [provider : {Name}, expiry : Int] :
                  ledger' = Append(ledger, tok)
    <2>0. PICK tok \in [provider : {Name}, expiry : Int] :
              ledger' = Append(ledger, tok)
      BY <1>c
    <2>l. /\ ledger' \in Seq([provider : {Name}, expiry : Int])
          /\ Len(ledger') = Len(ledger) + 1
          /\ Len(ledger) \in Nat
      BY <1>0, <2>0, AppendType DEF TokensOK
    <2>u. /\ pc = "create" /\ reply = "none"
          /\ UNCHANGED <<clock, skew, pc, started, jwt, config, handle, minted,
                         window, rotateAt, known, revoked, breaks>>
      BY CreateSteps
    <2>1. ClocksOK' /\ RequestOK'
      BY <1>0, <1>c, <2>u DEF ClocksOK, RequestOK
    <2>2. TokensOK'
      <3>1. /\ handle' \in 0..Len(ledger') /\ minted' \in 0..Len(ledger')
            /\ created' \in 0..Len(ledger')
        BY <1>0, <1>c, <2>l, <2>u DEF TokensOK
      <3>2. known' \subseteq 1..Len(ledger') /\ revoked' \subseteq known'
        BY <1>0, <2>l, <2>u DEF TokensOK
      <3> QED BY <2>l, <3>1, <3>2 DEF TokensOK
    <2>3. CallOK'
      <3>1. created' = Len(ledger') /\ created' # 0 /\ created' \notin known'
        BY <1>0, <1>c, <2>l, <2>u DEF TokensOK
      <3> QED BY <1>0, <1>c, <2>u, <3>1 DEF CallOK
    <2> QED BY <2>1, <2>2, <2>3 DEF TypeInv, TypeOK
  <1> QED BY <1>s, <1>c, CreateSteps

LEMMA TypeServeRevoke ==
    ASSUME TypeInv, ServeRevoke
    PROVE  TypeInv'
  <1>0. ClocksOK /\ RequestOK /\ TokensOK /\ CallOK
    BY DEF TypeInv, TypeOK
  <1>1. /\ reply' \in {"ok", "refused"} /\ pc = "revoke"
        /\ revoked' \in {revoked, revoked \cup {handle}}
        /\ UNCHANGED <<clock, skew, pc, started, jwt, config, handle, created,
                       minted, window, rotateAt, known, ledger, breaks>>
    BY DEF ServeRevoke, Answer, schedule
  <1>2. handle \in known /\ created = 0
    BY <1>0, <1>1 DEF CallOK
  <1>3. ClocksOK' /\ RequestOK'
    BY <1>0, <1>1 DEF ClocksOK, RequestOK
  <1>4. TokensOK'
    BY <1>0, <1>1, <1>2 DEF TokensOK
  <1>5. CallOK'
    BY <1>0, <1>1, <1>2 DEF CallOK
  <1> QED BY <1>3, <1>4, <1>5 DEF TypeInv, TypeOK

LEMMA TypeResolved ==
    ASSUME TypeInv, Resolved
    PROVE  TypeInv'
  <1>0. ClocksOK /\ RequestOK /\ TokensOK /\ CallOK
    BY DEF TypeInv, TypeOK
  <1>1. ClocksOK' /\ RequestOK'
    BY <1>0 DEF Resolved, schedule, ClocksOK, RequestOK
  <1>2. TokensOK'
    BY <1>0 DEF Resolved, TokensOK
  <1>3. CallOK'
    BY <1>0 DEF Resolved, CallOK
  <1> QED BY <1>1, <1>2, <1>3 DEF TypeInv, TypeOK

\* A return keeps the types of the locals.
LEMMA ReturnOK ==
    ASSUME TypeInv, Return
    PROVE  RequestOK' /\ started' \in Int
  BY NothingOK DEF Return, RequestOK

\* Where Reconcile gets its schedule from.
LEMMA ScheduleType ==
    ASSUME NEW seconds \in Int, NEW expiry \in Int, NEW t \in Int
    PROVE  /\ clampRotateBefore(requestedRotateBefore(seconds), expiry - t) \in Int
           /\ \A w \in Int : requeueAfter(expiry, w, t) \in Int
  <1>1. requestedRotateBefore(seconds) \in Nat
    BY RequestedPositive
  <1>2. expiry - t \in Int
    OBVIOUS
  <1>3. clampRotateBefore(requestedRotateBefore(seconds), expiry - t) \in Int
    BY <1>1, <1>2, ClampBounds
  <1>4. \A w \in Int : requeueAfter(expiry, w, t) \in Int
    BY RequeueAssumption DEF requeueAfter
  <1> QED BY <1>3, <1>4

\* The elements of a sequence of a type.
LEMMA ElementType ==
    ASSUME NEW S, NEW s \in Seq(S), NEW i \in 1..Len(s)
    PROVE  s[i] \in S
  OBVIOUS

\* A mint that returns has its token in the ledger, typed.
LEMMA MintedToken ==
    ASSUME TypeInv, Minted
    PROVE  /\ created = Len(ledger) /\ created \in 1..Len(ledger)
           /\ ledger[created].expiry \in Int
           /\ started \in Int /\ brokerClock \in Int
  <1>1. created # 0 /\ created = Len(ledger) /\ created \in 0..Len(ledger)
    BY DEF Minted, TypeInv, TypeOK, TokensOK, CallOK
  <1>2. created \in 1..Len(ledger)
    BY <1>1 DEF TypeInv, TypeOK, TokensOK
  <1>3. ledger[created] \in [provider : {Name}, expiry : Int]
    BY <1>2, ElementType DEF TypeInv, TypeOK, TokensOK
  <1> QED BY <1>1, <1>2, <1>3, JWTType DEF TypeInv, TypeOK, ClocksOK

LEMMA TypeMinted ==
    ASSUME TypeInv, Minted
    PROVE  TypeInv'
  <1>0. ClocksOK /\ RequestOK /\ TokensOK /\ CallOK /\ Return
    BY DEF TypeInv, TypeOK, Minted
  <1> DEFINE expiry == ledger[created].expiry
  <1>1. PICK seconds \in Windows :
            window' = clampRotateBefore(requestedRotateBefore(seconds),
                                        expiry - started)
    BY DEF Minted, ScheduleRotation
  <1>2. rotateAt' = brokerClock + requeueAfter(expiry, window', started)
    BY DEF Minted, ScheduleRotation
  <1>3. expiry \in Int /\ started \in Int /\ brokerClock \in Int /\ seconds \in Int
    BY MintedToken, GitHubAssumption
  <1> HIDE DEF expiry
  <1>4. window' \in Int
    BY <1>1, <1>3, ScheduleType
  <1>5. requeueAfter(expiry, window', started) \in Int
    BY <1>3, <1>4, ScheduleType
  <1>6. rotateAt' \in Int
    BY <1>2, <1>3, <1>5
  <1>7. ClocksOK'
    BY <1>0, <1>4, <1>6, ReturnOK DEF Minted, ClocksOK
  <1>8. RequestOK'
    BY <1>0, ReturnOK
  <1>9. TokensOK'
    <2>1. /\ ledger' = ledger /\ revoked' = revoked /\ handle' = 0 /\ created' = 0
          /\ minted' = created /\ known' = known \cup {created}
      BY DEF Minted, Return
    <2>2. known' \subseteq 1..Len(ledger') /\ revoked' \subseteq known'
      BY <1>0, <2>1, MintedToken DEF TokensOK
    <2> QED BY <1>0, <2>1, <2>2 DEF TokensOK
  <1>10. CallOK'
    BY <1>0 DEF Minted, Return, CallOK
  <1> QED BY <1>7, <1>8, <1>9, <1>10 DEF TypeInv, TypeOK

\* The other ways a call may end leave the tokens and the schedule alone.
LEMMA TypeEnded ==
    ASSUME TypeInv, Return, breaks' \in Nat,
           UNCHANGED <<clock, skew, minted, schedule, known, ledger, revoked>>
    PROVE  TypeInv'
  <1>0. ClocksOK /\ RequestOK /\ TokensOK /\ CallOK
    BY DEF TypeInv, TypeOK
  <1>1. ClocksOK'
    BY <1>0, ReturnOK DEF schedule, ClocksOK
  <1>2. RequestOK'
    BY ReturnOK
  <1>3. TokensOK'
    <2>1. /\ handle' = 0 /\ created' = 0
          /\ UNCHANGED <<minted, known, ledger, revoked>>
      BY DEF Return
    <2>2. Len(ledger) \in Nat
      BY <1>0 DEF TokensOK
    <2> QED BY <1>0, <2>1, <2>2 DEF TokensOK
  <1>4. CallOK'
    BY <1>0 DEF Return, CallOK
  <1> QED BY <1>1, <1>2, <1>3, <1>4 DEF TypeInv, TypeOK

LEMMA TypeTick ==
    ASSUME TypeInv, Tick
    PROVE  TypeInv'
  <1>0. ClocksOK /\ RequestOK /\ TokensOK /\ CallOK
    BY DEF TypeInv, TypeOK
  <1>1. ClocksOK'
    BY <1>0 DEF Tick, request, schedule, ClocksOK
  <1>2. RequestOK'
    BY <1>0 DEF Tick, request, RequestOK
  <1>3. TokensOK'
    BY <1>0 DEF Tick, request, TokensOK
  <1>4. CallOK'
    BY <1>0 DEF Tick, request, CallOK
  <1> QED BY <1>1, <1>2, <1>3, <1>4 DEF TypeInv, TypeOK

LEMMA TypeStutter ==
    ASSUME TypeInv, UNCHANGED vars
    PROVE  TypeInv'
  <1>0. ClocksOK /\ RequestOK /\ TokensOK /\ CallOK
    BY DEF TypeInv, TypeOK
  <1>1. ClocksOK'
    BY <1>0 DEF vars, request, schedule, ClocksOK
  <1>2. RequestOK'
    BY <1>0 DEF vars, request, RequestOK
  <1>3. TokensOK'
    BY <1>0 DEF vars, request, TokensOK
  <1>4. CallOK'
    BY <1>0 DEF vars, request, CallOK
  <1> QED BY <1>1, <1>2, <1>3, <1>4 DEF TypeInv, TypeOK

LEMMA TypeNext ==
    ASSUME TypeInv, [Next]_vars
    PROVE  TypeInv'
  <1>1. ASSUME Revoked \/ Refused PROVE TypeInv'
    <2>1. breaks' \in Nat
      BY <1>1 DEF Revoked, Refused, TypeInv, TypeOK, ClocksOK
    <2> QED BY <1>1, <2>1, TypeEnded DEF Revoked, Refused
  <1>2. ASSUME Broken PROVE TypeInv'
    <2>1. breaks' \in Nat
      BY <1>2 DEF Broken, TypeInv, TypeOK, ClocksOK
    <2> QED BY <1>2, <2>1, TypeEnded DEF Broken
  <1> QED
    BY <1>1, <1>2, TypeMint, TypeMintRejected, TypeRevoke, TypeServeResolve,
       TypeServeCreate, TypeServeRevoke, TypeResolved, TypeMinted, TypeTick,
       TypeStutter
    DEF Next, GitHub, Replies

LEMMA TypeInvariant == Spec => []TypeInv
  BY TypeInit, TypeNext, PTL DEF Spec

\* Every variable of the provider keeps its type; in particular no request is
\* made with a configuration that Mint should have rejected, and no token is
\* revoked that Mint did not return.
THEOREM ProviderTypeCorrect == Spec => []TypeOK
  <1>1. TypeInv => TypeOK
    BY DEF TypeInv
  <1> QED BY <1>1, TypeInvariant, PTL

----------------------------------------------------------------------------
(* The clocks. *)

\* A call, with the rest of its reconcile, takes no longer than MaxLatency.
LatencyOK ==
    pc # "idle" => started <= brokerClock /\ brokerClock <= started + MaxLatency

\* The JWT is the one signed at signedAt, which has passed.
JwtOK ==
    pc \in {"resolve", "create"} =>
        /\ jwt.signedAt <= clock
        /\ jwt.iat = Unix(jwt.signedAt + skew - JwtClockSkewGuard)
        /\ jwt.exp = Unix(jwt.signedAt + skew + (JwtMaxLifetime - JwtClockSkewGuard))

\* The token the current Mint has created lives about as long as GitHub
\* grants, counted from the start of the call as well as from now.
ExpiryOK ==
    created # 0 =>
        /\ ledger[created].expiry > started + TokenLifetime - Second - skew
        /\ ledger[created].expiry <= clock + TokenLifetime

\* The rotation is scheduled a window ahead of the expiry, late by no more
\* than the call has taken.
RotationOK ==
    minted # 0 => rotateAt <= ledger[minted].expiry - window + MaxLatency

TimeOK == LatencyOK /\ JwtOK /\ ExpiryOK /\ RotationOK

\* A step in terms of the two clocks and of the call.
LEMMA ClockTypes ==
    ASSUME TypeInv
    PROVE  /\ clock \in Nat /\ skew \in Int /\ skew \in Skews /\ started \in Int
           /\ jwt \in [iat : Int, exp : Int, signedAt : Nat]
           /\ brokerClock \in Int /\ brokerClock = clock + skew
           /\ window \in Int /\ rotateAt \in Int
  BY GitHubAssumption, JWTType
  DEF TypeInv, TypeOK, ClocksOK, RequestOK, brokerClock

\* Only Tick moves the clocks, by one, and only while the call has time left.
LEMMA ClockSteps ==
    ASSUME TypeInv, [Next]_vars
    PROVE  /\ skew' = skew
           /\ \/ clock' = clock
              \/ /\ clock' = clock + 1
                 /\ pc # "idle" => brokerClock < started + MaxLatency
                 /\ UNCHANGED <<request, minted, schedule, known, ledger, revoked>>
  BY DEF Next, GitHub, Replies, Mint, MintRejected, Revoke, ServeResolve,
         ServeCreate, ServeRevoke, Answer, Resolved, Minted, Revoked, Refused,
         Broken, Tick, vars

\* What a step does to the call.
LEMMA CallSteps ==
    ASSUME TypeInv, [Next]_vars
    PROVE  \/ pc' = "idle"
           \/ pc' # "idle" /\ pc # "idle" /\ started' = started /\ jwt' = jwt
           \/ Mint
           \/ Revoke
  BY DEF Next, GitHub, Replies, MintRejected, ServeResolve, ServeCreate,
         ServeRevoke, Answer, Resolved, Minted, Revoked, Refused, Broken,
         Return, Tick, vars, request

LEMMA LatencyNext ==
    ASSUME TypeInv, TypeInv', LatencyOK, [Next]_vars
    PROVE  LatencyOK'
  <1>1. /\ clock \in Nat /\ skew \in Int /\ started \in Int
        /\ brokerClock = clock + skew
        /\ clock' \in Nat /\ brokerClock' = clock' + skew'
    BY ClockTypes DEF brokerClock, TypeInv, TypeOK, ClocksOK
  <1>2. MaxLatency \in Nat
    BY GitHubBoundsAssumption
  <1>3. CASE Mint \/ Revoke
    <2>1. started' = brokerClock /\ clock' = clock /\ skew' = skew
      BY <1>3 DEF Mint, Revoke
    <2> QED BY <1>1, <1>2, <2>1 DEF LatencyOK
  <1>4. CASE pc' # "idle" /\ pc # "idle" /\ started' = started
    <2>1. started <= brokerClock /\ brokerClock <= started + MaxLatency
      BY <1>4 DEF LatencyOK
    <2>2. skew' = skew
      BY ClockSteps
    <2>3. CASE clock' = clock
      <3>1. brokerClock' = brokerClock
        BY <1>1, <2>2, <2>3
      <3> QED BY <1>4, <2>1, <3>1 DEF LatencyOK
    <2>4. CASE clock' # clock
      <3>1. clock' = clock + 1 /\ brokerClock < started + MaxLatency
        BY <1>4, <2>4, ClockSteps
      <3>2. brokerClock' = brokerClock + 1
        BY <1>1, <2>2, <3>1
      <3>3. started <= brokerClock' /\ brokerClock' <= started + MaxLatency
        BY <1>1, <1>2, <2>1, <3>1, <3>2
      <3> QED BY <1>4, <3>3 DEF LatencyOK
    <2> QED BY <2>3, <2>4
  <1>5. CASE pc' = "idle"
    BY <1>5 DEF LatencyOK
  <1> QED BY <1>3, <1>4, <1>5, CallSteps

LEMMA JwtNext ==
    ASSUME TypeInv, JwtOK, [Next]_vars
    PROVE  JwtOK'
  <1>1. clock \in Nat /\ skew' = skew /\ (clock' = clock \/ clock' = clock + 1)
    BY ClockTypes, ClockSteps
  <1>2. CASE Mint
    <2>1. jwt' = signAppJWT(brokerClock) /\ clock' = clock
      BY <1>2 DEF Mint
    <2>2. /\ jwt'.signedAt = clock
          /\ jwt'.iat = Unix(brokerClock - JwtClockSkewGuard)
          /\ jwt'.exp = Unix(brokerClock + (JwtMaxLifetime - JwtClockSkewGuard))
      BY <2>1 DEF signAppJWT
    <2>3. /\ brokerClock - JwtClockSkewGuard
               = jwt'.signedAt + skew' - JwtClockSkewGuard
          /\ brokerClock + (JwtMaxLifetime - JwtClockSkewGuard)
               = jwt'.signedAt + skew' + (JwtMaxLifetime - JwtClockSkewGuard)
      BY <1>1, <2>2, ClockTypes, JwtAssumption
    <2>4. clock <= clock'
      BY <1>1
    <2> QED BY <2>2, <2>3, <2>4 DEF JwtOK
  <1>3. CASE Revoke \/ pc' = "idle"
    BY <1>3 DEF Revoke, JwtOK
  <1>4. CASE pc' # "idle" /\ pc # "idle" /\ jwt' = jwt
    <2>1. CASE pc' \in {"resolve", "create"}
      <3>1. pc \in {"resolve", "create"}
        BY <1>4, <2>1 DEF Next, GitHub, Replies, Mint, MintRejected, Revoke,
             ServeResolve, ServeCreate, ServeRevoke, Answer, Resolved, Minted,
             Revoked, Refused, Broken, Return, Tick, vars, request
      <3>2. jwt'.signedAt \in Nat /\ jwt'.signedAt <= clock
        BY <1>4, <3>1, ClockTypes DEF JwtOK
      <3>3. jwt'.signedAt <= clock'
        BY <1>1, <3>2
      <3> QED BY <1>1, <1>4, <3>1, <3>3 DEF JwtOK
    <2>2. CASE pc' \notin {"resolve", "create"}
      BY <2>2 DEF JwtOK
    <2> QED BY <2>1, <2>2
  <1> QED BY <1>2, <1>3, <1>4, CallSteps

\* Either a token has just been created, or it is the one from before.
LEMMA CreatedSteps ==
    ASSUME TypeInv, [Next]_vars
    PROVE  \/ ServeCreate
           \/ created' = 0
           \/ created' = created /\ ledger' = ledger /\ pc' = pc
              /\ started' = started
  <1>1. ASSUME Minted \/ Revoked \/ Refused \/ Broken PROVE created' = 0
    BY <1>1 DEF Minted, Revoked, Refused, Broken, Return
  <1>2. ASSUME Mint \/ Revoke \/ Resolved PROVE created' = 0
    BY <1>2 DEF Mint, Revoke, Resolved, TypeInv, CallOK
  <1>3. ASSUME MintRejected \/ ServeResolve \/ ServeRevoke \/ Tick \/ UNCHANGED vars
        PROVE  UNCHANGED <<created, ledger, pc, started>>
    BY <1>3 DEF MintRejected, ServeResolve, ServeRevoke, Answer, Tick, vars,
                request
  <1> QED BY <1>1, <1>2, <1>3 DEF Next, GitHub, Replies

LEMMA ExpiryNext ==
    ASSUME TypeInv, LatencyOK, ExpiryOK, [Next]_vars
    PROVE  ExpiryOK'
  <1>1. /\ clock \in Nat /\ skew \in Int /\ started \in Int
        /\ skew' = skew /\ (clock' = clock \/ clock' = clock + 1)
        /\ TokenLifetime \in Nat /\ Second \in Nat
    BY ClockTypes, ClockSteps, GitHubAssumption, SecondAssumption
  <1>2. CASE ServeCreate
    <2>0. UNCHANGED <<clock, skew, started>> /\ pc = "create" /\ reply = "none"
      BY <1>2, CreateSteps
    <2>1. CASE UNCHANGED <<created, ledger>>
      BY <2>0, <2>1 DEF ExpiryOK
    <2>2. CASE ~UNCHANGED <<created, ledger>>
      <3>1. PICK tok \in [provider : {Name}, expiry : Int] :
              /\ tok.expiry = Persisted(clock + TokenLifetime)
              /\ ledger' = Append(ledger, tok) /\ created' = Len(ledger) + 1
        BY <1>2, <2>2, CreateSteps
      <3>2. ledger'[created'] = tok
        BY <3>1, AppendType DEF TypeInv, TypeOK, TokensOK
      <3>3. clock + TokenLifetime \in Nat
        BY <1>1
      <3>4. /\ tok.expiry \in Int
            /\ clock + TokenLifetime - Second < tok.expiry
            /\ tok.expiry <= clock + TokenLifetime
        <4> DEFINE t == clock + TokenLifetime
        <4>1. t \in Nat
          BY <3>3
        <4> HIDE DEF t
        <4>2. Persisted(t) \in Int /\ t - Second < Persisted(t) /\ Persisted(t) <= t
          BY <4>1, PersistedBounds
        <4>3. tok.expiry = Persisted(t)
          BY <3>1 DEF t
        <4>4. tok.expiry \in Int /\ t - Second < tok.expiry /\ tok.expiry <= t
          BY <4>2, <4>3
        <4> QED BY <1>1, <4>4 DEF t
      <3>5. started <= clock + skew
        BY <2>0, ClockTypes DEF LatencyOK
      <3>6. tok.expiry > started + TokenLifetime - Second - skew
        BY <1>1, <3>4, <3>5
      <3> QED BY <2>0, <3>2, <3>4, <3>6 DEF ExpiryOK
    <2> QED BY <2>1, <2>2
  <1>3. CASE created' = 0
    BY <1>3 DEF ExpiryOK
  <1>4. CASE /\ created' = created /\ ledger' = ledger /\ pc' = pc
             /\ started' = started
    <2>1. CASE created # 0
      <3>1. ledger[created].expiry \in Int
        <4>1. created \in 1..Len(ledger)
          BY <2>1 DEF TypeInv, TypeOK, TokensOK
        <4>2. ledger[created] \in [provider : {Name}, expiry : Int]
          BY <4>1, ElementType DEF TypeInv, TypeOK, TokensOK
        <4> QED BY <4>2
      <3>2. /\ ledger[created].expiry > started + TokenLifetime - Second - skew
            /\ ledger[created].expiry <= clock + TokenLifetime
        BY <2>1 DEF ExpiryOK
      <3>3. ledger[created].expiry <= clock' + TokenLifetime
        BY <1>1, <3>1, <3>2
      <3> QED BY <1>1, <1>4, <3>2, <3>3 DEF ExpiryOK
    <2>2. CASE created = 0
      BY <1>4, <2>2 DEF ExpiryOK
    <2> QED BY <2>1, <2>2
  <1> QED BY <1>2, <1>3, <1>4, CreatedSteps

LEMMA RotationNext ==
    ASSUME TypeInv, LatencyOK, ExpiryOK, RotationOK, [Next]_vars
    PROVE  RotationOK'
  <1>1. CASE Minted
    <2> DEFINE expiry == ledger[created].expiry
               granted == expiry - started
               w == window'
    <2>1. PICK seconds \in Windows :
              w = clampRotateBefore(requestedRotateBefore(seconds), granted)
      BY <1>1 DEF Minted, ScheduleRotation
    <2>2. /\ rotateAt' = brokerClock + requeueAfter(expiry, w, started)
          /\ ledger'[minted'].expiry = expiry
      BY <1>1 DEF Minted, ScheduleRotation
    <2>3. expiry \in Int /\ started \in Int /\ brokerClock \in Int
      BY <1>1, MintedToken
    <2>4. brokerClock <= started + MaxLatency
      BY <1>1 DEF Minted, LatencyOK
    <2>5. expiry > started + TokenLifetime - Second - skew
      BY <1>1, MintedToken DEF ExpiryOK
    <2>6. requestedRotateBefore(seconds) \in Nat
      BY <2>1, RequestedPositive, GitHubAssumption
    <2>7. /\ TokenLifetime - Second - MaxLatency - skew >= 2 * MinRequeueAfter
          /\ skew \in Int /\ TokenLifetime \in Nat /\ Second \in Nat
          /\ MaxLatency \in Nat /\ MinRequeueAfter \in Nat \ {0}
      BY ClockTypes, GrantAssumption, GitHubAssumption, GitHubBoundsAssumption,
         SecondAssumption, RequeueAssumption
    <2> HIDE DEF expiry, w
    <2>8. granted \in Int /\ granted >= 2 * MinRequeueAfter
      BY <2>3, <2>5, <2>7
    <2>9. w \in Int /\ 2 * w <= granted
      <3>1. granted > 0
        BY <2>7, <2>8
      <3> HIDE DEF granted
      <3> QED BY <2>1, <2>6, <2>8, <3>1, ClampBounds
    <2>10. requeueAfter(expiry, w, started) = expiry - w - started
      BY <2>3, <2>7, <2>8, <2>9 DEF requeueAfter
    <2>11. rotateAt' <= expiry - w + MaxLatency
      BY <2>2, <2>3, <2>4, <2>7, <2>9, <2>10
    <2> QED BY <2>2, <2>11 DEF RotationOK, w
  <1>2. CASE minted' = 0
    BY <1>2 DEF RotationOK
  <1>3. CASE ServeCreate
    <2>1. minted' = 0
      BY <1>3, CreateSteps DEF TypeInv, CallOK
    <2> QED BY <2>1 DEF RotationOK
  <1>4. CASE UNCHANGED <<minted, window, rotateAt, ledger>>
    BY <1>4 DEF RotationOK
  <1> QED
    BY <1>1, <1>2, <1>3, <1>4
    DEF Next, GitHub, Replies, Mint, MintRejected, Drop, Revoke, ServeResolve,
        ServeRevoke, Answer, Resolved, Revoked, Refused, Broken, Tick, vars,
        schedule

LEMMA TimeInvariant == Spec => []TimeOK
  <1>1. Init => TimeOK
    BY DEF Init, TimeOK, LatencyOK, JwtOK, ExpiryOK, RotationOK
  <1>2. TypeInv /\ TypeInv' /\ TimeOK /\ [Next]_vars => TimeOK'
    BY LatencyNext, JwtNext, ExpiryNext, RotationNext DEF TimeOK
  <1> QED BY <1>1, <1>2, TypeInvariant, PTL DEF Spec

\* The clock skew guard does what it is there for: while the two clocks are
\* within the guard of each other, GitHub accepts the JWT of both requests of
\* a Mint, for every skew and every resolution of the clock.
THEOREM SkewIsTolerated == Spec => []ToleratesSkew
  <1>1. ASSUME TypeInv, TimeOK PROVE ToleratesSkew
    <2> SUFFICES ASSUME
            pc \in {"resolve", "create"},
            -JwtClockSkewGuard <= skew, skew <= JwtClockSkewGuard,
            clock - jwt.signedAt < JwtMaxLifetime - 2 * JwtClockSkewGuard - Second
          PROVE JWTValid
      BY DEF ToleratesSkew
    <2> DEFINE a == jwt.signedAt
               i == a + skew - JwtClockSkewGuard
               e == a + skew + (JwtMaxLifetime - JwtClockSkewGuard)
    <2>1. /\ a \in Nat /\ a <= clock /\ clock \in Nat /\ skew \in Int
          /\ jwt.iat = Unix(i) /\ jwt.exp = Unix(e)
      BY <1>1, ClockTypes DEF TimeOK, JwtOK
    <2>2. JwtClockSkewGuard \in Nat /\ JwtMaxLifetime \in Nat /\ Second \in Nat
      BY JwtAssumption, SecondAssumption
    <2> HIDE DEF a
    <2>3. i \in Int /\ e \in Int
      BY <2>1, <2>2
    <2>i. i <= clock
      BY <2>1, <2>2
    <2>e. clock < e - Second /\ e <= clock + JwtMaxLifetime
      BY <2>1, <2>2 DEF a
    <2> HIDE DEF i, e
    <2> DEFINE ui == Unix(i) * Second
               ue == Unix(e) * Second
    <2>4. /\ Unix(i) \in Int /\ ui <= i
          /\ Unix(e) \in Int /\ ue <= e /\ e < ue + Second
      BY <2>3, UnixBounds
    <2>5. ui \in Int /\ ue \in Int
      BY <2>2, <2>4
    <2>6. jwt.iat * Second = ui /\ jwt.exp * Second = ue
      BY <2>1
    <2> HIDE DEF ui, ue
    <2>7. ui <= clock /\ clock < ue /\ ue <= clock + JwtMaxLifetime
      BY <2>1, <2>2, <2>3, <2>4, <2>5, <2>i, <2>e
    <2> QED BY <2>6, <2>7 DEF JWTValid
  <1> QED BY <1>1, TypeInvariant, TimeInvariant, PTL

\* For every skew, latency and requested window: a token is rotated before
\* GitHub lets it expire if the window that is used covers the latency and
\* what the broker's clock is behind.
THEOREM RotationIsInTime == Spec => []RotatesInTime
  <1>1. ASSUME TypeInv, TimeOK PROVE RotatesInTime
    <2> SUFFICES ASSUME minted # 0, MaxLatency - skew < window
                 PROVE  rotateAt - skew < ledger[minted].expiry
      BY DEF RotatesInTime
    <2> DEFINE expiry == ledger[minted].expiry
    <2>1. minted \in 1..Len(ledger)
      BY <1>1 DEF TypeInv, TypeOK, TokensOK
    <2>2. ledger[minted] \in [provider : {Name}, expiry : Int]
      BY <1>1, <2>1, ElementType DEF TypeInv, TypeOK, TokensOK
    <2>3. expiry \in Int
      BY <2>2
    <2>4. rotateAt <= expiry - window + MaxLatency
      BY <1>1 DEF TimeOK, RotationOK
    <2> HIDE DEF expiry
    <2>5. rotateAt - skew < expiry
      BY <1>1, <2>3, <2>4, ClockTypes, GitHubBoundsAssumption
    <2> QED BY <2>5 DEF expiry
  <1> QED BY <1>1, TypeInvariant, TimeInvariant, PTL

----------------------------------------------------------------------------
(* Tokens nobody knows. *)

Orphans == (1..Len(ledger)) \ (known \cup {created})

LEMMA OrphansFinite ==
    ASSUME TypeInv
    PROVE  IsFiniteSet(Orphans) /\ Cardinality(Orphans) \in Nat
  <1>1. IsFiniteSet(1..Len(ledger))
    BY FS_Interval DEF TypeInv, TypeOK, TokensOK
  <1>2. IsFiniteSet(Orphans)
    BY <1>1, FS_Subset DEF Orphans
  <1> QED BY <1>2, FS_CardinalityType

\* Only a broken request makes an orphan, and no more than one.
LEMMA OrphanSteps ==
    ASSUME TypeInv, [Next]_vars
    PROVE  \/ Orphans' \subseteq Orphans /\ breaks' = breaks
           \/ Orphans' \subseteq Orphans \cup {created} /\ breaks' = breaks + 1
  <1>1. CASE ServeCreate
    <2>0. known' = known /\ breaks' = breaks /\ created = 0
      BY <1>1, CreateSteps DEF TypeInv, CallOK
    <2>1. CASE UNCHANGED <<created, ledger>>
      BY <2>0, <2>1 DEF Orphans
    <2>2. CASE ~UNCHANGED <<created, ledger>>
      <3>1. created' = Len(ledger) + 1 /\ Len(ledger') = Len(ledger) + 1
            /\ Len(ledger) \in Nat
        BY <1>1, <2>2, CreateSteps, AppendType DEF TypeInv, TypeOK, TokensOK
      <3>2. \A i \in 1..Len(ledger') : i = created' \/ (i \in 1..Len(ledger) /\ i # 0)
        BY <3>1
      <3>3. Orphans' = (1..Len(ledger')) \ (known \cup {created'})
        BY <2>0 DEF Orphans
      <3> QED BY <2>0, <3>2, <3>3 DEF Orphans
    <2> QED BY <2>1, <2>2
  <1>2. CASE Minted
    BY <1>2 DEF Minted, Return, Orphans
  <1>3. CASE Broken
    BY <1>3 DEF Broken, Return, Orphans
  <1>4. CASE Revoked \/ Refused
    <2>1. created = 0 /\ created' = 0 /\ UNCHANGED <<known, ledger, breaks>>
      BY <1>4 DEF Revoked, Refused, Return, TypeInv, CallOK
    <2> QED BY <2>1 DEF Orphans
  <1>5. CASE \/ Mint \/ MintRejected \/ Revoke \/ ServeResolve \/ ServeRevoke
             \/ Resolved \/ Tick \/ UNCHANGED vars
    <2>1. UNCHANGED <<created, known, ledger, breaks>>
      BY <1>5 DEF Mint, MintRejected, Revoke, ServeResolve, ServeRevoke, Answer,
                  Resolved, Tick, vars, request
    <2> QED BY <2>1 DEF Orphans
  <1> QED BY <1>1, <1>2, <1>3, <1>4, <1>5 DEF Next, GitHub, Replies

\* Mint returns every token it is given: whatever GitHub holds that the
\* controller does not know is due to a broken request, one for each.
THEOREM OrphansOnlyByLoss == Spec => []OrphansAreLost
  <1>1. Init => OrphansAreLost
    <2> SUFFICES ASSUME Init PROVE OrphansAreLost
      OBVIOUS
    <2>1. Len(ledger) = 0 /\ breaks = 0
      BY DEF Init
    <2>2. (1..Len(ledger)) \ (known \cup {created}) = {}
      BY <2>1
    <2> QED BY <2>1, <2>2, FS_EmptySet DEF OrphansAreLost
  <1>2. TypeInv /\ TypeInv' /\ OrphansAreLost /\ [Next]_vars => OrphansAreLost'
    <2> SUFFICES ASSUME TypeInv, TypeInv', OrphansAreLost, [Next]_vars
                 PROVE  OrphansAreLost'
      OBVIOUS
    <2>1. IsFiniteSet(Orphans) /\ Cardinality(Orphans) \in Nat
      BY OrphansFinite
    <2>2. Cardinality(Orphans) <= breaks /\ breaks \in Nat
      BY DEF OrphansAreLost, Orphans, TypeInv, TypeOK, ClocksOK
    <2>3. CASE Orphans' \subseteq Orphans /\ breaks' = breaks
      <3>1. Cardinality(Orphans') <= Cardinality(Orphans) /\ IsFiniteSet(Orphans')
        BY <2>1, <2>3, FS_Subset
      <3>2. Cardinality(Orphans') \in Nat
        BY <3>1, FS_CardinalityType
      <3>3. Cardinality(Orphans') <= breaks'
        BY <2>1, <2>2, <2>3, <3>1, <3>2
      <3> QED BY <3>3 DEF OrphansAreLost, Orphans
    <2>4. CASE Orphans' \subseteq Orphans \cup {created} /\ breaks' = breaks + 1
      <3> DEFINE more == Orphans \cup {created}
      <3>1. IsFiniteSet(more) /\ Cardinality(more) \in Nat
            /\ Cardinality(more) <= Cardinality(Orphans) + 1
        <4>1. IsFiniteSet(more)
              /\ Cardinality(more) \in {Cardinality(Orphans), Cardinality(Orphans) + 1}
          BY <2>1, FS_AddElement
        <4> HIDE DEF more
        <4> QED BY <2>1, <4>1
      <3>2. Cardinality(Orphans') <= Cardinality(more) /\ IsFiniteSet(Orphans')
        BY <2>4, <3>1, FS_Subset
      <3>3. Cardinality(Orphans') \in Nat
        BY <3>2, FS_CardinalityType
      <3> HIDE DEF more
      <3>4. Cardinality(Orphans') <= breaks'
        BY <2>1, <2>2, <2>4, <3>1, <3>2, <3>3
      <3> QED BY <3>4 DEF OrphansAreLost, Orphans
    <2> QED BY <2>3, <2>4, OrphanSteps
  <1> QED BY <1>1, <1>2, TypeInvariant, PTL DEF Spec

----------------------------------------------------------------------------
(* The contract. *)

\* The whole of a sequence, and all but its last element.
LEMMA SubSeqFacts ==
    ASSUME NEW S, NEW s \in Seq(S)
    PROVE  /\ SubSeq(s, 1, Len(s)) = s
           /\ \A x \in S : SubSeq(Append(s, x), 1, Len(s)) = s
           /\ Len(s) > 0 =>
                /\ Append(SubSeq(s, 1, Len(s) - 1), s[Len(s)]) = s
                /\ Len(SubSeq(s, 1, Len(s) - 1)) = Len(s) - 1
  <1>1. SubSeq(s, 1, Len(s)) = s
    OBVIOUS
  <1>2. ASSUME NEW t \in Seq(S), NEW x \in S
        PROVE  SubSeq(Append(t, x), 1, Len(t)) = t
    OBVIOUS
  <1>3. ASSUME Len(s) > 0
        PROVE  /\ Append(SubSeq(s, 1, Len(s) - 1), s[Len(s)]) = s
               /\ Len(SubSeq(s, 1, Len(s) - 1)) = Len(s) - 1
    <2>1. PICK t \in Seq(S), x \in S : s = Append(t, x)
      BY <1>3, SequenceEmptyOrAppend
    <2>2. Len(s) - 1 = Len(t) /\ s[Len(s)] = x
      BY <2>1
    <2>3. SubSeq(s, 1, Len(s) - 1) = t
      BY <1>2, <2>1, <2>2
    <2> QED BY <2>1, <2>2, <2>3
  <1> QED BY <1>1, <1>2, <1>3

\* The credentials issued are those in the ledger, but for one that the
\* current Mint has created and not returned.
LEMMA IssuedFacts ==
    ASSUME TypeInv
    PROVE  /\ created = 0 => issued = ledger
           /\ created # 0 => /\ Append(issued, ledger[created]) = ledger
                             /\ Len(issued) + 1 = created
  <1>1. /\ ledger \in Seq([provider : {Name}, expiry : Int])
        /\ Len(ledger) \in Nat /\ created \in 0..Len(ledger)
        /\ created # 0 => created = Len(ledger)
    BY DEF TypeInv, TypeOK, TokensOK, CallOK
  <1>2. CASE created = 0
    <2>1. Len(ledger) - inFlight = Len(ledger)
      BY <1>1, <1>2 DEF inFlight
    <2> QED BY <1>1, <1>2, <2>1, SubSeqFacts DEF issued
  <1>3. CASE created # 0
    <2>1. issued = SubSeq(ledger, 1, Len(ledger) - 1)
      BY <1>3 DEF issued, inFlight
    <2>2. Len(ledger) > 0 /\ created = Len(ledger)
      BY <1>1, <1>3
    <2>3. Len(issued) = Len(ledger) - 1 /\ Append(issued, ledger[created]) = ledger
      BY <1>1, <2>1, <2>2, SubSeqFacts
    <2> QED BY <1>1, <1>3, <2>2, <2>3
  <1> QED BY <1>2, <1>3

\* The same after a step that returns.
LEMMA IssuedReturned ==
    ASSUME TypeInv, created' = 0, ledger' = ledger
    PROVE  issued' = ledger
  <1>1. ledger \in Seq([provider : {Name}, expiry : Int]) /\ Len(ledger) \in Nat
    BY DEF TypeInv, TypeOK, TokensOK
  <1>2. Len(ledger') - inFlight' = Len(ledger)
    BY <1>1 DEF inFlight
  <1>3. issued' = SubSeq(ledger, 1, Len(ledger))
    BY <1>2 DEF issued
  <1> QED BY <1>1, <1>3, SubSeqFacts

\* The call as the contract sees it, before and after a step.
LEMMA CallFacts ==
    ASSUME CallOK
    PROVE  /\ pc = "idle" => openCall = Contract!NoCall
           /\ pc \in {"resolve", "create"} => openCall = Contract!MintCall(Name)
           /\ pc = "revoke" => openCall = Contract!RevokeCall(Name, handle)
  BY DEF CallOK, openCall, Contract!NoCall, Contract!MintCall,
         Contract!RevokeCall

LEMMA CallFactsNext ==
    ASSUME CallOK'
    PROVE  /\ pc' = "idle" => openCall' = Contract!NoCall
           /\ pc' \in {"resolve", "create"} => openCall' = Contract!MintCall(Name)
           /\ pc' = "revoke" => openCall' = Contract!RevokeCall(Name, handle')
  BY DEF CallOK, openCall, Contract!NoCall, Contract!MintCall,
         Contract!RevokeCall

LEMMA SimMint ==
    ASSUME TypeInv, TypeInv', Mint
    PROVE  Contract!CallMint
  <1>1. openCall = Contract!NoCall /\ openCall' = Contract!MintCall(Name)
    BY CallFacts, CallFactsNext DEF Mint, TypeInv
  <1>2. minted' = 0 /\ brokerClock' = brokerClock
    BY DEF Mint, Drop, brokerClock
  <1>3. issued' = issued /\ invalidated' = invalidated
    BY DEF Mint, issued, inFlight, invalidated
  <1> QED BY <1>1, <1>2, <1>3 DEF Contract!CallMint

LEMMA SimMintRejected ==
    ASSUME TypeInv, TypeInv', MintRejected
    PROVE  Contract!Forget
  <1>1. openCall' = Contract!NoCall
    BY CallFactsNext DEF MintRejected, request, TypeInv
  <1>2. minted' = 0 /\ brokerClock' = brokerClock
    BY DEF MintRejected, Drop, brokerClock
  <1>3. issued' = issued /\ invalidated' = invalidated
    BY DEF MintRejected, request, issued, inFlight, invalidated
  <1> QED BY <1>1, <1>2, <1>3 DEF Contract!Forget

LEMMA SimRevoke ==
    ASSUME TypeInv, TypeInv', Revoke
    PROVE  Contract!CallRevoke
  <1>1. /\ openCall = Contract!NoCall
        /\ openCall' = Contract!RevokeCall(Name, handle')
    BY CallFacts, CallFactsNext DEF Revoke, TypeInv
  <1>2. minted' = minted /\ brokerClock' = brokerClock
    BY DEF Revoke, brokerClock
  <1>3. issued' = issued /\ invalidated' = invalidated
    BY DEF Revoke, RequestOK, TypeInv, CallOK, issued, inFlight, invalidated
  <1>4. issued = ledger
    <2>1. created = 0
      BY DEF Revoke, TypeInv, CallOK
    <2> QED BY <2>1, IssuedFacts
  <1>5. handle' \in 1..Len(issued) /\ issued[handle'].provider = Name
    <2>1. handle' \in 1..Len(ledger)
      BY DEF Revoke, TypeInv, TypeOK, TokensOK
    <2>2. ledger[handle'] \in [provider : {Name}, expiry : Int]
      BY <2>1, ElementType DEF TypeInv, TypeOK, TokensOK
    <2> QED BY <1>4, <2>1, <2>2
  <1> QED BY <1>1, <1>2, <1>3, <1>5 DEF Contract!CallRevoke

\* What GitHub does is not seen before the call returns.
LEMMA SimGitHub ==
    ASSUME TypeInv, TypeInv', GitHub \/ Resolved
    PROVE  UNCHANGED Contract!contract
  <1>1. CASE ServeResolve \/ Resolved
    <2>1. /\ UNCHANGED <<clock, skew, handle, minted, created, ledger, revoked>>
          /\ pc = "resolve" /\ pc' \in {"resolve", "create"}
      BY <1>1 DEF ServeResolve, Answer, Resolved
    <2>2. openCall' = openCall
      BY <2>1, CallFacts, CallFactsNext DEF TypeInv
    <2>3. issued' = issued /\ invalidated' = invalidated /\ brokerClock' = brokerClock
      BY <2>1 DEF issued, inFlight, invalidated, brokerClock
    <2> QED BY <2>1, <2>2, <2>3 DEF Contract!contract
  <1>2. CASE ServeRevoke
    <2>1. /\ UNCHANGED <<clock, skew, pc, handle, minted, created, ledger>>
          /\ pc = "revoke" /\ reply = "none"
      BY <1>2 DEF ServeRevoke, Answer
    <2>2. openCall' = openCall
      BY <2>1 DEF openCall
    <2>3. issued' = issued /\ brokerClock' = brokerClock
      BY <2>1 DEF issued, inFlight, brokerClock
    <2>4. \/ reply' = "refused" /\ revoked' = revoked
          \/ reply' = "ok" /\ revoked' = revoked \cup {handle} /\ handle \notin revoked
      BY <1>2 DEF ServeRevoke, Answer
    <2>5. invalidated' = invalidated
      BY <2>1, <2>4 DEF invalidated
    <2> QED BY <2>1, <2>2, <2>3, <2>5 DEF Contract!contract
  <1>3. CASE ServeCreate
    <2>1. /\ UNCHANGED <<clock, skew, pc, handle, minted, revoked>>
          /\ pc = "create" /\ created = 0
      BY <1>3, CreateSteps DEF TypeInv, CallOK
    <2>2. openCall' = openCall /\ invalidated' = invalidated /\ brokerClock' = brokerClock
      BY <2>1 DEF openCall, invalidated, brokerClock
    <2>3. issued' = issued
      <3>1. CASE UNCHANGED <<created, ledger>>
        BY <3>1 DEF issued, inFlight
      <3>2. CASE ~UNCHANGED <<created, ledger>>
        <4>0. ledger \in Seq([provider : {Name}, expiry : Int]) /\ Len(ledger) \in Nat
          BY DEF TypeInv, TypeOK, TokensOK
        <4>1. PICK tok \in [provider : {Name}, expiry : Int] :
                  ledger' = Append(ledger, tok) /\ created' = Len(ledger) + 1
          BY <1>3, <3>2, CreateSteps
        <4>2. Len(ledger') - inFlight' = Len(ledger)
          BY <4>0, <4>1, AppendType DEF inFlight
        <4>3. issued' = SubSeq(Append(ledger, tok), 1, Len(ledger))
          BY <4>1, <4>2 DEF issued
        <4>4. issued' = ledger
          BY <4>0, <4>3, SubSeqFacts
        <4> QED BY <2>1, <4>4, IssuedFacts
      <3> QED BY <3>1, <3>2
    <2> QED BY <2>1, <2>2, <2>3 DEF Contract!contract
  <1> QED BY <1>1, <1>2, <1>3 DEF GitHub

\* The token a Mint has created is a grant of the contract when it returns.
LEMMA CreateReturned ==
    ASSUME TypeInv, TimeOK, created # 0, pc = "create", created' = 0,
           ledger' = ledger
    PROVE  Contract!Create
  <1>1. issued' = Append(issued, ledger[created])
    BY IssuedFacts, IssuedReturned
  <1>2. created \in 1..Len(ledger)
    BY DEF TypeInv, TypeOK, TokensOK
  <1>3. ledger[created] \in [provider : {Name}, expiry : Int]
    BY <1>2, ElementType DEF TypeInv, TypeOK, TokensOK
  <1> DEFINE expiry == ledger[created].expiry
             l == expiry - brokerClock
  <1>4. /\ expiry > started + TokenLifetime - Second - skew
        /\ expiry <= clock + TokenLifetime
        /\ brokerClock <= started + MaxLatency
    BY DEF TimeOK, ExpiryOK, LatencyOK
  <1>5. expiry \in Int
    BY <1>3
  <1>6. ledger[created] = [provider |-> openCall.provider, expiry |-> brokerClock + l]
    <2>1. openCall.provider = Name
      BY DEF openCall
    <2>2. ledger[created] = [provider |-> Name, expiry |-> expiry]
      BY <1>3
    <2>3. brokerClock + l = expiry
      BY <1>5, ClockTypes
    <2> QED BY <2>1, <2>2, <2>3
  <1> HIDE DEF expiry
  <1>7. l \in 1..(TokenLifetime - skew)
    <2>1. /\ TokenLifetime - Second - MaxLatency - skew >= 2 * MinRequeueAfter
          /\ skew \in Int /\ TokenLifetime \in Nat /\ Second \in Nat
          /\ MaxLatency \in Nat /\ MinRequeueAfter \in Nat \ {0}
      BY ClockTypes, GrantAssumption, GitHubAssumption, GitHubBoundsAssumption,
         SecondAssumption, RequeueAssumption
    <2>2. /\ clock \in Nat /\ started \in Int /\ brokerClock \in Int
          /\ brokerClock = clock + skew
      BY ClockTypes
    <2>3. l \in Int /\ l >= 1
      BY <1>4, <1>5, <2>1, <2>2
    <2>4. l <= TokenLifetime - skew
      BY <1>4, <1>5, <2>1, <2>2
    <2> HIDE DEF l
    <2> QED BY <2>1, <2>3, <2>4
  <1>8. l \in GrantedLifetimes
    BY <1>7, ClockTypes DEF GrantedLifetimes
  <1> HIDE DEF l
  <1> QED BY <1>1, <1>6, <1>8 DEF Contract!Create

LEMMA SimMintReturns ==
    ASSUME TypeInv, TypeInv', TimeOK, pc \in {"resolve", "create"},
           Minted \/ Refused \/ Broken
    PROVE  Contract!MintReturns
  <1>1. openCall = Contract!MintCall(Name) /\ openCall.op = "mint"
    BY CallFacts DEF TypeInv, Contract!MintCall
  <1>2. /\ pc' = "idle" /\ created' = 0
        /\ UNCHANGED <<clock, skew, ledger, revoked>>
    BY DEF Minted, Refused, Broken, Return
  <1>3. openCall' = Contract!NoCall
    BY <1>2, CallFactsNext DEF TypeInv
  <1>4. brokerClock' = brokerClock /\ invalidated' = invalidated
    BY <1>2 DEF brokerClock, invalidated
  <1>5. \/ Contract!Create /\ minted' = Len(issued) + 1
        \/ Contract!Create /\ minted' = 0
        \/ issued' = issued /\ minted' = 0
    <2>1. CASE Minted
      <3>1. created # 0 /\ pc = "create" /\ minted' = created
        BY <2>1 DEF Minted, TypeInv, CallOK
      <3>2. Contract!Create
        BY <1>2, <3>1, CreateReturned
      <3>3. Len(issued) + 1 = created
        BY <3>1, IssuedFacts
      <3> QED BY <3>1, <3>2, <3>3
    <2>2. CASE Refused \/ Broken
      <3>1. minted' = 0
        BY <2>2 DEF Refused, Broken, TypeInv, CallOK
      <3>2. CASE created = 0
        <4>1. issued = ledger /\ issued' = ledger
          BY <1>2, <3>2, IssuedFacts, IssuedReturned
        <4> QED BY <3>1, <4>1
      <3>3. CASE created # 0
        <4>1. pc = "create"
          BY <3>3 DEF TypeInv, CallOK
        <4>2. Contract!Create
          BY <1>2, <3>3, <4>1, CreateReturned
        <4> QED BY <3>1, <4>2
      <3> QED BY <3>2, <3>3
    <2> QED BY <2>1, <2>2
  <1> QED BY <1>1, <1>3, <1>4, <1>5 DEF Contract!MintReturns

LEMMA SimRevokeReturns ==
    ASSUME TypeInv, TypeInv', pc = "revoke", Revoked \/ Refused \/ Broken
    PROVE  Contract!RevokeReturns
  <1>1. openCall.op = "revoke" /\ openCall.handle = handle
    BY DEF openCall
  <1>2. /\ pc' = "idle" /\ created' = 0 /\ created = 0
        /\ UNCHANGED <<clock, skew, minted, ledger, revoked>>
    BY DEF Revoked, Refused, Broken, Return, TypeInv, CallOK
  <1>3. openCall' = Contract!NoCall
    BY <1>2, CallFactsNext DEF TypeInv
  <1>4. brokerClock' = brokerClock /\ issued' = issued
    BY <1>2 DEF brokerClock, issued, inFlight
  <1>5. invalidated' \in {invalidated, invalidated \cup {handle}}
    BY <1>2 DEF invalidated
  <1> QED BY <1>1, <1>2, <1>3, <1>4, <1>5 DEF Contract!RevokeReturns

LEMMA SimTick ==
    ASSUME TypeInv, Tick
    PROVE  Contract!Tick
  <1>1. brokerClock' > brokerClock
    <2>1. clock' = clock + 1 /\ skew' = skew
      BY DEF Tick
    <2>2. brokerClock' = brokerClock + 1 /\ brokerClock \in Int
      BY <2>1, ClockTypes DEF brokerClock
    <2> QED BY <2>2
  <1>2. UNCHANGED <<issued, invalidated, openCall, minted>>
    BY DEF Tick, request, issued, inFlight, invalidated, openCall
  <1> QED BY <1>1, <1>2 DEF Contract!Tick

\* The github-app provider implements the contract of provider.Provider, for
\* every configuration, skew, latency and number of broken requests.
THEOREM GitHubImplementsProvider == Spec => ImplementsProvider
  <1>1. Init => Contract!Init
    <2> SUFFICES ASSUME Init PROVE Contract!Init
      OBVIOUS
    <2>1. TypeInv /\ created = 0 /\ ledger = <<>> /\ revoked = {} /\ pc = "idle"
          /\ minted = 0
      BY TypeInit DEF Init
    <2>2. issued = <<>> /\ brokerClock \in Int /\ openCall = Contract!NoCall
      BY <2>1, IssuedFacts, ClockTypes, CallFacts DEF TypeInv
    <2>3. invalidated = {}
      BY <2>1 DEF invalidated
    <2> QED BY <2>1, <2>2, <2>3 DEF Contract!Init
  <1>2. TypeInv /\ TypeInv' /\ TimeOK /\ [Next]_vars
            => [Contract!Next]_Contract!contract
    <2> SUFFICES ASSUME TypeInv, TypeInv', TimeOK, [Next]_vars
                 PROVE  [Contract!Next]_Contract!contract
      OBVIOUS
    <2>1. CASE Mint
      BY <2>1, SimMint DEF Contract!Next
    <2>2. CASE MintRejected
      BY <2>2, SimMintRejected DEF Contract!Next
    <2>3. CASE Revoke
      BY <2>3, SimRevoke DEF Contract!Next
    <2>4. CASE GitHub \/ Resolved
      BY <2>4, SimGitHub
    <2>5. CASE Minted \/ Revoked \/ Refused \/ Broken
      <3>1. CASE pc \in {"resolve", "create"}
        <4>1. Minted \/ Refused \/ Broken
          BY <2>5, <3>1 DEF Revoked
        <4> QED BY <3>1, <4>1, SimMintReturns DEF Contract!Next
      <3>2. CASE pc = "revoke"
        <4>1. Revoked \/ Refused \/ Broken
          BY <2>5, <3>2 DEF Minted
        <4> QED BY <3>2, <4>1, SimRevokeReturns DEF Contract!Next
      <3>3. pc \in {"resolve", "create", "revoke"}
        BY <2>5 DEF Minted, Revoked, Refused, Broken, TypeInv, TypeOK, RequestOK,
                    CallOK
      <3> QED BY <3>1, <3>2, <3>3
    <2>6. CASE Tick
      BY <2>6, SimTick DEF Contract!Next
    <2>7. CASE UNCHANGED vars
      BY <2>7 DEF vars, request, Contract!contract, issued, inFlight,
                  invalidated, openCall, brokerClock
    <2> QED
      BY <2>1, <2>2, <2>3, <2>4, <2>5, <2>6, <2>7 DEF Next, GitHub, Replies
  <1> QED
    BY <1>1, <1>2, TypeInvariant, TimeInvariant, PTL
    DEF Spec, ImplementsProvider, Contract!Spec
=============================================================================
