--------------------------- MODULE GitHubProvider ---------------------------
(***************************************************************************)
(* The github-app provider: Mint signs an App JWT, looks up the App's      *)
(* installation and asks it for a token; Revoke deletes the token with     *)
(* itself.  Every HTTP request is one action of GitHub, which handles it   *)
(* by its own clock, and one of the provider, which reads the reply; the   *)
(* connection may break before and after the first of them.                *)
(*                                                                         *)
(* clock is GitHub's; the broker's is skew ahead of it.  Times and Second  *)
(* are those of RotationWindow.                                            *)
(***************************************************************************)
EXTENDS RotationWindow, Sequences, FiniteSets

CONSTANTS
    JwtMaxLifetime,     \* jwtMaxLifetime, GitHub's cap on exp
    JwtClockSkewGuard,  \* jwtClockSkewGuard
    TokenLifetime,      \* what GitHub grants, whatever ttlSeconds asks for
    Skews,              \* how far the broker's clock may be ahead
    Configs,            \* the configurations of the App
    Windows,            \* the rotateBeforeSeconds of the spec
    MaxLatency,         \* bound on the time a call takes; for Mint, on that
                        \* of the whole reconcile the call belongs to
    MaxTokens, MaxBreaks, MaxTime   \* bounds of the instance

Name == "github-app"

\* The App's configuration: in order, with the key in either encoding; in
\* order but for an App that is not installed on the repository; or what is
\* wrong with it.
AllConfigs ==
    {"pkcs1", "pkcs8", "notInstalled", "noConfig", "noSecret", "noAppID",
     "noPrivateKey", "noRepositories", "notPEM", "notAKey", "notRSA"}

\* Each tells whether it succeeds with a configuration.
buildGitHubScope(c) ==
    c \notin {"noConfig", "noSecret", "noAppID", "noPrivateKey"}
hasRepositories(c) == c # "noRepositories"
parsePrivateKey(c) == c \notin {"notPEM", "notAKey", "notRSA"}
UnparsedMutant(c) == buildGitHubScope(c) /\ hasRepositories(c)
Usable(c) == buildGitHubScope(c) /\ hasRepositories(c) /\ parsePrivateKey(c)

ASSUME JwtAssumption ==
    /\ JwtMaxLifetime \in Nat
    /\ JwtClockSkewGuard \in Nat
ASSUME GitHubAssumption ==
    /\ TokenLifetime \in Nat
    /\ Skews # {} /\ Skews \subseteq Int
    /\ Configs \subseteq AllConfigs
    /\ Windows # {} /\ Windows \subseteq Int
ASSUME GitHubBoundsAssumption ==
    MaxLatency \in Nat /\ MaxTokens \in Nat /\ MaxBreaks \in Nat /\ MaxTime \in Nat

\* A token is good for twice the shortest delay when Reconcile returns.
ASSUME GrantAssumption ==
    \A s \in Skews :
        TokenLifetime - Second - MaxLatency - s >= 2 * MinRequeueAfter

VARIABLES
    clock,      \* GitHub's clock
    skew,       \* the broker's clock minus GitHub's
    pc,         \* the request whose reply the provider waits for, or idle
    started,    \* the broker's clock when the call began; for Mint, as
                \* Reconcile has read it
    jwt,        \* the App JWT: iat, exp; and signedAt, GitHub's time of it
    config,     \* MintRequest.Scope
    handle,     \* the token of the handle passed to Revoke
    reply,      \* GitHub's answer to the request: none, ok or refused
    created,    \* the token GitHub created for the current Mint, 0 if none
    minted,     \* the token Mint returned last, 0 if it failed
    window,     \* the rotation window that is used for it
    rotateAt,   \* when the controller means to rotate it, by its own clock
    known,      \* the tokens Mint has returned
    ledger,     \* all tokens GitHub has created
    revoked,    \* those that were revoked
    breaks      \* how often a request has failed

request == <<pc, started, jwt, config, handle, reply, created>>
schedule == <<window, rotateAt>>
vars == <<clock, skew, request, minted, schedule, known, ledger, revoked, breaks>>

\* p.Now(), as the broker's clock shows it.
brokerClock == clock + skew

NoJWT == [iat |-> 0, exp |-> 0, signedAt |-> 0]

----------------------------------------------------------------------------
(* The App JWT. *)

\* time.Time.Unix().
Unix(t) == t \div Second

\* signAppJWT
NoBackdateMutant(t) ==
    [iat |-> Unix(t), exp |-> Unix(t + JwtMaxLifetime), signedAt |-> clock]
signAppJWT(t) ==
    [iat |-> Unix(t - JwtClockSkewGuard),
     exp |-> Unix(t + (JwtMaxLifetime - JwtClockSkewGuard)),
     signedAt |-> clock]

\* GitHub takes a JWT that was issued in its past, has not expired, and does
\* so within its cap.
JWTValid ==
    /\ jwt.iat * Second <= clock
    /\ clock < jwt.exp * Second
    /\ jwt.exp * Second <= clock + JwtMaxLifetime

----------------------------------------------------------------------------
(* Calls begin and end. *)

\* The provider returns; its locals are gone.
Return ==
    /\ pc' = "idle"
    /\ jwt' = NoJWT
    /\ config' = ""
    /\ handle' = 0
    /\ reply' = "none"
    /\ created' = 0
    /\ started' = NoTime

\* A reconcile that mints has none of the last one's results.
Drop == minted' = 0 /\ window' = 0 /\ rotateAt' = NoTime

\* Mint with a scope that can be used: the checks pass, the key parses, the
\* JWT is signed and the first request sent.
Mint ==
    /\ pc = "idle"
    /\ config' \in Configs /\ Usable(config')
    /\ jwt' = signAppJWT(brokerClock)
    /\ pc' = "resolve"
    /\ started' = brokerClock
    /\ Drop
    /\ UNCHANGED <<clock, skew, handle, reply, created, known, ledger, revoked,
                   breaks>>

\* buildGitHubScope or Mint finds fault with the configuration; no request
\* is made.
MintRejected ==
    /\ pc = "idle"
    /\ \E c \in Configs : ~Usable(c)
    /\ Drop
    /\ UNCHANGED <<clock, skew, request, known, ledger, revoked, breaks>>

\* Revoke of a handle the controller has stored: checked, and sent.
Revoke ==
    /\ pc = "idle"
    /\ handle' \in known
    /\ pc' = "revoke"
    /\ started' = brokerClock
    /\ UNCHANGED <<clock, skew, jwt, config, reply, created, minted, schedule,
                   known, ledger, revoked, breaks>>

----------------------------------------------------------------------------
(* GitHub handles a request. *)

Answer(status) ==
    /\ reply = "none"
    /\ reply' = status
    /\ UNCHANGED <<clock, skew, pc, started, jwt, config, handle, minted,
                   schedule, known, breaks>>

\* GET /repos/{repo}/installation
ServeResolve ==
    /\ pc = "resolve"
    /\ Answer(IF JWTValid /\ config # "notInstalled" THEN "ok" ELSE "refused")
    /\ UNCHANGED <<created, ledger, revoked>>

\* POST /app/installations/{id}/access_tokens; expires_at has whole seconds.
ServeCreate ==
    /\ pc = "create"
    /\ IF JWTValid /\ Len(ledger) < MaxTokens
       THEN /\ Answer("ok")
            /\ ledger' = Append(ledger, [provider |-> Name,
                                         expiry |-> Persisted(clock + TokenLifetime)])
            /\ created' = Len(ledger) + 1
       ELSE Answer("refused") /\ UNCHANGED <<created, ledger>>
    /\ UNCHANGED revoked

\* DELETE /installation/token: the token authenticates its own revocation, so
\* one that is no longer good is refused.
ServeRevoke ==
    /\ pc = "revoke"
    /\ IF handle \notin revoked /\ clock < ledger[handle].expiry
       THEN Answer("ok") /\ revoked' = revoked \cup {handle}
       ELSE Answer("refused") /\ UNCHANGED revoked
    /\ UNCHANGED <<created, ledger>>

----------------------------------------------------------------------------
(* The provider reads the reply. *)

\* resolveInstallationID has the ID: the same JWT goes with the next request.
Resolved ==
    /\ pc = "resolve"
    /\ reply = "ok"
    /\ pc' = "create"
    /\ reply' = "none"
    /\ UNCHANGED <<clock, skew, started, jwt, config, handle, created, minted,
                   schedule, known, ledger, revoked, breaks>>

\* Reconcile schedules the rotation, with the clock it read before Mint.
ScheduleRotation(expiry) ==
    /\ \E seconds \in Windows :
         window' = clampRotateBefore(requestedRotateBefore(seconds),
                                     expiry - started)
    /\ rotateAt' = brokerClock + requeueAfter(expiry, window', started)

\* createInstallationToken has the token, and Mint returns it with its expiry
\* and itself as the handle.  The step stands for what follows up to the end
\* of Reconcile, where the delay begins to count: what time the writes in
\* between take is part of the call, and of MaxLatency.
WrongStatusMutant ==
    /\ pc = "create"
    /\ reply = "ok"
    /\ Return
    /\ UNCHANGED <<clock, skew, minted, schedule, known, ledger, revoked, breaks>>
Minted ==
    /\ pc = "create"
    /\ reply = "ok"
    /\ minted' = created
    /\ known' = known \cup {created}
    /\ ScheduleRotation(ledger[created].expiry)
    /\ Return
    /\ UNCHANGED <<clock, skew, ledger, revoked, breaks>>

Revoked ==
    /\ pc = "revoke"
    /\ reply = "ok"
    /\ Return
    /\ UNCHANGED <<clock, skew, minted, schedule, known, ledger, revoked, breaks>>

\* Any other status ends the call with an error.
RetryMutant ==
    /\ reply = "refused"
    /\ reply' = "none"
    /\ UNCHANGED <<clock, skew, pc, started, jwt, config, handle, created,
                   minted, schedule, known, ledger, revoked, breaks>>
Refused ==
    /\ reply = "refused"
    /\ Return
    /\ UNCHANGED <<clock, skew, minted, schedule, known, ledger, revoked, breaks>>

\* The connection breaks, the reply cannot be decoded or the context is
\* cancelled: an error too, whatever GitHub has done with the request.
ResendMutant ==
    /\ pc # "idle"
    /\ breaks < MaxBreaks
    /\ breaks' = breaks + 1
    /\ reply' = "none"
    /\ UNCHANGED <<clock, skew, pc, started, jwt, config, handle, created,
                   minted, schedule, known, ledger, revoked>>
Broken ==
    /\ pc # "idle"
    /\ breaks < MaxBreaks
    /\ breaks' = breaks + 1
    /\ Return
    /\ UNCHANGED <<clock, skew, minted, schedule, known, ledger, revoked>>

----------------------------------------------------------------------------
Tick ==
    /\ clock < MaxTime
    /\ pc # "idle" => brokerClock < started + MaxLatency
    /\ clock' = clock + 1
    /\ UNCHANGED <<skew, request, minted, schedule, known, ledger, revoked, breaks>>

Init ==
    /\ clock = 0
    /\ skew \in Skews
    /\ pc = "idle" /\ started = NoTime /\ jwt = NoJWT /\ config = ""
    /\ handle = 0 /\ reply = "none" /\ created = 0
    /\ minted = 0 /\ window = 0 /\ rotateAt = NoTime /\ known = {}
    /\ ledger = <<>> /\ revoked = {}
    /\ breaks = 0

GitHub == ServeResolve \/ ServeCreate \/ ServeRevoke

Replies == Resolved \/ Minted \/ Revoked \/ Refused

Next ==
    \/ Mint \/ MintRejected \/ Revoke
    \/ GitHub \/ Replies \/ Broken
    \/ Tick

Spec == Init /\ [][Next]_vars

\* GitHub answers and the provider reads the answer.  Nothing else ends a
\* call: http.DefaultClient sets no timeout.
Fairness == WF_vars(GitHub) /\ WF_vars(Replies)

FairSpec == Spec /\ Fairness

----------------------------------------------------------------------------
(* The contract: what the current call has done counts when it returns. *)

inFlight == IF created = 0 THEN 0 ELSE 1

issued == SubSeq(ledger, 1, Len(ledger) - inFlight)

invalidated ==
    IF pc = "revoke" /\ reply = "ok" THEN revoked \ {handle} ELSE revoked

openCall ==
    [op |-> IF pc = "idle" THEN "none" ELSE IF pc = "revoke" THEN "revoke" ELSE "mint",
     provider |-> IF pc = "idle" THEN "" ELSE Name,
     handle |-> handle]

\* How long a token is good for when Mint returns, by the broker's clock.
GrantedLifetimes == UNION {1..(TokenLifetime - s) : s \in Skews}

Contract == INSTANCE Provider WITH
    Registered <- {Name}, Lifetimes <- GrantedLifetimes,
    now <- brokerClock, ledger <- issued, revoked <- invalidated,
    call <- openCall

----------------------------------------------------------------------------
(* Properties. *)

ClocksOK ==
    /\ clock \in Nat
    /\ skew \in Skews
    /\ started \in Int
    /\ window \in Int
    /\ rotateAt \in Int
    /\ breaks \in Nat

RequestOK ==
    /\ pc \in {"idle", "resolve", "create", "revoke"}
    /\ jwt \in [iat : Int, exp : Int, signedAt : Nat]
    /\ config \in (Configs \cap {"pkcs1", "pkcs8", "notInstalled"}) \cup {""}
    /\ reply \in {"none", "ok", "refused"}

TokensOK ==
    /\ ledger \in Seq([provider : {Name}, expiry : Int])
    /\ handle \in 0..Len(ledger)
    /\ created \in 0..Len(ledger)
    /\ minted \in 0..Len(ledger)
    /\ known \subseteq 1..Len(ledger)
    /\ revoked \subseteq known

\* Every variable has its type, requests are made only with a configuration
\* that passed every check, and only tokens Mint returned are revoked.
TypeOK == ClocksOK /\ RequestOK /\ TokensOK

\* jwtClockSkewGuard is there "to tolerate clock drift between the broker and
\* GitHub's servers": while neither clock is ahead of the other by more than
\* the guard, GitHub accepts the one JWT that goes with both requests of a
\* Mint, whenever it handles them, unless the call takes longer than the cap
\* leaves after both drifts and the rounding to whole seconds.
ToleratesSkew ==
    /\ pc \in {"resolve", "create"}
    /\ -JwtClockSkewGuard <= skew /\ skew <= JwtClockSkewGuard
    /\ clock - jwt.signedAt < JwtMaxLifetime - 2 * JwtClockSkewGuard - Second
    => JWTValid

\* The expiry is GitHub's, the rotation goes by the broker's clock, and the
\* delay counts from the end of a reconcile that began earlier: still the
\* token is rotated before GitHub lets it expire, as long as the window covers
\* the time of that reconcile and what the broker's clock is behind.
RotatesInTime ==
    minted # 0 /\ MaxLatency - skew < window =>
        rotateAt - skew < ledger[minted].expiry

\* Mint checks the status of each reply and hands out what it got: a token
\* that exists at GitHub and that the controller was never given is due to a
\* broken request, one for each.
OrphansAreLost ==
    Cardinality((1..Len(ledger)) \ (known \cup {created})) <= breaks

\* The provider implements the contract the controller relies on: a Mint that
\* returns a credential has created that one and no other during the call, a
\* Mint that fails at most one, and Revoke touches nothing but its handle.
ImplementsProvider == Contract!Spec

\* A call returns as long as GitHub answers, whatever it answers; there is no
\* timeout that would make it return otherwise.
CallReturns == pc # "idle" ~> pc = "idle"
=============================================================================
