------------------------------ MODULE Provider ------------------------------
(***************************************************************************)
(* What the controller may ask of a provider.Provider and what it may rely *)
(* on: the contract of Mint and Revoke, one call at a time.  A Mint either *)
(* returns one new credential, or fails, and then it may still have created *)
(* one that nobody knows; a Revoke is passed a credential of the very      *)
(* provider it is asked of, and invalidates that one or none.              *)
(*                                                                         *)
(* GitHubProvider implements the provider's side, Broker keeps to the      *)
(* controller's side.                                                      *)
(***************************************************************************)
EXTENDS Integers, Sequences

CONSTANTS
    Registered,     \* names of the providers in the Registry
    Lifetimes       \* lifetimes they grant

VARIABLES
    now,        \* the controller's clock
    ledger,     \* the credentials created: their provider and expiry
    revoked,    \* those invalidated before their expiry
    call,       \* the call under way
    minted      \* the credential in the controller's hand, 0 if none

contract == <<now, ledger, revoked, call, minted>>

NoCall == [op |-> "none", provider |-> "", handle |-> 0]
MintCall(p) == [op |-> "mint", provider |-> p, handle |-> 0]
RevokeCall(p, h) == [op |-> "revoke", provider |-> p, handle |-> h]

Init ==
    /\ now \in Int
    /\ ledger = <<>>
    /\ revoked = {}
    /\ call = NoCall
    /\ minted = 0

----------------------------------------------------------------------------
(* The controller. *)

\* Registry.Get has found the provider.
CallMint ==
    /\ call = NoCall
    /\ \E p \in Registered : call' = MintCall(p)
    /\ minted' = 0
    /\ UNCHANGED <<now, ledger, revoked>>

\* A handle goes back only to the provider that issued it.
CallRevoke ==
    /\ call = NoCall
    /\ \E h \in 1..Len(ledger) :
         /\ ledger[h].provider \in Registered
         /\ call' = RevokeCall(ledger[h].provider, h)
    /\ minted' \in {minted, 0}
    /\ UNCHANGED <<now, ledger, revoked>>

\* The controller is done with the credential, or the process stops.
Forget ==
    /\ minted' = 0
    /\ call' = NoCall
    /\ UNCHANGED <<now, ledger, revoked>>

----------------------------------------------------------------------------
(* The provider. *)

Create ==
    \E l \in Lifetimes :
        ledger' = Append(ledger, [provider |-> call.provider,
                                  expiry |-> now + l])

MintReturns ==
    /\ call.op = "mint"
    /\ \/ Create /\ minted' = Len(ledger) + 1
       \/ Create /\ minted' = 0
       \/ UNCHANGED ledger /\ minted' = 0
    /\ call' = NoCall
    /\ UNCHANGED <<now, revoked>>

RevokeReturns ==
    /\ call.op = "revoke"
    /\ revoked' \in {revoked, revoked \cup {call.handle}}
    /\ minted' \in {minted, 0}
    /\ call' = NoCall
    /\ UNCHANGED <<now, ledger>>

Tick == now' > now /\ UNCHANGED <<ledger, revoked, call, minted>>

Next == CallMint \/ CallRevoke \/ Forget \/ MintReturns \/ RevokeReturns \/ Tick

Spec == Init /\ [][Next]_contract
=============================================================================
