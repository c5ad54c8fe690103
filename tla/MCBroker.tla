------------------------------ MODULE MCBroker ------------------------------
(***************************************************************************)
(* Instances of Broker for TLC.                                            *)
(***************************************************************************)
EXTENDS Broker

OneName == {"app"}
TwoNames == {"app", "web"}
TokenOnly == {"token"}
TwoKeys == {"token", "pw"}

Gh(target, key, rb) ==
    [provider |-> "github-app", target |-> target,
     keys |-> [o \in Outputs |-> key], rotateBeforeSeconds |-> rb]

Aws(target) == [Gh(target, "", 2) EXCEPT !.provider = "aws-sts"]

SomebodysSecret ==
    [NoSecret EXCEPT !.exists = TRUE, !.data["token"] = Foreign]

NoSecrets == {[n \in Names |-> NoSecret]}
FreeOrAdopted ==
    {[n \in Names |-> s] : s \in {NoSecret, SomebodysSecret}}
Adopted == {[n \in Names |-> SomebodysSecret]}

OneSpec == {Gh("app", "", 2)}
\* Another name for the Secret, which no Secret can have.
Renamed == {Gh("app", "", 2), Gh("", "", 2)}
RotationSpecs ==
    {Gh("app", "", 1), Gh("app", "pw", 9), Aws("app")}
\* Another key for the output; another registered provider.
KeySpecs ==
    {Gh("app", "", 2), Gh("app", "pw", 2),
     [Gh("app", "", 2) EXCEPT !.provider = "database"]}
ProviderSpecs == {Gh("app", "", 2), Aws("app")}
=============================================================================
