---------------------------- MODULE TargetSecret ----------------------------
(***************************************************************************)
(* The target Secret and how the broker writes it.  A Secret is reduced to *)
(* whether it exists, who controls it, what each data key holds and which  *)
(* keys the managed-keys annotation lists.  The value under a key is Empty *)
(* (no such key), Foreign (written by somebody else) or the number of the  *)
(* token whose value it is.                                                *)
(***************************************************************************)
EXTENDS Integers

CONSTANTS
    Outputs,    \* logical keys of MintResult.Data; {"token"} for GitHub
    DataKeys    \* the data keys a Secret may have

ASSUME OutputsAssumption == Outputs # {} /\ Outputs \subseteq DataKeys
ASSUME DataKeysAssumption == "" \notin DataKeys

Empty == 0
Foreign == -1

\* spec.targetSecret.keys; "" stands for a logical key with no mapping.
KeyMaps == [Outputs -> DataKeys \cup {""}]

\* Data keys only hold [-._a-zA-Z0-9], so the comma-joined annotation and
\* the set of keys carry the same information.
Secrets == [exists : BOOLEAN, owner : {"none", "ec", "other"},
            data : [DataKeys -> {n \in Int : n >= Foreign}],
            managed : SUBSET DataKeys]

NoSecret == [exists |-> FALSE, owner |-> "none",
             data |-> [k \in DataKeys |-> Empty], managed |-> {}]

\* The key a logical output is written under.
secretKey(keys, o) == IF keys[o] = "" THEN o ELSE keys[o]

written(keys) == {secretKey(keys, o) : o \in Outputs}

\* The mutate function of writeTargetSecret: set the written keys, drop the
\* keys written earlier and no longer, leave every other key alone, record
\* the written keys and take control of the Secret.
KeepStaleMutant(secret, keys, token) ==
    [exists |-> TRUE, owner |-> "ec",
     data |-> [k \in DataKeys |->
                 IF k \in written(keys) THEN token ELSE secret.data[k]],
     managed |-> written(keys)]
mutate(secret, keys, token) ==
    [exists |-> TRUE, owner |-> "ec",
     data |-> [k \in DataKeys |->
                 IF k \in written(keys) THEN token
                 ELSE IF k \in secret.managed THEN Empty
                 ELSE secret.data[k]],
     managed |-> written(keys)]

\* The tokens a Secret discloses to whoever reads it.
TokensIn(secret) == {secret.data[k] : k \in DataKeys} \ {Empty, Foreign}
=============================================================================
