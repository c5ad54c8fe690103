--------------------------- MODULE MCSharedTarget ---------------------------
(***************************************************************************)
(* Instances of SharedTarget for TLC.                                      *)
(***************************************************************************)
EXTENDS SharedTarget, MCBroker

OfApp == {Gh("app", "", 1), Gh("app", "pw", 1)}
SharedSpecs ==
    OfApp \cup {Gh("web", "", 1), Gh("", "", 1), Aws("app")}
=============================================================================
