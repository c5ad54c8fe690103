-------------------------- MODULE MCGitHubProvider --------------------------
(***************************************************************************)
(* An instance of GitHubProvider for TLC.                                  *)
(***************************************************************************)
EXTENDS GitHubProvider

SomeSkews == {-3, -2, 2, 3}
SomeConfigs == {"pkcs1", "notInstalled", "notRSA"}
=============================================================================
