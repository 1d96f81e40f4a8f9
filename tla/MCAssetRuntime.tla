---------------------------- MODULE MCAssetRuntime ----------------------------
(***************************************************************************)
(* Instances of AssetRuntime for TLC.                                      *)
(***************************************************************************)
EXTENDS AssetRuntime

MCHistory == <<"base", "base">>
=============================================================================
