--------------------------- MODULE MCConfigReload ---------------------------
(***************************************************************************)
(* Small instances of ConfigReload.                                        *)
(***************************************************************************)
EXTENDS ConfigReload

GatewayParts == <<"dispatcher", "log_store", "log_files">>

NoneBroken == {}
SecondBroken == {2}
=============================================================================
