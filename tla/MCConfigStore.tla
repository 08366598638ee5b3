---------------------------- MODULE MCConfigStore ----------------------------
(* Instances of ConfigStore for TLC.  "addr" and "sn" are published in       *)
(* lock->info, "relay" (device_state) is not.                                *)
EXTENDS ConfigStore

MCInfoFields == <<"addr", "sn">>
=============================================================================
