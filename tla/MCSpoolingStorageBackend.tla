---------------------- MODULE MCSpoolingStorageBackend -----------------------
(***************************************************************************)
(* Small instances of SpoolingStorageBackend for TLC.                      *)
(***************************************************************************)
EXTENDS SpoolingStorageBackend
=============================================================================
