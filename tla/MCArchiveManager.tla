-------------------------- MODULE MCArchiveManager --------------------------
(***************************************************************************)
(* Small instances of ArchiveManager for TLC.                              *)
(***************************************************************************)
EXTENDS ArchiveManager
=============================================================================
