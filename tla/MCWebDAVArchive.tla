-------------------------- MODULE MCWebDAVArchive ----------------------------
(***************************************************************************)
(* Small instances of WebDAVArchive for TLC.                               *)
(***************************************************************************)
EXTENDS WebDAVArchive
=============================================================================
