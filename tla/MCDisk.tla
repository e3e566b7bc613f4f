------------------------------- MODULE MCDisk -------------------------------
(***************************************************************************)
(* A small instance of the disk driver for TLC.                            *)
(***************************************************************************)
EXTENDS VirtioDisk
=============================================================================
