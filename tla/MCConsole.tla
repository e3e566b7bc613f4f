----------------------------- MODULE MCConsole ------------------------------
(***************************************************************************)
(* A small instance of the console for TLC.                                *)
(***************************************************************************)
EXTENDS Console
=============================================================================
