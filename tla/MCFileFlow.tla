----------------------------- MODULE MCFileFlow -----------------------------
(***************************************************************************)
(* An instance of FileFlow for TLC: one run of either script, and a file   *)
(* that is clean, infected or encrypted.  What a second run could do to    *)
(* the file, the user's edits do.                                          *)
(***************************************************************************)
EXTENDS FileFlow

CONSTANTS script, clean, virus, locked
=============================================================================
