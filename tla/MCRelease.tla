----------------------------- MODULE MCRelease -----------------------------
(* Small instances of Release.                                             *)
EXTENDS Release
=============================================================================
