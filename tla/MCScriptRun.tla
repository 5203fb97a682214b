---------------------------- MODULE MCScriptRun ----------------------------
(* A small instance of ScriptRun.                                          *)
EXTENDS ScriptRun, TLC
=============================================================================
