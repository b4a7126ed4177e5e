---------------------------- MODULE MCMemoryHandler ----------------------------
(* Values for MemoryHandler's constants.                                     *)
EXTENDS MemoryHandler

CONSTANTS r1, r2, r3, r4, steady, flaky, chatty
==============================================================================
