---------------------------- MODULE MCWatchedFile ----------------------------
(* Values for WatchedFile's constants; nothing tells the inodes apart.       *)
EXTENDS WatchedFile, TLC

CONSTANTS i1, i2, i3

Permuted == Permutations(Inodes)
=============================================================================
