-------------------------------- MODULE MCClipStore --------------------------------
(*******************************************************************************)
(* Small instances of ClipStore for TLC.  Processes are interchangeable, keys  *)
(* and inodes too.                                                             *)
(*******************************************************************************)
EXTENDS ClipStore, TLC

Symmetry == Permutations(Procs) \cup Permutations(Keys) \cup Permutations(Inodes)
===================================================================================
