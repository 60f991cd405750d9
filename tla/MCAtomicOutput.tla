---------------------------- MODULE MCAtomicOutput ----------------------------
(***************************************************************************)
(* AtomicOutput for TLC.  Directories, inode numbers and calls of one      *)
(* writer are interchangeable: neither the specification nor a property    *)
(* names one, and no liveness property is checked.                         *)
(***************************************************************************)
EXTENDS AtomicOutput, TLC

Alike == Permutations(Dirs) \union Permutations(Inodes)
           \union Permutations(Exclusives)
=============================================================================
