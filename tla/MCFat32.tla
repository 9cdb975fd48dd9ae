------------------------------ MODULE MCFat32 ------------------------------
(* Small instances of Fat32 and of its refinement for TLC.                 *)
EXTENDS Fat32Store, TLC

CONSTANTS a, b

(* A host tree of one directory, as the repository's filesystem/ is, its   *)
(* name in lower case.                                                     *)
HostTree == << [name |-> <<a, "raw">>, kind |-> "dir"] >>

(* One file whose host name was in upper case and padded.                  *)
FileTree == << [name |-> <<a, "fat">>, kind |-> "file"] >>

(* Nothing tells the values written apart.                                 *)
ValSymmetry == Permutations(Vals)
=============================================================================
