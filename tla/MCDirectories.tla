--------------------------- MODULE MCDirectories ---------------------------
(* Small instances of Directories for TLC.                                 *)
EXTENDS DirectoriesWalk, TLC

CONSTANTS a, b

Entry(name, form, kind, first) ==
  [name |-> <<name, form>>, kind |-> kind, first |-> first]

(* As the repository's filesystem/, with a directory in a directory.       *)
Nested == 2 :> << Entry(a, "fat", "dir", 3) >>
       @@ 3 :> << Entry(b, "fat", "dir", 4) >>
       @@ 4 :> << >>

(* A name typed in full, with its padding: mkdir makes a directory of it   *)
(* that can be entered.                                                    *)
Typed == { <<b, "fat">> }
=============================================================================
