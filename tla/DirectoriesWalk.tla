-------------------------- MODULE DirectoriesWalk --------------------------
(***************************************************************************)
(* Directories implements Walk: the way is the stack and the current       *)
(* directory, and what is shown is the path without its slashes.           *)
(***************************************************************************)
EXTENDS Directories

Unslashed(names, x) == IF x = Slash THEN names ELSE Append(names, x)

W == INSTANCE Walk WITH
       way <- Way,
       shown <- FoldLeft(Unslashed, << >>, path),
       Home <- RootDir, Names <- DiskNames, Room <- MaxDepth + 1

(* Every call on the driver is a step of the walk or leaves it as it is:   *)
(* cd .. undoes cd, whatever happens to the entries in between, and the    *)
(* path of the prompt is the way back; of a way longer than the stack the  *)
(* last directory but one is forgotten, and the rest kept.                 *)
ImplementsWalk == W!Spec
=============================================================================
