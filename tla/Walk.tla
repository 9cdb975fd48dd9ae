-------------------------------- MODULE Walk --------------------------------
(***************************************************************************)
(* What moving about in a tree of directories promises: cd leads one       *)
(* directory further, cd .. back to where the last cd was given, cd / to   *)
(* the root, and the prompt shows the names of the directories passed.     *)
(* There is Room for a way of so many; from its end a cd leads further,    *)
(* too, but what it leaves is forgotten, and nothing else.                 *)
(***************************************************************************)
EXTENDS Sequences, SequencesExt

CONSTANTS Home, Places, Names, Room
VARIABLES way, shown

NamesOn(w) == [i \in 1 .. Len(w) - 1 |-> w[i + 1].name]

Init == way = <<Home>> /\ shown = << >>

Arrive == Last(way').cl \in Places /\ Last(way').name \in Names
Down ==
  /\ Len(way) < Room /\ Arrive
  /\ Len(way') = Len(way) + 1 /\ Front(way') = way
Past ==
  /\ Len(way) = Room /\ Arrive
  /\ Len(way') = Room /\ Front(way') = Front(way)
Up   == Len(way) > 1 /\ way' = Front(way)
Back == way' = <<Home>>

Next == (Down \/ Past \/ Up \/ Back) /\ shown' = NamesOn(way')

Spec == Init /\ [][Next]_<<way, shown>>
=============================================================================
