------------------------------ MODULE MCEditor ------------------------------
(* A small editor for TLC: three rows of two characters, a sector of       *)
(* four, so that the buffer of six ends in the middle of a sector.         *)
EXTENDS Editor, TLC

Text(t, behind) == [text |-> t, slack |-> "nul", over |-> behind]

(* The second was saved by an editor before the machine was started.       *)
Short  == Text(<<"nl">>, Zeros)
Full   == Text(<<"q", "q", "nul", "q", "q">>,
               [x |-> 2, y |-> 1, command |-> TRUE, line |-> <<"w">>, pos |-> 1])

MCBase       == "a.x" :> "a" @@ "a" :> "a" @@ "b" :> "b"
MCImage      == "a.x" :> Full @@ "a" :> None @@ "b" :> Short
MCNewImage   == [MCImage EXCEPT !["a.x"].over = Zeros]
MCOtherFiles == {Short}
=============================================================================
