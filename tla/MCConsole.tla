----------------------------- MODULE MCConsole -----------------------------
(* A small keyboard and screen for TLC.                                    *)
EXTENDS Console, TLC

MCPlain   == "v" :> "v" @@ "enter" :> "nl" @@ "back" :> "bs"
MCShifted == "v" :> "V" @@ "enter" :> "nl" @@ "back" :> "bs"
MCArrows  == "down" :> "v"
MCOutputs == { <<"nl", ">">>, << >> }
=============================================================================
