------------------------------ MODULE MCShell ------------------------------
(* Names of two characters and an extension of two, for TLC.               *)
EXTENDS Shell, TLC

MCUpper  == [c \in {"a", "A", "b", "B", ".", " ", "nul", "/"} |->
               IF c = "a" THEN "A" ELSE IF c = "b" THEN "B" ELSE c]
MCOffset == "create" :> 3 @@ "delete" :> 3 @@ "writeb" :> 3 @@ "mkdir" :> 2
              @@ "ed" :> 3 @@ "cat" :> 3 @@ "writetest" :> 3
MCArguments == { <<"/">>, <<"a", "b", ".", "a">>, <<"a", "b", ".", "a", "b">> }
MCBases  == { <<"/">>, <<"a">>, <<"a", "b">> }
MCExts   == { << >>, <<"a">>, <<"a", "b">> }
MCRests  == { <<"b", "a">> }
MCTestBase == <<"a">>
MCTestExt  == <<"a">>
MCRoot   == <<"/">>
MCOrdinary == { <<"a">>, <<"a", ".", "a">> }

(* The conversions, on more names than are typed above.                    *)
ASSUME NamesAgree ==
  LET letters == UNION {[1 .. n -> {"a", "B", "/"}] : n \in 1 .. BaseSize}
      exts    == UNION {[1 .. n -> {"a", "B"}] : n \in 0 .. ExtSize}
      rests   == UNION {[1 .. n -> {"b", " ", ".", "nul"}] : n \in 0 .. NameSize}
  IN FormsAgree(letters, exts, rests)
=============================================================================
