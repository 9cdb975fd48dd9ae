--------------------------- MODULE Editor_proofs ----------------------------
(***************************************************************************)
(* The editor never writes outside its rows of text nor past its command's *)
(* line; it saves under the base name it has opened, never to the file of  *)
(* an earlier session, when it could read its own; a buffer that was saved *)
(* comes back from its entry; and the screen shows the text and the mode:  *)
(* for every size of the screen and of a sector, and whatever files it     *)
(* meets.                                                                  *)
(***************************************************************************)
EXTENDS Editor, Extremes, SequenceTheorems

(* What a file can bring back into the statics is in range: files are the  *)
(* image's, other commands' or the editor's own.                           *)
FilesOK == disk \in [Names -> {None} \cup Files]

Placed == x \in 0 .. Width /\ y \in 0 .. EndRow

EditorInv ==
  /\ TypeOK /\ FilesOK /\ Placed /\ OneMode
  /\ running /\ loaded => opened \in Names /\ file \in SavesAs(opened)

-----------------------------------------------------------------------------
LEMMA Sizes ==
  /\ EndRow \in Nat /\ BufferSize \in Nat /\ Width \in Nat \ {0}
  /\ BufferSize = (EndRow + 2) * Width
  <1>1. EndRow \in Nat /\ EndRow + 2 = Height - 1 /\ Width \in Nat \ {0}
    BY EditorAssumption DEF EndRow
  <1> QED BY <1>1 DEF BufferSize

LEMMA RowFits ==
  ASSUME NEW row \in 0 .. EndRow, NEW col \in 0 .. Width
  PROVE  row * Width + col \in Offsets
  <1>1. row * Width \in Nat /\ row * Width <= EndRow * Width
    BY Sizes
  <1>2. EndRow * Width \in Nat /\ (EndRow + 2) * Width = EndRow * Width + 2 * Width
    BY Sizes
  <1>3. row * Width + col < (EndRow + 2) * Width
    BY <1>1, <1>2, Sizes
  <1> QED BY <1>1, <1>3, Sizes DEF Offsets

LEMMA RowEndFits ==
  ASSUME NEW row
  PROVE  RowEnd(row) \in 0 .. Width
  <1> DEFINE used == {col \in 0 .. Width - 1 : buffer[row * Width + col] # Nul}
  <1>1. CASE used = {}
    BY <1>1, Sizes DEF RowEnd
  <1>2. CASE used # {}
    <2>1. Width - 1 \in Nat /\ used \in SUBSET (0 .. Width - 1)
      BY Sizes
    <2>2. Max(used) \in used
      <3> HIDE DEF used
      <3> QED BY <1>2, <2>1, MaxIsGreatest
    <2>3. RowEnd(row) = Max(used) + 1
      BY <1>2 DEF RowEnd
    <2> QED BY <2>2, <2>3, Sizes
  <1> QED BY <1>1, <1>2

(* The text that is saved is a piece of the buffer.                        *)
LEMMA SavedTextType ==
  ASSUME TypeOK
  PROVE  SavedText \in Seq(Chars)
  <1> DEFINE used == {p \in Offsets : buffer[p] # Nul}
             size == IF used = {} THEN 0 ELSE Max(used) + 1
  <1>1. size \in 0 .. BufferSize
    <2>1. CASE used = {}
      BY <2>1, Sizes
    <2>2. CASE used # {}
      <3>1. BufferSize - 1 \in Nat /\ used \in SUBSET (0 .. BufferSize - 1)
        BY <2>2, Sizes DEF Offsets
      <3>2. Max(used) \in used
        <4> HIDE DEF used
        <4> QED BY <2>2, <3>1, MaxIsGreatest
      <3> QED BY <2>2, <3>2, Sizes DEF Offsets
    <2> QED BY <2>1, <2>2
  <1>2. SavedText = [i \in 1 .. size |-> buffer[i - 1]]
    BY DEF SavedText
  <1> HIDE DEF size
  <1>3. \A i \in 1 .. size : buffer[i - 1] \in Chars
    BY <1>1, Sizes DEF TypeOK, Offsets
  <1> QED BY <1>1, <1>2, <1>3, Sizes

-----------------------------------------------------------------------------
(* One lemma for each of the actions of Next.                              *)

USE EditorAssumption

LEMMA ZerosType == Zeros \in Statics
  <1>1. << >> \in Seq(CommandKeys) /\ Len(<< >>) = 0 /\ 0 \in 0 .. CommandSize - 1
    OBVIOUS
  <1> QED BY <1>1, Sizes DEF Zeros, Statics

LEMMA TornType ==
  ASSUME FilesOK, NEW f \in Files
  PROVE  Torns(f) \subseteq Files
  <1> SUFFICES ASSUME NEW g \in Torns(f) PROVE g \in Files
    OBVIOUS
  <1>1. [i \in DOMAIN f.text |-> Junk] \in Seq(Chars)
    BY DEF Files, Chars
  <1>2. PICK left \in {Zeros} \cup {disk[n].over : n \in {m \in Names : disk[m] # None}} :
          g = [text |-> [i \in DOMAIN f.text |-> Junk], slack |-> Junk, over |-> left]
    BY DEF Torns
  <1>3. left \in Statics
    BY <1>2, ZerosType DEF FilesOK, Files
  <1> QED BY <1>1, <1>2, <1>3 DEF Files

LEMMA SavedFileType ==
  ASSUME TypeOK, Placed
  PROVE  SavedFile \in Files
  <1>1. [x |-> x, y |-> y, command |-> command, line |-> line, pos |-> pos] \in Statics
    BY DEF TypeOK, Placed, Statics
  <1> QED BY <1>1, ZerosType, SavedTextType DEF SavedFile, Files

LEMMA EditorInitial == Init => EditorInv
  <1> SUFFICES ASSUME Init PROVE EditorInv
    OBVIOUS
  <1>1. << >> \in Seq(CommandKeys) /\ Len(<< >>) = 0
    OBVIOUS
  <1>2. line \in Seq(CommandKeys) /\ Len(line) < CommandSize /\ pos \in 0 .. CommandSize - 1
    BY <1>1 DEF Init
  <1>3. buffer \in [Offsets -> Chars]
    BY DEF Init, Chars
  <1>4. /\ insert = FALSE /\ command = FALSE /\ running = FALSE /\ loaded = FALSE
        /\ file = None /\ opened = None /\ fresh = None /\ edits = 0 /\ writes = 0
    BY DEF Init
  <1>5. TypeOK
    <2>1. insert \in BOOLEAN /\ command \in BOOLEAN /\ running \in BOOLEAN /\ loaded \in BOOLEAN
      BY <1>4
    <2>2. file \in Names \cup {None} /\ opened \in Names \cup {None} /\ fresh \in Names \cup {None}
      BY <1>4
    <2>3. edits \in 0 .. MaxEdits /\ writes \in 0 .. MaxWrites
      BY <1>4
    <2> QED BY <1>2, <1>3, <2>1, <2>2, <2>3 DEF TypeOK
  <1> QED BY <1>5, Sizes DEF Init, EditorInv, FilesOK, Placed, OneMode

LEMMA ReadIntoType ==
  ASSUME TypeOK, NEW f \in Files
  PROVE  ReadInto(f) \in [Offsets -> Chars]
  <1> SUFFICES ASSUME NEW p \in Offsets
               PROVE  ReadInto(f)[p] \in Chars
    BY DEF ReadInto
  <1>1. p \in Nat /\ f.text \in Seq(Chars) /\ f.slack \in Chars /\ buffer[p] \in Chars
    BY Sizes DEF Offsets, Files, Chars, TypeOK
  <1> QED BY <1>1 DEF ReadInto

LEMMA OpenKeeps ==
  ASSUME EditorInv, NEW name \in Names, Open(name)
  PROVE  EditorInv'
  <1>1. /\ ~running /\ ~insert /\ ~command /\ line = << >> /\ pos = 0
        /\ running' = TRUE /\ opened' = name /\ UNCHANGED <<disk, edits, writes>>
    BY DEF Open, EditorInv, OneMode
  <1>2. CASE LoadFile(name)
    <2>1. PICK hit \in SUBSET {"x", "y", "modes", "line", "pos"} : LoadOver(disk[name], hit)
      BY <1>2 DEF LoadFile
    <2>2. disk[name] \in Files /\ disk[name].over \in Statics
      BY <1>2 DEF LoadFile, EditorInv, FilesOK, Files
    <2>3. buffer' \in [Offsets -> Chars]
      BY <2>1, <2>2, ReadIntoType DEF LoadOver, EditorInv
    <2>4. /\ x' \in 0 .. Width /\ y' \in 0 .. EndRow /\ command' \in BOOLEAN /\ ~insert'
          /\ line' \in Seq(CommandKeys) /\ Len(line') < CommandSize /\ insert' \in BOOLEAN
          /\ pos' \in 0 .. CommandSize - 1
      BY <1>1, <2>1, <2>2 DEF LoadOver, EditorInv, Placed, TypeOK, Statics
    <2>5. file' \in SavesAs(name) /\ loaded' = TRUE /\ fresh' \in Names \cup {None}
      BY <1>2 DEF LoadFile, Remember, EditorInv, TypeOK
    <2>6. TypeOK'
      BY <1>1, <2>3, <2>4, <2>5 DEF EditorInv, TypeOK, SavesAs
    <2> QED BY <1>1, <2>4, <2>5, <2>6 DEF EditorInv, FilesOK, Placed, OneMode
  <1>3. CASE LoadFails
    <2>1. buffer' \in [Offsets -> Chars]
      BY <1>3 DEF LoadFails, Chars
    <2>2. loaded' = FALSE /\ fresh' = None /\ UNCHANGED <<x, y, insert, command, line, pos, file>>
      BY <1>3 DEF LoadFails, cursor, modes, typing
    <2>3. TypeOK'
      BY <1>1, <2>1, <2>2 DEF EditorInv, TypeOK
    <2> QED BY <1>1, <2>2, <2>3 DEF EditorInv, FilesOK, Placed, OneMode
  <1> QED BY <1>2, <1>3 DEF Open

LEMMA OtherCommandKeeps ==
  ASSUME EditorInv, NEW name \in Names, OtherCommand(name)
  PROVE  EditorInv'
  <1>1. FilesOK'
    BY DEF OtherCommand, EditorInv, FilesOK
  <1>2. TypeOK'
    BY DEF OtherCommand, EditorInv, TypeOK, cursor, modes, typing, session
  <1> QED BY <1>1, <1>2
          DEF OtherCommand, EditorInv, Placed, OneMode, cursor, modes, typing, session

(* The keys in insert mode.                                                *)
LEMMA EditType ==
  ASSUME EditorInv, NEW p \in Offsets, NEW c \in Letters \cup {Nul}, Edit(p, c)
  PROVE  buffer' \in [Offsets -> Chars] /\ edits' \in 0 .. MaxEdits /\ fresh' = None
  <1>1. buffer' \in [Offsets -> Chars]
    BY DEF Edit, EditorInv, TypeOK, Chars
  <1>2. edits' \in 0 .. MaxEdits
    BY DEF Edit, EditorInv, TypeOK
  <1> QED BY <1>1, <1>2 DEF Edit

LEMMA NextRowFits ==
  ASSUME EditorInv, ToNextRow
  PROVE  x' \in 0 .. Width /\ y' \in 0 .. EndRow
  BY Sizes DEF ToNextRow, EditorInv, Placed

InsertTypes ==
  /\ buffer' \in [Offsets -> Chars] /\ edits' \in 0 .. MaxEdits
  /\ fresh' \in Names \cup {None} /\ x' \in 0 .. Width /\ y' \in 0 .. EndRow
  /\ insert' \in BOOLEAN /\ UNCHANGED <<command, line, pos>>

LEMMA InsertKeyKeeps ==
  ASSUME EditorInv, running, InsertKey
  PROVE  EditorInv'
  <1>1. ASSUME EscapeKey PROVE InsertTypes
    <2>1. insert' = FALSE /\ UNCHANGED <<buffer, x, y, command, line, pos, fresh, edits>>
      BY <1>1 DEF EscapeKey, cursor, typing
    <2> QED BY <2>1 DEF InsertTypes, EditorInv, TypeOK, Placed
  <1>2. ASSUME EnterKey PROVE InsertTypes
    <2>1. ToNextRow /\ UNCHANGED <<buffer, insert, command, line, pos, fresh, edits>>
      BY <1>2 DEF EnterKey, modes, typing
    <2> QED BY <2>1, NextRowFits DEF InsertTypes, EditorInv, TypeOK
  <1>3. ASSUME BackspaceKey PROVE InsertTypes
    <2>1. CASE x > 0
      <3>1. y * Width + (x - 1) \in Offsets /\ y * Width + (x - 1) = y * Width + x - 1
        <4>1. x - 1 \in 0 .. Width /\ y \in 0 .. EndRow /\ x \in Nat /\ y \in Nat
          BY <2>1, Sizes DEF EditorInv, Placed
        <4>2. y * Width \in Int
          BY <4>1, Sizes
        <4> QED BY <4>1, <4>2, RowFits
      <3>2. /\ Edit(y * Width + x - 1, Nul) /\ x' = x - 1 /\ y' = y
            /\ UNCHANGED <<insert, command, line, pos>>
        BY <1>3, <2>1 DEF BackspaceKey, modes, typing
      <3>3. buffer' \in [Offsets -> Chars] /\ edits' \in 0 .. MaxEdits /\ fresh' = None
        BY <3>1, <3>2, EditType
      <3>4. x' \in 0 .. Width /\ y' \in 0 .. EndRow
        BY <2>1, <3>2, Sizes DEF EditorInv, Placed
      <3> QED BY <3>2, <3>3, <3>4 DEF InsertTypes, EditorInv, TypeOK
    <2>2. CASE ~ x > 0
      <3>1. /\ y' = IF y > 0 THEN y - 1 ELSE y
            /\ x' = IF y > 0 THEN RowEnd(y - 1) ELSE x
            /\ UNCHANGED <<buffer, fresh, edits, insert, command, line, pos>>
        BY <1>3, <2>2 DEF BackspaceKey, modes, typing
      <3>2. x' \in 0 .. Width /\ y' \in 0 .. EndRow
        BY <3>1, RowEndFits, Sizes DEF EditorInv, Placed
      <3> QED BY <3>1, <3>2 DEF InsertTypes, EditorInv, TypeOK
    <2> QED BY <2>1, <2>2
  <1>4. ASSUME NEW c \in Letters, Letter(c)
        PROVE  InsertTypes
    <2>1. y * Width + x \in Offsets
      BY RowFits DEF EditorInv, Placed
    <2>2. Edit(y * Width + x, c) /\ UNCHANGED <<modes, typing>>
      BY <1>4 DEF Letter
    <2>3. x' \in 0 .. Width /\ y' \in 0 .. EndRow
      BY <1>4, NextRowFits, Sizes DEF Letter, EditorInv, Placed
    <2>4. buffer' \in [Offsets -> Chars] /\ edits' \in 0 .. MaxEdits /\ fresh' = None
      BY <2>1, <2>2, EditType
    <2> QED BY <2>2, <2>3, <2>4 DEF InsertTypes, EditorInv, TypeOK, modes, typing
  <1>5. ASSUME InsertOther PROVE InsertTypes
    BY <1>5 DEF InsertOther, cursor, modes, typing, InsertTypes, EditorInv, TypeOK, Placed
  <1>6. InsertTypes
    <2>1. EscapeKey \/ EnterKey \/ BackspaceKey \/ InsertOther \/ \E c \in Letters : Letter(c)
      BY DEF InsertKey
    <2> QED BY <1>1, <1>2, <1>3, <1>4, <1>5, <2>1
  <1>7. Still /\ insert
    BY DEF InsertKey
  <1>8. TypeOK'
    BY <1>6, <1>7 DEF InsertTypes, Still, EditorInv, TypeOK, session, typing
  <1> QED BY <1>6, <1>7, <1>8
          DEF InsertTypes, Still, EditorInv, FilesOK, Placed, OneMode, session, typing

(* The keys of a command's line, and the commands.                         *)
LEMMA WriteType ==
  ASSUME EditorInv, NEW name \in Names, NEW f \in Files, NEW done \in BOOLEAN,
         Write(name, f, done)
  PROVE  FilesOK' /\ writes' \in 0 .. MaxWrites
  <1>1. writes' \in 0 .. MaxWrites
    BY DEF Write, EditorInv, TypeOK
  <1>2. disk' = disk \/ \E g \in Torns(f) \cup {f} : disk' = [disk EXCEPT ![name] = g]
    BY DEF Write
  <1> QED BY <1>1, <1>2, TornType DEF EditorInv, FilesOK

(* What executing a command leaves, whichever it is.                       *)
Executed ==
  /\ FilesOK' /\ writes' \in 0 .. MaxWrites /\ fresh' \in Names \cup {None}
  /\ \/ UNCHANGED session
     \/ running' = FALSE /\ opened' = None /\ loaded' = FALSE

LEMMA CommandsType ==
  ASSUME EditorInv, Save \/ Test \/ Quit \/ Unknown
  PROVE  Executed
  <1>1. CASE Save
    <2>1. CASE file = None
      BY <1>1, <2>1 DEF Save, Executed, EditorInv, FilesOK, TypeOK
    <2>2. CASE file # None
      <3>1. file \in Names
        BY <2>2 DEF EditorInv, TypeOK
      <3>2. PICK done \in BOOLEAN :
              /\ Write(file, SavedFile, done)
              /\ fresh' = IF done THEN file
                          ELSE IF fresh = file THEN None ELSE fresh
        BY <1>1, <2>2 DEF Save
      <3>3. FilesOK' /\ writes' \in 0 .. MaxWrites
        BY <3>1, <3>2, WriteType, SavedFileType DEF EditorInv
      <3>4. fresh' \in Names \cup {None}
        BY <3>1, <3>2 DEF EditorInv, TypeOK
      <3> QED BY <1>1, <3>3, <3>4 DEF Save, Executed
    <2> QED BY <2>1, <2>2
  <1>2. CASE Test
    <2>1. [text |-> <<Junk>>, slack |-> Junk, over |-> Zeros] \in Files
      <3>1. <<Junk>> \in Seq(Chars)
        BY DEF Chars
      <3> QED BY <3>1, ZerosType DEF Files
    <2>2. FilesOK' /\ writes' \in 0 .. MaxWrites
      BY <1>2, <2>1, WriteType DEF Test
    <2> QED BY <1>2, <2>2 DEF Test, Executed, EditorInv, TypeOK
  <1>3. CASE Quit \/ Unknown
    BY <1>3 DEF Quit, Unknown, Executed, EditorInv, FilesOK, TypeOK
  <1> QED BY <1>1, <1>2, <1>3

LEMMA ExecuteKeeps ==
  ASSUME EditorInv, ~insert, ExecuteCommand
  PROVE  EditorInv'
  <1>1. Executed
    BY CommandsType DEF ExecuteCommand
  <1>2. /\ command' = FALSE /\ line' = << >> /\ pos' = 0
        /\ UNCHANGED <<buffer, x, y, insert, file, edits>>
    BY DEF ExecuteCommand, cursor
  <1>3. line' \in Seq(CommandKeys) /\ Len(line') < CommandSize /\ pos' \in 0 .. CommandSize - 1
    <2>1. << >> \in Seq(CommandKeys) /\ Len(<< >>) = 0
      OBVIOUS
    <2> QED BY <1>2, <2>1
  <1>4. TypeOK'
    BY <1>1, <1>2, <1>3 DEF Executed, EditorInv, TypeOK, session
  <1>5. OneMode' /\ Placed'
    BY <1>1, <1>2 DEF Executed, EditorInv, OneMode, Placed, session
  <1>6. (running /\ loaded => opened \in Names /\ file \in SavesAs(opened))'
    BY <1>1, <1>2 DEF Executed, EditorInv, session
  <1> QED BY <1>1, <1>4, <1>5, <1>6 DEF Executed, EditorInv

LEMMA TypingFits ==
  ASSUME EditorInv, CommandBackspace \/ CommandOther \/ \E c \in CommandKeys : CommandLetter(c)
  PROVE  line' \in Seq(CommandKeys) /\ Len(line') < CommandSize /\ pos' \in 0 .. CommandSize - 1
  <1>1. /\ line \in Seq(CommandKeys) /\ Len(line) < CommandSize /\ pos \in 0 .. CommandSize - 1
        /\ Len(line) \in Nat /\ CommandSize \in Nat
    BY DEF EditorInv, TypeOK
  <1>2. ASSUME NEW at \in Nat, at <= Len(line)
        PROVE  SubSeq(line, 1, at) \in Seq(CommandKeys) /\ Len(SubSeq(line, 1, at)) = at
    BY <1>1, <1>2
  <1>3. CASE CommandBackspace /\ pos > 0
    <2>1. line' = Erased(pos - 1) /\ pos' = pos - 1 /\ pos - 1 \in Nat
      BY <1>1, <1>3 DEF CommandBackspace
    <2>2. CASE pos - 1 < Len(line)
      <3>1. line' = SubSeq(line, 1, pos - 1)
        BY <2>1, <2>2 DEF Erased
      <3>2. PICK at \in Nat : at = pos - 1 /\ at <= Len(line)
        BY <1>1, <2>1, <2>2
      <3>3. line' \in Seq(CommandKeys) /\ Len(line') = at
        BY <1>2, <3>1, <3>2
      <3> QED BY <1>1, <1>3, <2>1, <2>2, <3>2, <3>3
    <2>3. CASE ~ pos - 1 < Len(line)
      BY <1>1, <1>3, <2>1, <2>3 DEF Erased
    <2> QED BY <2>2, <2>3
  <1>4. CASE CommandBackspace /\ ~ pos > 0
    BY <1>1, <1>4 DEF CommandBackspace, typing
  <1>5. ASSUME NEW c \in CommandKeys, CommandLetter(c)
        PROVE  line' \in Seq(CommandKeys) /\ Len(line') < CommandSize /\ pos' \in 0 .. CommandSize - 1
    <2>1. pos < CommandSize - 1 /\ line' = Typed(pos, c) /\ pos' = pos + 1
      BY <1>5 DEF CommandLetter
    <2>2. CASE pos > Len(line)
      BY <1>1, <2>1, <2>2 DEF Typed
    <2>3. CASE ~ pos > Len(line)
      <3>1. SubSeq(line, 1, pos) \in Seq(CommandKeys) /\ Len(SubSeq(line, 1, pos)) = pos
        BY <1>1, <1>2, <2>3
      <3>2. line' = Append(SubSeq(line, 1, pos), c)
        BY <2>1, <2>3 DEF Typed
      <3> QED BY <1>1, <2>1, <3>1, <3>2
    <2> QED BY <2>2, <2>3
  <1>6. CASE CommandOther
    BY <1>1, <1>6 DEF CommandOther, typing
  <1> QED BY <1>3, <1>4, <1>5, <1>6

LEMMA CommandKeyKeeps ==
  ASSUME EditorInv, running, CommandKey
  PROVE  EditorInv'
  <1>1. CASE ExecuteCommand
    BY <1>1, ExecuteKeeps DEF CommandKey
  <1>2. CASE /\ CommandBackspace \/ CommandOther \/ \E c \in CommandKeys : CommandLetter(c)
             /\ Still /\ UNCHANGED <<buffer, cursor, modes, fresh, edits>>
    <2>1. UNCHANGED <<buffer, x, y, insert, command, fresh, edits, file, running, opened,
                      loaded, disk, writes>>
      BY <1>2 DEF Still, cursor, modes, session
    <2>2. TypeOK'
      BY <1>2, <2>1, TypingFits DEF EditorInv, TypeOK
    <2> QED BY <2>1, <2>2 DEF EditorInv, FilesOK, Placed, OneMode
  <1> QED BY <1>1, <1>2 DEF CommandKey

LEMMA NormalKeyKeeps ==
  ASSUME EditorInv, running, NormalKey
  PROVE  EditorInv'
  <1>1. /\ UNCHANGED <<buffer, fresh, edits, file, running, opened, loaded, disk, writes>>
        /\ ~insert /\ ~command
    BY DEF NormalKey, Still, session
  <1>2. /\ x' \in 0 .. Width /\ y' \in 0 .. EndRow
        /\ insert' \in BOOLEAN /\ command' \in BOOLEAN /\ ~(insert' /\ command')
        /\ line' \in Seq(CommandKeys) /\ Len(line') < CommandSize /\ pos' \in 0 .. CommandSize - 1
    <2>1. CASE Left \/ Right \/ Up \/ Down
      BY <1>1, <2>1, Sizes
      DEF Left, Right, Up, Down, EditorInv, TypeOK, Placed, modes, typing
    <2>2. CASE Insert \/ Other
      <3>1. /\ UNCHANGED <<x, y, command, line, pos>>
            /\ insert' = TRUE \/ insert' = insert
        BY <2>2 DEF Insert, Other, cursor, modes, typing
      <3> QED BY <1>1, <3>1 DEF EditorInv, TypeOK, Placed
    <2>3. CASE Colon
      <3>1. << >> \in Seq(CommandKeys) /\ Len(<< >>) = 0
        OBVIOUS
      <3> QED BY <1>1, <2>3, <3>1 DEF Colon, EditorInv, TypeOK, Placed, cursor
    <2> QED BY <2>1, <2>2, <2>3 DEF NormalKey
  <1>3. TypeOK'
    BY <1>1, <1>2 DEF EditorInv, TypeOK
  <1> QED BY <1>1, <1>2, <1>3 DEF EditorInv, FilesOK, Placed, OneMode

-----------------------------------------------------------------------------
LEMMA EditorStep == EditorInv /\ [Next]_vars => EditorInv'
  <1> SUFFICES ASSUME EditorInv, [Next]_vars PROVE EditorInv'
    OBVIOUS
  <1>1. CASE UNCHANGED vars
    BY <1>1 DEF vars, cursor, modes, typing, session, EditorInv, TypeOK, FilesOK, Placed, OneMode
  <1>2. CASE HandleKey
    BY <1>2, InsertKeyKeeps, CommandKeyKeeps, NormalKeyKeeps DEF HandleKey
  <1> QED BY <1>1, <1>2, OpenKeeps, OtherCommandKeeps DEF Next

LEMMA EditorAlways == Spec => []EditorInv
  BY EditorInitial, EditorStep, PTL DEF Spec

(* Every variable keeps to its range; the command's line leaves room for   *)
(* the zero byte at its end.                                               *)
THEOREM EditorTypeCorrect == Spec => []TypeOK
  BY EditorAlways, PTL DEF EditorInv

(* The next letter goes into the rows of text.                             *)
THEOREM CursorStaysInBuffer == Spec => []CursorInBuffer
  <1>1. EditorInv => CursorInBuffer
    BY RowFits DEF EditorInv, Placed, CursorInBuffer
  <1> QED BY <1>1, EditorAlways, PTL

(* The modes exclude each other, and a session ends in none.               *)
THEOREM ModesExclude == Spec => []OneMode
  BY EditorAlways, PTL DEF EditorInv

(* A session that has read its file changes the entry a save makes of its  *)
(* name, and the test's file, only: the same base name, and never what an  *)
(* earlier session had open (editor_load_file sets current_filename).      *)
THEOREM SavesKeepBase == Spec => SavesUnderBase
  <1>1. EditorInv /\ [Next]_vars =>
          (running /\ loaded =>
             \A name \in Names :
               disk'[name] # disk[name] => name \in SavesAs(opened) \cup {TestFile})
    <2> SUFFICES ASSUME EditorInv, [Next]_vars, running, loaded, NEW name \in Names,
                        disk'[name] # disk[name]
                 PROVE  name \in SavesAs(opened) \cup {TestFile}
      OBVIOUS
    <2>1. \A f, done : \A n \in Names : Write(n, f, done) => n = name
      BY DEF Write, EditorInv, FilesOK
    <2>2. Save \/ Test
      BY DEF Next, Open, OtherCommand, HandleKey, InsertKey, CommandKey, NormalKey,
         ExecuteCommand, Quit, Unknown, Still, vars
    <2>3. CASE Save
      <3>1. file \in SavesAs(opened) /\ file \in Names
        BY DEF EditorInv, SavesAs
      <3>2. PICK done \in BOOLEAN : Write(file, SavedFile, done)
        BY <2>3 DEF Save
      <3> QED BY <2>1, <3>1, <3>2
    <2>4. CASE Test
      BY <2>1, <2>4 DEF Test
    <2> QED BY <2>2, <2>3, <2>4
  <1> QED BY <1>1, EditorAlways, PTL DEF Spec, SavesUnderBase

-----------------------------------------------------------------------------
(* A buffer that was saved comes back.  The invariant says what its file   *)
(* holds as long as neither has changed: the text up to the last byte that *)
(* is not zero, and zeros in the rest of the last sector.                  *)
SavedAsIs ==
  fresh # None =>
    /\ disk[fresh] # None
    /\ disk[fresh].text = SavedText /\ disk[fresh].slack = Nul

LEMMA SavedTextIs ==
  ASSUME TypeOK
  PROVE  \E size \in 0 .. BufferSize :
           /\ Len(SavedText) = size
           /\ \A p \in Offsets : p < size => SavedText[p + 1] = buffer[p]
           /\ \A p \in Offsets : ~ (p < size) => buffer[p] = Nul
  <1> DEFINE used == {p \in Offsets : buffer[p] # Nul}
  <1>1. PICK size : size = IF used = {} THEN 0 ELSE Max(used) + 1
    OBVIOUS
  <1>2. SavedText = [i \in 1 .. size |-> buffer[i - 1]]
    BY <1>1 DEF SavedText
  <1>3. size \in 0 .. BufferSize /\ \A p \in used : p < size
    <2>1. CASE used = {}
      BY <1>1, <2>1, Sizes
    <2>2. CASE used # {}
      <3>1. BufferSize - 1 \in Nat /\ used \in SUBSET (0 .. BufferSize - 1)
        BY <2>2, Sizes DEF Offsets
      <3>2. PICK m : m = Max(used)
        OBVIOUS
      <3>3. m \in used /\ \A p \in used : p <= m
        <4> HIDE DEF used
        <4> QED BY <2>2, <3>1, <3>2, MaxIsGreatest
      <3>4. size = m + 1 /\ m \in 0 .. BufferSize - 1
        BY <1>1, <2>2, <3>1, <3>2, <3>3
      <3>5. \A p \in used : p \in Nat
        BY <3>1, Sizes
      <3> HIDE DEF used
      <3> QED BY <3>3, <3>4, <3>5, Sizes
    <2> QED BY <2>1, <2>2
  <1>4. Len(SavedText) = size
    BY <1>2, <1>3, Sizes
  <1>5. ASSUME NEW p \in Offsets, p < size PROVE SavedText[p + 1] = buffer[p]
    <2>1. p + 1 \in 1 .. size /\ (p + 1) - 1 = p
      BY <1>3, <1>5, Sizes DEF Offsets
    <2> QED BY <1>2, <2>1
  <1>6. ASSUME NEW p \in Offsets, ~ (p < size) PROVE buffer[p] = Nul
    BY <1>3, <1>6
  <1> QED BY <1>3, <1>4, <1>5, <1>6

LEMMA SavedSame == UNCHANGED buffer => SavedText' = SavedText
  BY DEF SavedText

(* Reading the file again changes no byte of the buffer.                   *)
LEMMA ReadBack ==
  ASSUME TypeOK, NEW f, f.text = SavedText, f.slack = Nul
  PROVE  ReadInto(f) = buffer
  <1>1. PICK size \in 0 .. BufferSize :
          /\ Len(f.text) = size
          /\ \A p \in Offsets : p < size => f.text[p + 1] = buffer[p]
          /\ \A p \in Offsets : ~ (p < size) => buffer[p] = Nul
    BY SavedTextIs
  <1>2. \A p \in Offsets : ReadInto(f)[p] = buffer[p]
    BY <1>1 DEF ReadInto
  <1>3. ReadInto(f) = [p \in Offsets |-> ReadInto(f)[p]]
    BY DEF ReadInto
  <1>4. buffer = [p \in Offsets |-> buffer[p]]
    BY DEF TypeOK
  <1> QED BY <1>2, <1>3, <1>4

LEMMA OpenKeepsSaved ==
  ASSUME EditorInv, SavedAsIs, NEW name \in Names, Open(name)
  PROVE  /\ SavedAsIs'
         /\ loaded' /\ fresh = opened' => buffer' = buffer
  <1>1. disk' = disk /\ opened' = name /\ name # None
    BY DEF Open
  <1>2. CASE LoadFails
    BY <1>1, <1>2 DEF LoadFails, SavedAsIs
  <1>3. CASE LoadFile(name)
    <2>1. /\ buffer' = ReadInto(disk[name])
          /\ fresh' = IF fresh = name THEN fresh ELSE None
      BY <1>3 DEF LoadFile, LoadOver
    <2>2. fresh = name => buffer' = buffer
      BY <1>1, <2>1, ReadBack DEF SavedAsIs, EditorInv
    <2> QED BY <1>1, <2>1, <2>2, SavedSame DEF SavedAsIs
  <1> QED BY <1>2, <1>3 DEF Open

LEMMA CommandsKeepSaved ==
  ASSUME EditorInv, SavedAsIs, UNCHANGED buffer, Save \/ Test \/ Quit \/ Unknown
  PROVE  SavedAsIs'
  <1>1. SavedText' = SavedText
    BY SavedSame
  <1>2. ASSUME NEW name \in Names, NEW f, NEW done \in BOOLEAN, Write(name, f, done)
        PROVE  /\ \A n \in Names : n # name => disk'[n] = disk[n]
               /\ done => disk'[name] = f
    BY <1>2 DEF Write, EditorInv, FilesOK
  <1>3. fresh # None => fresh \in Names
    BY DEF EditorInv, TypeOK
  <1>4. CASE Save
    <2>1. CASE file = None
      BY <1>1, <1>4, <2>1 DEF Save, SavedAsIs
    <2>2. CASE file # None
      <3>1. PICK name : name = file
        OBVIOUS
      <3>2. name \in Names
        BY <2>2, <3>1 DEF EditorInv, TypeOK
      <3>3. PICK f : f = SavedFile
        OBVIOUS
      <3>4. f.text = SavedText /\ f.slack = Nul /\ f # None
        BY <3>3, SavedFileType DEF SavedFile, EditorInv
      <3>5. PICK done \in BOOLEAN :
              /\ Write(name, f, done)
              /\ fresh' = IF done THEN name ELSE IF fresh = name THEN None ELSE fresh
        BY <1>4, <2>2, <3>1, <3>3 DEF Save
      <3>6. CASE done
        BY <1>1, <1>2, <3>2, <3>4, <3>5, <3>6 DEF SavedAsIs
      <3>7. CASE ~done
        <4>1. fresh' # None => fresh' = fresh /\ fresh # name
          BY <3>5, <3>7
        <4> QED BY <1>1, <1>2, <1>3, <3>2, <3>5, <4>1 DEF SavedAsIs
      <3> QED BY <3>6, <3>7
    <2> QED BY <2>1, <2>2
  <1>5. CASE Test
    <2>1. \A n \in Names : n # TestFile => disk'[n] = disk[n]
      BY <1>2, <1>5 DEF Test
    <2>2. fresh' # None => fresh' = fresh /\ fresh # TestFile
      BY <1>5 DEF Test
    <2> QED BY <1>1, <1>3, <2>1, <2>2 DEF SavedAsIs
  <1>6. CASE Quit \/ Unknown
    BY <1>1, <1>6 DEF Quit, Unknown, SavedAsIs
  <1> QED BY <1>4, <1>5, <1>6

LEMMA KeysKeepSaved ==
  ASSUME EditorInv, SavedAsIs, HandleKey
  PROVE  SavedAsIs'
  <1>1. ASSUME UNCHANGED <<buffer, fresh, disk>> PROVE SavedAsIs'
    BY <1>1, SavedSame DEF SavedAsIs
  <1>2. CASE InsertKey
    <2>1. disk' = disk
      BY <1>2 DEF InsertKey, Still
    <2>2. UNCHANGED <<buffer, fresh>> \/ fresh' = None
      BY <1>2 DEF InsertKey, EscapeKey, EnterKey, BackspaceKey, InsertOther, Letter, Edit
    <2> QED BY <1>1, <2>1, <2>2 DEF SavedAsIs
  <1>3. CASE CommandKey
    <2>1. CASE ExecuteCommand
      BY <2>1, CommandsKeepSaved DEF ExecuteCommand
    <2>2. CASE ~ ExecuteCommand
      BY <1>1, <1>3, <2>2 DEF CommandKey, Still
    <2> QED BY <2>1, <2>2
  <1>4. CASE NormalKey
    BY <1>1, <1>4 DEF NormalKey, Still
  <1> QED BY <1>2, <1>3, <1>4 DEF HandleKey

LEMMA SavedStep ==
  EditorInv /\ SavedAsIs /\ [Next]_vars =>
    /\ SavedAsIs'
    /\ [~running /\ running' /\ loaded' /\ fresh = opened' => buffer' = buffer]_vars
  <1> SUFFICES ASSUME EditorInv, SavedAsIs, [Next]_vars
               PROVE  /\ SavedAsIs'
                      /\ ~running /\ running' /\ loaded' /\ fresh = opened' => buffer' = buffer
    OBVIOUS
  <1>1. CASE UNCHANGED vars
    BY <1>1, SavedSame DEF vars, SavedAsIs
  <1>2. ASSUME NEW name \in Names, Open(name)
        PROVE  SavedAsIs' /\ (loaded' /\ fresh = opened' => buffer' = buffer)
    BY <1>2, OpenKeepsSaved
  <1>3. ASSUME NEW name \in Names, OtherCommand(name)
        PROVE  SavedAsIs' /\ buffer' = buffer
    <2>1. /\ buffer' = buffer /\ \A n \in Names : n # name => disk'[n] = disk[n]
          /\ fresh' = IF fresh = name THEN None ELSE fresh
      BY <1>3 DEF OtherCommand, EditorInv, FilesOK
    <2>2. fresh # None => fresh \in Names
      BY DEF EditorInv, TypeOK
    <2> QED BY <2>1, <2>2, SavedSame DEF SavedAsIs
  <1>4. CASE HandleKey
    BY <1>4, KeysKeepSaved DEF HandleKey
  <1> QED BY <1>1, <1>2, <1>3, <1>4 DEF Next

(* A buffer that was saved and not changed since is what its file brings   *)
(* back, whatever the size of a sector and where the text ends in it.      *)
THEOREM SavedComesBack == Spec => ReopenKeepsBuffer
  <1>1. Init => SavedAsIs
    BY DEF Init, SavedAsIs
  <1> QED BY <1>1, SavedStep, EditorAlways, PTL DEF Spec, ReopenKeepsBuffer

HIDE EditorAssumption

-----------------------------------------------------------------------------
(* The screen, cell by cell.                                               *)
Glyphs  == Chars \cup CommandKeys \cup Names
           \cup {None, Blank, "#", ":", "INSERT", "NORMAL", "message", "greeting"}
Plain   == Glyphs \ {Newline, Backspace}
Screens == [cells : [Screen!Cells -> Glyphs], pos : Screen!Cells]

LEMMA ScreenSize ==
  \E total \in Nat, top \in Nat :
    /\ Screen!Cells = 0 .. total - 1 /\ top = (Height - 1) * Width
    /\ total = top + Width /\ top > 0 /\ LastRow = top
    /\ Width \in Nat /\ Width > 0
<1>1. /\ Width \in Nat /\ Width > 0 /\ Height - 1 \in Nat /\ Height - 1 > 0
      /\ Height \in Nat
  BY EditorAssumption
<1>2. PICK h \in Nat : h = Height - 1 /\ h > 0 /\ Height = h + 1
  BY <1>1
<1>3. h * Width \in Nat /\ h * Width > 0 /\ Width * h = h * Width
  BY <1>1, <1>2
<1>4. Width * Height = h * Width + Width
  BY <1>1, <1>2, <1>3
<1>5. PICK total \in Nat, top \in Nat : total = h * Width + Width /\ top = h * Width
  BY <1>1, <1>3
<1>6. Screen!Cells = 0 .. total - 1
  BY <1>4, <1>5 DEF Screen!Cells
<1> QED  BY <1>1, <1>2, <1>3, <1>5, <1>6 DEF LastRow

LEMMA ScrollType ==
  ASSUME NEW cells \in [Screen!Cells -> Glyphs], NEW pos0
  PROVE  /\ Screen!Scroll([cells |-> cells, pos |-> pos0]) \in Screens
         /\ \A p \in Screen!Cells : p >= LastRow =>
              Screen!Scroll([cells |-> cells, pos |-> pos0]).cells[p] = Blank
<1>1. PICK total \in Nat, top \in Nat :
        /\ Screen!Cells = 0 .. total - 1 /\ top = (Height - 1) * Width
        /\ total = top + Width /\ LastRow = top /\ Width \in Nat /\ Width > 0
  BY ScreenSize
<1>2. (Height - 1) * Width \in Screen!Cells /\ Blank \in Glyphs
  BY <1>1 DEF Glyphs
<1>3. \A p \in Screen!Cells :
        (IF p + Width \in Screen!Cells THEN cells[p + Width] ELSE Blank) \in Glyphs
  BY <1>2
<1>4. \A p \in Screen!Cells : p >= LastRow => p + Width \notin Screen!Cells
  BY <1>1
<1> QED  BY <1>2, <1>3, <1>4 DEF Screen!Scroll, Screens

(* A printable character goes where the cursor is; behind the last cell    *)
(* the screen scrolls.                                                     *)
LEMMA PutPlain ==
  ASSUME NEW s \in Screens, NEW c \in Plain
  PROVE  /\ Screen!PutChar(s, c) \in Screens
         /\ s.pos + 1 \in Screen!Cells =>
              Screen!PutChar(s, c) =
                [cells |-> [s.cells EXCEPT ![s.pos] = c], pos |-> s.pos + 1]
         /\ s.pos + 1 \notin Screen!Cells =>
              \A p \in Screen!Cells : p >= LastRow =>
                Screen!PutChar(s, c).cells[p] = Blank
<1>1. s.cells \in [Screen!Cells -> Glyphs] /\ s.pos \in Screen!Cells /\ c \in Glyphs
  BY DEF Screens, Plain
<1>2. Screen!Put(s, c) = [cells |-> [s.cells EXCEPT ![s.pos] = c], pos |-> s.pos + 1]
  BY DEF Screen!Put, Plain
<1>3. [s.cells EXCEPT ![s.pos] = c] \in [Screen!Cells -> Glyphs]
  BY <1>1
<1>4. CASE s.pos + 1 \in Screen!Cells
  BY <1>2, <1>3, <1>4 DEF Screen!PutChar, Screens
<1>5. CASE s.pos + 1 \notin Screen!Cells
  <2>1. Screen!PutChar(s, c) =
          Screen!Scroll([cells |-> [s.cells EXCEPT ![s.pos] = c], pos |-> s.pos + 1])
    BY <1>2, <1>5 DEF Screen!PutChar
  <2> QED  BY <1>3, <1>5, <2>1, ScrollType
<1> QED  BY <1>4, <1>5

LEMMA PutType ==
  ASSUME NEW s \in Screens, NEW c \in Glyphs
  PROVE  Screen!PutChar(s, c) \in Screens
<1>1. s.cells \in [Screen!Cells -> Glyphs] /\ s.pos \in Screen!Cells /\ Blank \in Glyphs
      /\ s = [cells |-> s.cells, pos |-> s.pos] /\ Newline # Backspace
  BY EditorAssumption DEF Screens, Glyphs
<1>2. CASE c \in Plain
  BY <1>2, PutPlain
<1>3. PICK cells, pos0 : c \notin Plain =>
        /\ cells \in [Screen!Cells -> Glyphs]
        /\ Screen!Put(s, c) = [cells |-> cells, pos |-> pos0]
  <2>1. CASE c = Newline
    <3>1. Screen!Put(s, c) = [cells |-> s.cells, pos |-> (s.pos \div Width + 1) * Width]
      BY <1>1, <2>1 DEF Screen!Put, Screen!MoveTo
    <3> QED  BY <1>1, <3>1
  <2>2. CASE c = Backspace /\ s.pos = 0
    <3>1. Screen!Put(s, c) = s
      BY <1>1, <2>2 DEF Screen!Put
    <3> QED  BY <1>1, <3>1
  <2>3. CASE c = Backspace /\ s.pos # 0
    <3>1. Screen!Put(s, c) =
            [cells |-> [s.cells EXCEPT ![s.pos - 1] = Blank], pos |-> s.pos - 1]
      BY <1>1, <2>3 DEF Screen!Put
    <3>2. [s.cells EXCEPT ![s.pos - 1] = Blank] \in [Screen!Cells -> Glyphs]
      BY <1>1
    <3> QED  BY <3>1, <3>2
  <2>4. CASE c \in Plain
    BY <2>4
  <2> QED  BY <2>1, <2>2, <2>3, <2>4 DEF Plain
<1>4. CASE c \notin Plain /\ pos0 \in Screen!Cells
  BY <1>3, <1>4 DEF Screen!PutChar, Screens
<1>5. CASE c \notin Plain /\ pos0 \notin Screen!Cells
  BY <1>3, <1>5, ScrollType DEF Screen!PutChar
<1> QED  BY <1>2, <1>4, <1>5

(* A string is printed character by character.                             *)
PrintedBy(g, s0, str) ==
  /\ g[0] = s0 /\ g[Len(str)] = Screen!WriteStr(s0, str)
  /\ \A k \in 0 .. Len(str) : g[k] \in Screens
  /\ \A k \in 0 .. Len(str) - 1 : g[k + 1] = Screen!PutChar(g[k], str[k + 1])

LEMMA Printing ==
  ASSUME NEW s0 \in Screens, NEW str \in Seq(Glyphs)
  PROVE  \E g : PrintedBy(g, s0, str)
<1> DEFINE n == Len(str)
           step == [z \in Screens \X Glyphs |-> Screen!PutChar(z[1], z[2])]
           Folds(F) == F = [s \in SUBSET (1 .. n) |->
                              IF s = {} THEN s0
                              ELSE Screen!PutChar(F[s \ {Max(s)}], str[Max(s)])]
<1>1. n \in Nat /\ DOMAIN str = 1 .. n /\ str \in [1 .. n -> Glyphs]
  BY LenProperties
<1>2. step \in [Screens \X Glyphs -> Screens]
  BY PutType
<1>3. PICK g : FoldsTo(g, Screens, s0, step, n, str)
  <2> HIDE DEF n, step
  <2> QED  BY <1>1, <1>2, FoldExists
<1>4. Folds(g)
  <2>1. ASSUME NEW s \in SUBSET (1 .. n), s # {}
        PROVE  step[<<g[s \ {Max(s)}], str[Max(s)]>>] =
                  Screen!PutChar(g[s \ {Max(s)}], str[Max(s)])
    <3>1. PICK j \in Nat : j = n
      BY <1>1
    <3>2. s \in SUBSET (0 .. j)
      BY <3>1, <1>1
    <3>3. Max(s) \in s
      BY <2>1, <3>2, MaxIsGreatest
    <3>4. Max(s) \in 1 .. n /\ str[Max(s)] \in Glyphs /\ g[s \ {Max(s)}] \in Screens
      BY <1>1, <1>3, <3>3 DEF FoldsTo
    <3> QED  BY <3>4
  <2>2. g = [s \in SUBSET (1 .. n) |-> IF s = {} THEN s0
                ELSE step[<<g[s \ {Max(s)}], str[Max(s)]>>]]
    <3> HIDE DEF n, step
    <3> QED  BY <1>3 DEF FoldsTo
  <2> HIDE DEF n, step
  <2> QED  BY <2>1, <2>2
<1>5. Screen!WriteStr(s0, str) = LET F == CHOOSE F : Folds(F) IN F[1 .. n]
  BY <1>1 DEF Screen!WriteStr, Screen!FoldLeft, Screen!MapThenFoldSet, Screen!Max, Max
<1> DEFINE F == CHOOSE F : Folds(F)
<1>6. Folds(F)
  <2> HIDE DEF Folds
  <2> QED  BY <1>4
<1>7. F[1 .. n] = Screen!WriteStr(s0, str)
  BY <1>5
<1> HIDE DEF F
<1> DEFINE S == {k \in 0 .. n : F[1 .. k] \in Screens}
<1>8. F[1 .. 0] = s0 /\ 0 \in S
  <2>1. 1 .. 0 = {} /\ 0 \in 0 .. n
    BY <1>1
  <2> HIDE DEF n
  <2> QED  BY <1>6, <2>1
<1>9. ASSUME NEW k \in 0 .. n - 1
      PROVE  F[1 .. k + 1] = Screen!PutChar(F[1 .. k], str[k + 1])
  <2>1. k \in Nat /\ k + 1 \in 1 .. n
    BY <1>1
  <2>2. Max(1 .. k + 1) = k + 1 /\ (1 .. k + 1) \ {k + 1} = 1 .. k /\ 1 .. k + 1 # {}
    BY <2>1, UpTo
  <2>3. 1 .. k + 1 \in SUBSET (1 .. n)
    <3>1. \A i \in 1 .. k + 1 : i \in 1 .. n
      BY <1>1, <2>1
    <3> QED  BY <3>1
  <2> HIDE DEF n
  <2> QED  BY <1>6, <2>2, <2>3
<1>10. ASSUME NEW k \in 0 .. n - 1, k \in S PROVE k + 1 \in S
  <2>1. k + 1 \in 1 .. n /\ k + 1 \in 0 .. n
    BY <1>1
  <2>2. str[k + 1] \in Glyphs
    BY <1>1, <2>1
  <2>3. Screen!PutChar(F[1 .. k], str[k + 1]) \in Screens
    BY <1>10, <2>2, PutType
  <2> QED  BY <1>9, <2>1, <2>3
<1> HIDE DEF S
<1>11. \A k \in 0 .. n : k \in S
  BY <1>1, <1>8, <1>10, CountUp
<1> DEFINE h == [k \in 0 .. n |-> F[1 .. k]]
<1>12. h[0] = s0 /\ h[n] = Screen!WriteStr(s0, str)
  BY <1>1, <1>7, <1>8
<1>13. \A k \in 0 .. n : h[k] \in Screens
  BY <1>11 DEF S
<1>14. \A k \in 0 .. n - 1 : h[k + 1] = Screen!PutChar(h[k], str[k + 1])
  BY <1>1, <1>9
<1> HIDE DEF h
<1> QED  BY <1>12, <1>13, <1>14 DEF PrintedBy

LEMMA PrintType ==
  ASSUME NEW s \in Screens, NEW str \in Seq(Glyphs)
  PROVE  Screen!WriteStr(s, str) \in Screens
<1>1. PICK g : PrintedBy(g, s, str)
  BY Printing
<1>2. Len(str) \in 0 .. Len(str)
  BY LenProperties
<1> QED  BY <1>1, <1>2 DEF PrintedBy

(* What stands in the last row after k characters were printed there.      *)
Begun(s, str, k) ==
  /\ s.pos = LastRow + k
  /\ \A i \in 1 .. k : s.cells[LastRow + i - 1] = str[i]
Kept(s, t, k) ==
  \A p \in Screen!Cells : p >= LastRow + k => t.cells[p] = s.cells[p]

LEMMA RowBegun ==
  ASSUME NEW s \in Screens, s.pos = LastRow, NEW str \in Seq(Plain),
         NEW g, PrintedBy(g, s, str), NEW m \in Nat, m <= Len(str), m < Width
  PROVE  Begun(g[m], str, m) /\ Kept(s, g[m], m)
<1>1. PICK total \in Nat, top \in Nat :
        /\ Screen!Cells = 0 .. total - 1 /\ LastRow = top
        /\ total = top + Width /\ Width \in Nat /\ Width > 0
  BY ScreenSize
<1>2. Len(str) \in Nat /\ \A i \in 1 .. Len(str) : str[i] \in Plain
  BY LenProperties, ElementOfSeq
<1> DEFINE S == {k \in 0 .. m : Begun(g[k], str, k) /\ Kept(s, g[k], k)}
<1>3. 0 \in S
  <2>1. g[0] = s
    BY DEF PrintedBy
  <2> QED  BY <1>1, <2>1 DEF Begun, Kept
<1>4. ASSUME NEW k \in 0 .. m - 1, k \in S PROVE k + 1 \in S
  <2>1. PICK u, v, c : u = g[k] /\ v = g[k + 1] /\ c = str[k + 1]
    OBVIOUS
  <2>2. /\ k \in Nat /\ k + 1 <= m /\ k + 1 \in 0 .. m /\ k \in 0 .. Len(str) - 1
        /\ k \in 0 .. Len(str) /\ k + 1 \in 1 .. Len(str) /\ k + 1 \in 0 .. Len(str)
    BY <1>2
  <2>3. u \in Screens /\ c \in Plain /\ v = Screen!PutChar(u, c)
    BY <1>2, <2>1, <2>2 DEF PrintedBy
  <2>4. u.pos = top + k /\ top + k + 1 \in Screen!Cells /\ top + k \in Screen!Cells
    BY <1>1, <1>4, <2>1, <2>2 DEF Begun
  <2>5. v = [cells |-> [u.cells EXCEPT ![u.pos] = c], pos |-> u.pos + 1]
    BY <2>3, <2>4, PutPlain
  <2>6. DOMAIN u.cells = Screen!Cells
    BY <2>3 DEF Screens
  <2>7. /\ v.pos = top + k + 1 /\ v.cells[top + k] = c
        /\ \A p \in Screen!Cells : p # top + k => v.cells[p] = u.cells[p]
    BY <2>4, <2>5, <2>6
  <2>8. /\ \A i \in 1 .. k : u.cells[top + i - 1] = str[i]
        /\ \A p \in Screen!Cells : p >= top + k => u.cells[p] = s.cells[p]
    BY <1>1, <1>4, <2>1 DEF Begun, Kept
  <2>9. ASSUME NEW i \in 1 .. k + 1 PROVE v.cells[top + i - 1] = str[i]
    <3>1. CASE i = k + 1
      <4>1. top + i - 1 = top + k
        BY <2>2, <3>1
      <4> QED  BY <2>1, <2>7, <3>1, <4>1
    <3>2. CASE i # k + 1
      <4>1. i \in 1 .. k /\ top + i - 1 # top + k /\ top + i - 1 \in Screen!Cells
        BY <1>1, <2>2, <3>2
      <4> QED  BY <2>7, <2>8, <4>1
    <3> QED  BY <3>1, <3>2
  <2>10. ASSUME NEW p \in Screen!Cells, p >= top + (k + 1) PROVE v.cells[p] = s.cells[p]
    <3>1. p # top + k /\ p >= top + k
      BY <1>1, <2>2, <2>10
    <3> QED  BY <2>7, <2>8, <3>1
  <2>11. v.pos = top + (k + 1)
    BY <2>2, <2>7
  <2>12. Begun(v, str, k + 1) /\ Kept(s, v, k + 1)
    BY <1>1, <2>9, <2>10, <2>11 DEF Begun, Kept
  <2> QED  BY <2>1, <2>2, <2>12
<1> HIDE DEF S
<1>5. m \in S
  <2>1. \A k \in 0 .. m : k \in S
    BY <1>3, <1>4, CountUp
  <2> QED  BY <2>1
<1> QED  BY <1>5 DEF S

LEMMA Moved ==
  ASSUME NEW s \in Screens
  PROVE  /\ Screen!MoveTo(s, LastRow) \in Screens
         /\ Screen!MoveTo(s, LastRow).pos = LastRow
         /\ Screen!MoveTo(s, LastRow).cells = s.cells
<1>1. LastRow \in Screen!Cells
  BY ScreenSize
<1> QED  BY <1>1 DEF Screen!MoveTo, Screens

(* The clearing of the last row ends behind the last cell and scrolls:     *)
(* that is what leaves the row blank.                                      *)
LEMMA Cleared ==
  ASSUME NEW s \in Screens, s.pos = LastRow
  PROVE  LET r == Screen!WriteStr(s, [i \in 1 .. Width |-> Blank])
         IN /\ r \in Screens
            /\ \A p \in Screen!Cells : p >= LastRow => r.cells[p] = Blank
<1> DEFINE str == [i \in 1 .. Width |-> Blank]
           r == Screen!WriteStr(s, str)
<1>1. PICK total \in Nat, top \in Nat :
        /\ Screen!Cells = 0 .. total - 1 /\ LastRow = top
        /\ total = top + Width /\ Width \in Nat /\ Width > 0
  BY ScreenSize
<1>2. Blank \in Plain /\ Blank \in Glyphs
  BY EditorAssumption DEF Plain, Glyphs
<1>3. str \in Seq(Plain) /\ str \in Seq(Glyphs) /\ Len(str) = Width
  BY <1>1, <1>2
<1>4. str[Width] = Blank
  BY <1>1
<1> HIDE DEF str
<1>5. PICK g : PrintedBy(g, s, str)
  BY <1>3, Printing
<1>6. PICK m \in Nat : m = Width - 1 /\ m + 1 = Width /\ m < Width
  BY <1>1
<1>7. Begun(g[m], str, m)
  BY <1>3, <1>5, <1>6, RowBegun
<1>8. g[m].pos + 1 \notin Screen!Cells
  BY <1>1, <1>6, <1>7 DEF Begun
<1>9. g[m] \in Screens /\ r = Screen!PutChar(g[m], Blank)
  <2>1. m \in 0 .. Len(str) /\ m \in 0 .. Len(str) - 1
    BY <1>3, <1>6
  <2> QED  BY <1>3, <1>4, <1>5, <1>6, <2>1 DEF PrintedBy
<1>10. r \in Screens /\ \A p \in Screen!Cells : p >= LastRow => r.cells[p] = Blank
  BY <1>2, <1>8, <1>9, PutPlain
<1> QED  BY <1>10 DEF str

StatusIs(r, text) ==
  Len(text) < Width =>
    \A col \in 0 .. Width - 1 :
      r.cells[LastRow + col] = IF col < Len(text) THEN text[col + 1] ELSE Blank

LEMMA StatusShown ==
  ASSUME NEW s \in Screens, NEW text \in Seq(Plain)
  PROVE  RenderStatus(s, text) \in Screens /\ StatusIs(RenderStatus(s, text), text)
<1>1. PICK total \in Nat, top \in Nat :
        /\ Screen!Cells = 0 .. total - 1 /\ LastRow = top
        /\ total = top + Width /\ Width \in Nat /\ Width > 0
  BY ScreenSize
<1>2. PICK u, t, r :
        /\ u = Screen!WriteStr(Screen!MoveTo(s, LastRow), [i \in 1 .. Width |-> Blank])
        /\ t = Screen!MoveTo(u, LastRow) /\ r = Screen!WriteStr(t, text)
  OBVIOUS
<1>3. u \in Screens /\ \A p \in Screen!Cells : p >= LastRow => u.cells[p] = Blank
  BY <1>2, Moved, Cleared
<1>4. t \in Screens /\ t.pos = LastRow /\ t.cells = u.cells
  BY <1>2, <1>3, Moved
<1>5. text \in Seq(Glyphs) /\ Len(text) \in Nat
  BY LenProperties DEF Plain
<1>6. r \in Screens
  BY <1>2, <1>4, <1>5, PrintType
<1>7. ASSUME Len(text) < Width, NEW col \in 0 .. Width - 1
      PROVE  r.cells[LastRow + col] = IF col < Len(text) THEN text[col + 1] ELSE Blank
  <2>1. PICK g : PrintedBy(g, t, text)
    BY <1>4, <1>5, Printing
  <2>2. PICK n \in Nat : n = Len(text)
    BY <1>5
  <2>3. r = g[n] /\ Begun(r, text, n) /\ Kept(t, r, n)
    <3>1. r = g[n]
      BY <1>2, <2>1, <2>2 DEF PrintedBy
    <3>2. Begun(g[n], text, n) /\ Kept(t, g[n], n)
      BY <1>4, <1>7, <2>1, <2>2, RowBegun
    <3> QED  BY <3>1, <3>2
  <2>4. top + col \in Screen!Cells /\ top + col >= top /\ col \in Nat
    BY <1>1
  <2>5. CASE col < n
    <3>1. col + 1 \in 1 .. n /\ top + (col + 1) - 1 = top + col
      BY <2>4, <2>5
    <3> QED  BY <1>1, <2>2, <2>3, <2>5, <3>1 DEF Begun
  <2>6. CASE ~ col < n
    <3>1. top + col >= top + n
      BY <2>4, <2>6
    <3>2. r.cells[top + col] = t.cells[top + col] /\ u.cells[top + col] = Blank
      BY <1>1, <1>3, <2>3, <2>4, <3>1 DEF Kept
    <3> QED  BY <1>1, <1>4, <2>2, <2>6, <3>2
  <2> QED  BY <2>5, <2>6
<1>8. RenderStatus(s, text) = r
  BY <1>2 DEF RenderStatus
<1> QED  BY <1>6, <1>7, <1>8 DEF StatusIs

LEMMA StatusType ==
  ASSUME NEW ins \in BOOLEAN, NEW cmd \in BOOLEAN, NEW typed \in Seq(CommandKeys)
  PROVE  StatusText(ins, cmd, typed) \in Seq(Plain)
<1>1. CommandKeys \subseteq Plain /\ {":", "INSERT", "NORMAL"} \subseteq Plain
  BY EditorAssumption DEF Plain, Glyphs
<1>2. <<":">> \in Seq(Plain) /\ <<"INSERT">> \in Seq(Plain) /\ <<"NORMAL">> \in Seq(Plain)
  BY <1>1
<1>3. typed \in Seq(Plain)
  BY <1>1
<1>4. <<":">> \o typed \in Seq(Plain)
  BY <1>2, <1>3, ConcatProperties
<1> QED  BY <1>2, <1>4 DEF StatusText

(* Where a cell is.                                                        *)
LEMMA RowAndColumn ==
  ASSUME NEW w \in Nat, w > 0, NEW row \in Nat, NEW col \in 0 .. w - 1
  PROVE  (row * w + col) \div w = row /\ (row * w + col) % w = col
<1>1. PICK p \in Nat : p = row * w + col
  <2>1. row * w \in Nat
    OBVIOUS
  <2> QED  BY <2>1
<1>2. PICK q \in Int, r \in 0 .. w - 1 : q = p \div w /\ r = p % w /\ p = w * q + r
  OBVIOUS
<1>3. CASE q < row
  <2>1. PICK d \in Nat : row = q + 1 + d
    BY <1>3
  <2>2. row * w = w * q + w + d * w /\ d * w >= 0 /\ w * q \in Int /\ d * w \in Int
    BY <2>1
  <2> QED  BY <1>1, <1>2, <2>2
<1>4. CASE q > row
  <2>1. PICK d \in Nat : q = row + 1 + d
    BY <1>4
  <2>2. w * q = row * w + w + d * w /\ d * w >= 0 /\ row * w \in Int /\ d * w \in Int
    BY <2>1
  <2> QED  BY <1>1, <1>2, <2>2
<1>5. CASE q = row
  <2>1. row * w = w * q /\ row * w \in Int
    BY <1>5
  <2> QED  BY <1>1, <1>2, <1>5, <2>1
<1> QED  BY <1>3, <1>4, <1>5

LEMMA CellOf ==
  ASSUME NEW w \in Nat, w > 0, NEW h \in Nat, NEW p \in Nat, p < h * w
  PROVE  p \div w \in 0 .. h - 1 /\ p % w \in 0 .. w - 1
<1>1. PICK q \in Int, r \in 0 .. w - 1 : q = p \div w /\ r = p % w /\ p = w * q + r
  OBVIOUS
<1>2. CASE q < 0
  <2>1. PICK d \in Nat : q = 0 - 1 - d
    BY <1>2
  <2>2. w * q = 0 - w - d * w /\ d * w >= 0 /\ d * w \in Int
    BY <2>1
  <2> QED  BY <1>1, <2>2
<1>3. CASE q >= h
  <2>1. PICK d \in Nat : q = h + d
    BY <1>3
  <2>2. w * q = h * w + d * w /\ d * w >= 0 /\ d * w \in Int /\ h * w \in Int
    BY <2>1
  <2> QED  BY <1>1, <2>2
<1> QED  BY <1>1, <1>2, <1>3

TextIs(t, buf) ==
  \A row \in 0 .. EndRow, col \in Gutter .. Width - 1 :
    t.cells[row * Width + col] = Shown(buf, row, col - Gutter)

LEMMA TextShown ==
  ASSUME NEW s \in Screens, NEW buf \in [Offsets -> Chars], NEW at,
         at + Gutter \in Screen!Cells
  PROVE  /\ Render(s, buf, at) \in Screens /\ TextIs(Render(s, buf, at), buf)
         /\ \A p \in Screen!Cells : p >= LastRow => Render(s, buf, at).cells[p] = s.cells[p]
<1>1. PICK total \in Nat, top \in Nat :
        /\ Screen!Cells = 0 .. total - 1 /\ LastRow = top /\ top = (Height - 1) * Width
        /\ total = top + Width /\ Width \in Nat /\ Width > 0
  BY ScreenSize
<1>2. PICK h \in Nat : h = Height - 2 /\ h = EndRow + 1 /\ Height - 1 = h + 1
  <2>1. Height - 2 \in Nat /\ Height \in Nat /\ EndRow = Height - 3
    BY EditorAssumption DEF EndRow
  <2> QED  BY <2>1
<1>2a. PICK hw \in Nat : hw = h * Width /\ (Height - 2) * Width = hw /\ top = hw + Width
  <2>1. ASSUME NEW w \in Nat
        PROVE  h * w \in Nat /\ (h + 1) * w = h * w + w
    BY ONLY <2>1, h \in Nat
  <2>2. h * Width \in Nat /\ (h + 1) * Width = h * Width + Width
    BY <1>1, <2>1
  <2>3. (Height - 2) * Width = h * Width /\ (Height - 1) * Width = (h + 1) * Width
    BY <1>2
  <2> QED  BY <1>1, <2>2, <2>3
<1>3. Gutter \in Nat /\ Gutter >= 1 /\ Gutter < Width /\ EndRow \in Nat
  BY EditorAssumption, Sizes
<1> DEFINE cell(p) == IF p >= (Height - 2) * Width THEN s.cells[p]
                      ELSE IF p % Width < Gutter THEN "#"
                      ELSE Shown(buf, p \div Width, (p % Width) - Gutter)
           r == Render(s, buf, at)
<1>4. r = [cells |-> [p \in Screen!Cells |-> cell(p)], pos |-> at + Gutter]
  BY DEF Render
<1>5. ASSUME NEW p \in Screen!Cells PROVE cell(p) \in Glyphs
  <2>1. CASE p >= (Height - 2) * Width
    BY <2>1 DEF Screens
  <2>2. CASE ~ p >= (Height - 2) * Width /\ p % Width < Gutter
    BY <2>2 DEF Glyphs
  <2>3. CASE ~ p >= (Height - 2) * Width /\ ~ p % Width < Gutter
    <3>1. p \in Nat /\ p < h * Width
      BY <1>1, <1>2a, <2>3
    <3>2. PICK row \in 0 .. h - 1, col \in 0 .. Width - 1 :
            row = p \div Width /\ col = p % Width
      BY <1>1, <3>1, CellOf
    <3>3. row \in 0 .. EndRow /\ col - Gutter \in 0 .. Width
      <4>1. row \in 0 .. EndRow
        BY <1>2, <1>3, <3>2
      <4>2. ~ col < Gutter
        BY <2>3, <3>2
      <4> QED  BY <1>1, <1>3, <4>1, <4>2
    <3>4. buf[row * Width + (col - Gutter)] \in Chars
      BY <3>3, RowFits
    <3> QED  BY <2>3, <3>2, <3>4 DEF Shown, Glyphs
  <2> QED  BY <2>1, <2>2, <2>3
<1>6. r \in Screens
  <2> HIDE DEF cell, r
  <2> QED  BY <1>4, <1>5 DEF Screens
<1>7. ASSUME NEW row \in 0 .. EndRow, NEW col \in Gutter .. Width - 1
      PROVE  r.cells[row * Width + col] = Shown(buf, row, col - Gutter)
  <2>1. row \in Nat /\ col \in 0 .. Width - 1 /\ row < h /\ col \in Nat
    BY <1>2, <1>3
  <2>2. PICK p \in Nat : p = row * Width + col /\ p \div Width = row /\ p % Width = col
    <3>1. row * Width + col \in Nat
      BY <1>1, <2>1
    <3> QED  BY <1>1, <2>1, <3>1, RowAndColumn
  <2>3. p < h * Width
    <3>1. PICK d \in Nat : h = row + 1 + d
      BY <2>1
    <3>2. /\ h * Width = row * Width + Width + d * Width
          /\ d * Width >= 0 /\ d * Width \in Int
      <4>1. ASSUME NEW w \in Nat
            PROVE  /\ (row + 1 + d) * w = row * w + w + d * w
                   /\ d * w >= 0 /\ d * w \in Int
        BY ONLY <4>1, row \in Nat, d \in Nat
      <4> QED  BY <1>1, <2>1, <3>1, <4>1
    <3>3. PICK a \in Int, b \in Int :
            a = row * Width /\ b = d * Width /\ hw = a + Width + b /\ b >= 0
      BY <1>1, <1>2a, <2>1, <3>2
    <3>4. p = a + col /\ col < Width /\ Width \in Nat /\ col \in Nat
      BY <1>1, <2>1, <2>2, <3>3
    <3>5. p < hw
      BY ONLY <3>3, <3>4, p \in Nat, hw \in Nat
    <3> QED  BY <1>2a, <3>5
  <2>4. p \in Screen!Cells /\ ~ p >= (Height - 2) * Width /\ ~ p % Width < Gutter
    <3>1. p < hw
      BY <1>2a, <2>3
    <3> QED  BY <1>1, <1>2a, <1>3, <2>2, <3>1
  <2>5. cell(p) = Shown(buf, row, col - Gutter)
    BY <2>2, <2>4
  <2> HIDE DEF cell, r
  <2> QED  BY <1>4, <2>2, <2>4, <2>5
<1>8. ASSUME NEW p \in Screen!Cells, p >= LastRow PROVE r.cells[p] = s.cells[p]
  <2>1. p >= (Height - 2) * Width
    BY <1>1, <1>2a, <1>8
  <2>2. cell(p) = s.cells[p]
    BY <2>1
  <2> HIDE DEF cell, r
  <2> QED  BY <1>4, <2>2
<1> HIDE DEF cell, r
<1>9. TextIs(r, buf)
  BY <1>7 DEF TextIs
<1> QED  BY <1>6, <1>8, <1>9 DEF r

(* What Draw leaves, whatever was on the screen before it.                 *)
LEMMA DrawShows ==
  ASSUME TypeOK', Placed', NEW s \in Screens, Draw(s)
  PROVE  screen' \in Screens /\ ScreenShowsText'
<1>1. PICK buf \in [Offsets -> Chars], ins \in BOOLEAN, cmd \in BOOLEAN,
           typed \in Seq(CommandKeys), cx \in 0 .. Width, cy \in 0 .. EndRow :
        /\ buf = buffer' /\ ins = insert' /\ cmd = command' /\ typed = line'
        /\ cx = x' /\ cy = y'
  BY DEF TypeOK, Placed
<1>2. PICK text, u, at, t :
        /\ text = StatusText(ins, cmd, typed) /\ u = RenderStatus(s, text)
        /\ at = cy * Width + cx /\ t = Render(u, buf, at)
  OBVIOUS
<1>3. t = screen'
  BY <1>1, <1>2 DEF Draw, NewStatus
<1>4. text \in Seq(Plain)
  BY <1>2, StatusType
<1>5. u \in Screens /\ StatusIs(u, text)
  BY <1>2, <1>4, StatusShown
<1>6. PICK total \in Nat, top \in Nat :
        /\ Screen!Cells = 0 .. total - 1 /\ LastRow = top /\ top = (Height - 1) * Width
        /\ total = top + Width /\ Width \in Nat /\ Width > 0
  BY ScreenSize
<1>7. at + Gutter \in Screen!Cells
  <2>1. at \in Offsets
    BY <1>2, RowFits
  <2>2. BufferSize = top
    BY <1>6, EditorAssumption DEF BufferSize
  <2>3. Gutter \in Nat /\ Gutter < Width
    BY EditorAssumption
  <2>4. at \in 0 .. top - 1
    BY <2>1, <2>2 DEF Offsets
  <2>5. at + Gutter \in 0 .. total - 1
    BY ONLY <2>3, <2>4, <1>6
  <2> QED  BY <1>6, <2>5
<1>8. /\ t \in Screens /\ TextIs(t, buf)
      /\ \A p \in Screen!Cells : p >= LastRow => t.cells[p] = u.cells[p]
  BY <1>2, <1>5, <1>7, TextShown
<1>9. StatusIs(t, text)
  <2> SUFFICES ASSUME Len(text) < Width, NEW col \in 0 .. Width - 1
               PROVE  t.cells[LastRow + col] = u.cells[LastRow + col]
    BY <1>5 DEF StatusIs
  <2>1. LastRow + col \in Screen!Cells /\ LastRow + col >= LastRow
    BY <1>6
  <2> QED  BY <1>8, <2>1
<1>10. ScreenShowsText'
  <2>1. \A row \in 0 .. EndRow, col \in Gutter .. Width - 1 :
          screen'.cells[row * Width + col] = Shown(buffer', row, col - Gutter)
    BY <1>1, <1>3, <1>8 DEF TextIs
  <2>2. StatusIs(screen', StatusText(insert', command', line'))
    BY <1>1, <1>2, <1>3, <1>9
  <2> QED  BY <2>1, <2>2 DEF ScreenShowsText, StatusIs, LastRow
<1> QED  BY <1>3, <1>8, <1>10

LEMMA RedrawShows ==
  ASSUME EditorInv, EditorInv', NEW s \in Screens, Redraw(s)
  PROVE  screen' \in Screens /\ ScreenShowsText'
<1>0. PICK name \in Names \cup {None} : name = opened
  BY DEF EditorInv, TypeOK
<1>1. PICK u : name = opened /\ u = Screen!WriteStr(s, <<name>>)
  BY <1>0
<1>2. <<name>> \in Seq(Glyphs)
  BY DEF Glyphs
<1>3. u \in Screens
  BY <1>1, <1>2, PrintType
<1>4. Draw(u)
  BY <1>1 DEF Redraw, Draw
<1> QED  BY <1>3, <1>4, DrawShows DEF EditorInv

LEMMA Messages ==
  /\ <<"message", Newline>> \in Seq(Glyphs) /\ <<"greeting", Newline>> \in Seq(Glyphs)
  /\ <<"message">> \in Seq(Glyphs) /\ Screen!Clear \in Screens
<1>1. {Newline, "message", "greeting", Blank} \subseteq Glyphs
  BY DEF Glyphs, Chars
<1>2. 0 \in Screen!Cells
  BY ScreenSize
<1>3. Screen!Clear \in Screens
  BY <1>1, <1>2 DEF Screen!Clear, Screens
<1> QED  BY <1>1, <1>3

LEMMA MessageType ==
  ASSUME NEW s \in Screens
  PROVE  Message(s) \in Screens
<1>1. PICK t \in Screens : t = Screen!MoveTo(s, LastRow)
  BY Moved
<1> QED  BY <1>1, Messages, PrintType DEF Message

LEMMA ScreenInitial ==
  ASSUME Init
  PROVE  screen \in Screens /\ ScreenShowsText
BY Messages DEF Init, ScreenShowsText

LEMMA ScreenStep ==
  ASSUME EditorInv, EditorInv', screen \in Screens, ScreenShowsText, [Next]_vars
  PROVE  screen' \in Screens /\ ScreenShowsText'
<1>1. PICK s \in Screens : s = screen
  OBVIOUS
<1>2. CASE UNCHANGED vars
  BY <1>2 DEF vars, modes, typing, session, ScreenShowsText
<1>3. ASSUME NEW name \in Names, Open(name)
      PROVE  screen' \in Screens /\ ScreenShowsText'
  <2>1. PICK u : u = Screen!WriteStr(s, <<"message", Newline>>)
    OBVIOUS
  <2>2. u \in Screens
    BY <2>1, Messages, PrintType
  <2>3. Draw(u)
    BY <1>1, <1>3, <2>1 DEF Open, Draw
  <2> QED  BY <2>2, <2>3, DrawShows DEF EditorInv
<1>4. ASSUME NEW name \in Names, OtherCommand(name)
      PROVE  screen' \in Screens /\ ScreenShowsText'
  <2>1. ~ running' /\ screen' = screen
    BY <1>4 DEF OtherCommand, session
  <2> QED  BY <2>1 DEF ScreenShowsText
<1>5. ASSUME Redraw(screen)
      PROVE  screen' \in Screens /\ ScreenShowsText'
  <2>1. Redraw(s)
    BY <1>1, <1>5 DEF Redraw, Draw
  <2> QED  BY <2>1, RedrawShows
<1>6. ASSUME Redraw(Message(screen))
      PROVE  screen' \in Screens /\ ScreenShowsText'
  <2>1. PICK u \in Screens : u = Message(s)
    BY MessageType
  <2>2. Redraw(u)
    BY <1>1, <1>6, <2>1 DEF Redraw, Draw
  <2> QED  BY <2>2, RedrawShows
<1>7. ASSUME Test
      PROVE  screen' \in Screens /\ ScreenShowsText'
  <2>1. PICK u : u = Screen!WriteStr(s, <<"message", Newline>>)
    OBVIOUS
  <2>2. u \in Screens
    BY <2>1, Messages, PrintType
  <2>3. Redraw(u)
    BY <1>1, <1>7, <2>1 DEF Test, Redraw, Draw
  <2> QED  BY <2>2, <2>3, RedrawShows
<1>8. ASSUME Quit
      PROVE  screen' \in Screens /\ ScreenShowsText'
  <2>1. PICK u : u = Screen!WriteStr(Screen!Clear, <<"greeting", Newline>>)
    OBVIOUS
  <2>2. u \in Screens
    BY <2>1, Messages, PrintType
  <2>3. Redraw(u)
    BY <1>8, <2>1 DEF Quit, Redraw, Draw
  <2> QED  BY <2>2, <2>3, RedrawShows
<1>9. CASE HandleKey
  <2>1. CASE InsertKey \/ NormalKey
    BY <1>5, <2>1 DEF InsertKey, NormalKey
  <2>2. CASE CommandKey
    <3>1. CASE ExecuteCommand
      <4>1. Save \/ Test \/ Quit \/ Unknown
        BY <3>1 DEF ExecuteCommand
      <4>2. CASE Save
        BY <1>6, <4>2 DEF Save
      <4>3. CASE Unknown
        BY <1>6, <4>3 DEF Unknown
      <4> QED  BY <1>7, <1>8, <4>1, <4>2, <4>3
    <3>2. CASE Redraw(screen)
      BY <1>5, <3>2
    <3> QED  BY <2>2, <3>1, <3>2 DEF CommandKey
  <2> QED  BY <1>9, <2>1, <2>2 DEF HandleKey
<1> QED  BY <1>2, <1>3, <1>4, <1>9 DEF Next

(* The screen shows the rows of text, each up to its first zero byte, and  *)
(* the mode below them: after every key, however the status, a message or  *)
(* the shell's greeting has scrolled it (editor_render).                   *)
THEOREM ScreenIsBuffer == Spec => []ScreenShowsText
<1> DEFINE Drawn == screen \in Screens /\ ScreenShowsText
<1>1. Init => Drawn
  BY ScreenInitial
<1>2. EditorInv /\ EditorInv' /\ Drawn /\ [Next]_vars => Drawn'
  BY ScreenStep
<1>3. Drawn => ScreenShowsText
  OBVIOUS
<1> HIDE DEF Drawn
<1> QED  BY <1>1, <1>2, <1>3, EditorAlways, PTL DEF Spec
=============================================================================
