------------------------------ MODULE Console ------------------------------
(***************************************************************************)
(* The shell's line (kernel/shell.c) between the keyboard and the screen:  *)
(* shell_run reads a character, shell_handle_keypress puts it into the     *)
(* line and echoes it, and a newline hands the line to a command, of which *)
(* only what it does to the screen and to the keyboard's flags is kept.    *)
(***************************************************************************)
EXTENDS Keyboard

CONSTANTS
  Width, Height, Newline, Backspace, Blank,
  LineSize,     \* MAX_CMD_LENGTH, 256
  Prompt,       \* the last character of the prompt
  Outputs       \* what commands print, with a prompt at the end or without

VARIABLES
  line,         \* cmd_buffer up to cmd_index
  screen,
  before        \* an observer: the cell in front of the line as it began

vars == <<kbVars, line, screen, before>>

Screen == INSTANCE Vga

(* A line fits on the screen.                                              *)
ASSUME LineAssumption ==
  /\ Width \in Nat \ {0} /\ Height \in Nat \ {0, 1}
  /\ Newline # Backspace /\ {Blank, Prompt} \cap {Newline, Backspace} = {}
  /\ LineSize \in Nat \ {0} /\ LineSize <= Width * (Height - 1) + 1
  /\ \A out \in Outputs : out \in Seq(Range(out))

CellBefore(s) == IF s.pos = 0 THEN Blank ELSE s.cells[s.pos - 1]

Welcome == Screen!WriteStr(Screen!Clear, <<Prompt>>)

Init ==
  /\ KeyboardInit
  /\ line = << >> /\ screen = Welcome /\ before = Prompt

----------------------------------------------------------------------------
(* The three cases of shell_handle_keypress.                               *)

(* A slip for comparison: an empty line is erased.                         *)
EraseAlways(c) ==
  /\ c = Backspace
  /\ line' = Front(line)
  /\ screen' = Screen!PutChar(screen, Backspace)
  /\ UNCHANGED before

Add(c) ==
  /\ c \notin {Newline, Backspace} /\ Len(line) < LineSize - 1
  /\ line' = Append(line, c)
  /\ screen' = Screen!PutChar(screen, c)
  /\ UNCHANGED before

Erase(c) ==
  /\ c = Backspace /\ line # << >>
  /\ line' = Front(line)
  /\ screen' = Screen!PutChar(screen, Backspace)
  /\ UNCHANGED before

Ignore(c) ==
  /\ \/ c = Backspace /\ line = << >>
     \/ c \notin {Newline, Backspace} /\ Len(line) >= LineSize - 1
  /\ UNCHANGED <<line, screen, before>>

(* A command prints below the line, or clears the screen.                  *)
Enter(c) ==
  /\ c = Newline
  /\ line' = << >>
  /\ \/ \E out \in Outputs :
          screen' = Screen!WriteStr(Screen!PutChar(screen, Newline), out)
     \/ screen' = Welcome
  /\ before' = CellBefore(screen')

HandleKeypress(c) == Add(c) \/ Erase(c) \/ Ignore(c) \/ Enter(c)

(* keyboard_read takes codes until one is a character: what it passes over *)
(* is nothing to the shell.                                                *)
ReadKey ==
  /\ TakeCode
  /\ LET read == Decode(flags, Head(codes))
     IN /\ flags' = read.flags
        /\ IF read.char = NoChar THEN UNCHANGED <<line, screen, before>>
           ELSE HandleKeypress(read.char)

(* A program run by exec ends: keyboard_init clears the flags, whatever is *)
(* held or locked.                                                         *)
ProgramEnds ==
  /\ line = << >>
  /\ flags' = [flags EXCEPT !.shift = FALSE, !.caps = FALSE]
  /\ clean' = (clean /\ ~flags.shift /\ ~flags.caps)
  /\ typed' = IF clean' THEN typed ELSE << >>
  /\ UNCHANGED <<codes, held, locked, lost, line, screen, before>>

Next ==
  \/ \E key \in Keys : Press(key) /\ UNCHANGED <<line, screen, before>>
  \/ \E key \in Keys : Release(key) /\ UNCHANGED <<line, screen, before>>
  \/ ReadKey
  \/ ProgramEnds

Spec == Init /\ [][Next]_vars

----------------------------------------------------------------------------
(* What is read of the codes that wait is what the user typed, in the case *)
(* that was meant, whatever else was pressed between: until two shift keys *)
(* are down at once, caps lock repeats, a code is lost or a program ends   *)
(* while a flag is set.                                                    *)
TypedIsRead == clean => Waiting.chars = typed

(* A flag does not outlive its key: once every code was read and no shift  *)
(* key is down, letters are not shifted, also after two were down at once. *)
ShiftReleased ==
  ~lost /\ held \cap ShiftKeys = {} => ~Waiting.flags.shift

(* What stands in front of the cursor is the line, behind an untouched     *)
(* prompt: through wraps, scrolls and erasures over the start of a row.    *)
EchoIsLine ==
  LET start == screen.pos - Len(line)
  IN /\ start >= 0
     /\ \A i \in DOMAIN line : screen.cells[start + i - 1] = line[i]
     /\ start > 0 => screen.cells[start - 1] = before
=============================================================================
