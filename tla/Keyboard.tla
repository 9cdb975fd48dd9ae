------------------------------ MODULE Keyboard ------------------------------
(***************************************************************************)
(* The keyboard and its driver (drivers/keyboard.c).  Keys that go down,   *)
(* repeat or come up put scan codes into the controller, which holds       *)
(* FifoSize of them and loses the rest; the driver takes them out one by   *)
(* one, whenever the shell or the editor asks for a character.             *)
(*                                                                         *)
(* Three observers record what the user meant: typed, the characters not   *)
(* yet read, of a keyboard whose shift counts while any shift key is down  *)
(* and whose lock toggles once a press; locked, that lock; and clean,      *)
(* which says that nothing happened yet that the driver cannot follow.     *)
(***************************************************************************)
EXTENDS Integers, Sequences, SequencesExt

CONSTANTS
  CharKeys,     \* the keys in scancode_to_ascii, and escape
  LetterKeys,   \* those that caps lock works on
  Plain, Shifted, \* what they mean
  ShiftKeys, CapsKey,
  Arrows,       \* arrow keys and the characters they are read as
  OtherKeys,    \* other keys with a prefixed scan code
  FifoSize,
  NoChar

VARIABLES
  codes,        \* in the controller
  held,         \* shift and lock keys that are down
  flags,        \* shift_pressed, caps_lock and extended_code
  typed, locked, clean, lost

kbVars == <<codes, held, flags, typed, locked, clean, lost>>

PrefixedKeys == DOMAIN Arrows \cup OtherKeys
Keys         == CharKeys \cup ShiftKeys \cup {CapsKey} \cup PrefixedKeys
HoldKeys     == ShiftKeys \cup {CapsKey}
Prefix       == [key |-> NoChar, up |-> FALSE]
ScanCodes    == [key : Keys, up : BOOLEAN] \cup {Prefix}
Chars        == {Plain[k] : k \in CharKeys} \cup {Shifted[k] : k \in CharKeys}
                  \cup {Arrows[k] : k \in DOMAIN Arrows}

ASSUME KeyAssumption ==
  /\ LetterKeys \subseteq CharKeys
  /\ CharKeys = DOMAIN Plain /\ CharKeys = DOMAIN Shifted
  /\ NoChar \notin Keys \cup Chars
  /\ CharKeys \cap HoldKeys = {} /\ CapsKey \notin ShiftKeys
  /\ PrefixedKeys \cap (CharKeys \cup HoldKeys) = {}
  /\ FifoSize \in Nat

Meaning(key, shift, caps) ==
  IF shift = (caps /\ key \in LetterKeys) THEN Plain[key] ELSE Shifted[key]

----------------------------------------------------------------------------
(* The driver: what one scan code makes of the flags, and the character it *)
(* is read as.  A prefix marks the next code; a prefixed code is an arrow  *)
(* or nothing, whether its key goes down or up.                            *)

(* A slip for comparison: the mark of the prefix stays.                    *)
ReadPrefixedSticky(f, code) ==
  [flags |-> f,
   char  |-> IF code.key \in DOMAIN Arrows /\ ~code.up
             THEN Arrows[code.key] ELSE NoChar]

ReadPrefixed(f, code) ==
  [flags |-> [f EXCEPT !.extended = FALSE],
   char  |-> IF code.key \in DOMAIN Arrows /\ ~code.up
             THEN Arrows[code.key] ELSE NoChar]

(* A slip for comparison: a shift key that comes up is not noticed.        *)
HandleScancodeDownOnly(f, code) ==
  [flags |-> [f EXCEPT !.shift = @ \/ (code.key \in ShiftKeys /\ ~code.up),
                       !.caps = IF code.key = CapsKey /\ ~code.up THEN ~@ ELSE @],
   char  |-> IF code.key \in CharKeys /\ ~code.up
             THEN Meaning(code.key, f.shift, f.caps) ELSE NoChar]

HandleScancode(f, code) ==
  [flags |-> [f EXCEPT !.shift = IF code.key \in ShiftKeys THEN ~code.up ELSE @,
                       !.caps = IF code.key = CapsKey /\ ~code.up THEN ~@ ELSE @],
   char  |-> IF code.key \in CharKeys /\ ~code.up
             THEN Meaning(code.key, f.shift, f.caps) ELSE NoChar]

Decode(f, code) ==
  CASE code = Prefix -> [flags |-> [f EXCEPT !.extended = TRUE], char |-> NoChar]
    [] code # Prefix /\ f.extended  -> ReadPrefixed(f, code)
    [] code # Prefix /\ ~f.extended -> HandleScancode(f, code)

(* What is read of all the codes that wait, and the flags it leaves.       *)
ReadOne(sofar, code) ==
  LET read == Decode(sofar.flags, code)
  IN [flags |-> read.flags,
      chars |-> IF read.char = NoChar THEN sofar.chars
                ELSE Append(sofar.chars, read.char)]

Waiting == FoldLeft(ReadOne, [flags |-> flags, chars |-> << >>], codes)

NoFlags == [shift |-> FALSE, caps |-> FALSE, extended |-> FALSE]

KeyboardInit ==
  /\ codes = << >> /\ held = {} /\ flags = NoFlags
  /\ typed = << >> /\ locked = FALSE /\ clean = TRUE /\ lost = FALSE

----------------------------------------------------------------------------
(* The keyboard.                                                           *)

CodesOf(key, up) ==
  IF key \in PrefixedKeys THEN <<Prefix, [key |-> key, up |-> up]>>
  ELSE <<[key |-> key, up |-> up]>>

(* What does not fit is lost.                                              *)
Send(new) ==
  LET all == codes \o new
  IN /\ codes' = SubSeq(all, 1, IF Len(all) > FifoSize THEN FifoSize ELSE Len(all))
     /\ lost'  = (lost \/ Len(all) > FifoSize)

Meant(key) ==
  CASE key \in CharKeys ->
         <<Meaning(key, held \cap ShiftKeys # {}, locked)>>
    [] key \in DOMAIN Arrows -> <<Arrows[key]>>
    [] OTHER -> << >>

(* What the driver cannot follow: two shift keys at once, a lock key held  *)
(* down until it repeats, a code that was lost.                            *)
Note(key, new) ==
  /\ clean' = ( /\ clean /\ ~lost'
                /\ ~(key \in ShiftKeys /\ (held \ {key}) \cap ShiftKeys # {})
                /\ ~(key = CapsKey /\ key \in held) )
  /\ typed' = IF clean' THEN typed \o new ELSE << >>

(* A key goes down, or repeats while it is held.                           *)
Press(key) ==
  /\ Send(CodesOf(key, FALSE))
  /\ held' = held \cup ({key} \cap HoldKeys)
  /\ locked' = IF key = CapsKey /\ key \notin held THEN ~locked ELSE locked
  /\ Note(key, Meant(key))
  /\ UNCHANGED flags

Release(key) ==
  /\ key \in HoldKeys => key \in held
  /\ Send(CodesOf(key, TRUE))
  /\ held' = held \ {key}
  /\ Note(key, << >>)
  /\ UNCHANGED <<flags, locked>>

(* The driver takes a code.                                                *)
TakeCode ==
  /\ codes # << >>
  /\ codes' = Tail(codes)
  /\ UNCHANGED <<held, locked, clean, lost>>
  /\ typed' = IF clean /\ Decode(flags, Head(codes)).char # NoChar
                THEN SubSeq(typed, 2, Len(typed)) ELSE typed
=============================================================================
