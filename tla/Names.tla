------------------------------- MODULE Names -------------------------------
(***************************************************************************)
(* The names of files: what the user types, what the driver's calls and    *)
(* the shell's commands make of it, and how an entry's name on the disk is *)
(* compared with the result (drivers/fat32.c, kernel/shell.c).             *)
(*                                                                         *)
(* A name is a sequence of characters; on the disk it has BaseSize of a    *)
(* base and ExtSize of an extension, and the entry's attribute lies        *)
(* behind.                                                                 *)
(***************************************************************************)
EXTENDS Integers, Sequences, SequencesExt

CONSTANTS
  BaseSize, ExtSize,  \* 8 and 3
  Upper,              \* toupper: a function on the characters
  Dot, Space, Nul

NameSize == BaseSize + ExtSize
Chars    == DOMAIN Upper

ASSUME NameAssumption ==
  /\ BaseSize \in Nat \ {0} /\ ExtSize \in Nat \ {0}
  /\ Upper \in [Chars -> Chars]
  /\ {Dot, Space, Nul} \subseteq Chars
  /\ \A c \in {Dot, Space, Nul} : Upper[c] = c
  /\ \A c \in Chars : /\ Upper[Upper[c]] = Upper[c]
                      /\ Upper[c] \in {Dot, Space, Nul} => Upper[c] = c
  /\ Dot # Space /\ Dot # Nul /\ Space # Nul

(* The characters in front of the first c, or all of them; at most n; in   *)
(* upper case; filled up with spaces to n.                                 *)
Before(name, c) ==
  IF Contains(name, c)
  THEN SubSeq(name, 1, SelectInSeq(name, LAMBDA d : d = c) - 1)
  ELSE name

AtMost(n, name) == SubSeq(name, 1, IF Len(name) > n THEN n ELSE Len(name))
From(name, i)   == SubSeq(name, i, Len(name))
Uppered(name)   == [i \in DOMAIN name |-> Upper[name[i]]]
Padded(n, name) == name \o [i \in 1 .. n - Len(name) |-> Space]

OnDisk(base, ext) ==
  Padded(BaseSize, Uppered(AtMost(BaseSize, base)))
    \o Padded(ExtSize, Uppered(AtMost(ExtSize, ext)))

(* fat32_convert_to_fat_name, by which files are written, and cmd_exec: a  *)
(* dot anywhere ends the base.                                             *)
Convert(name) ==
  LET base == Before(name, Dot)
  IN OnDisk(base, From(name, Len(base) + 2))

(* cmd_ed, cmd_cat and fat32_change_directory: the extension is seen only  *)
(* if its dot is not farther behind than a base is long.                   *)
Format(name) ==
  LET base == AtMost(BaseSize, Before(name, Dot))
      rest == From(name, Len(base) + 1)
  IN OnDisk(base, IF rest # << >> /\ Head(rest) = Dot THEN Tail(rest) ELSE << >>)

(* compare_filename: what an entry is read as, a typed name or a converted *)
(* one; name is with the attribute behind it.                              *)
Normalised(name) ==
  LET text == Before(name, Nul)
      base == AtMost(BaseSize, Before(text, Dot))
      rest == From(text, Len(base) + 1)
  IN OnDisk(base, IF rest # << >> /\ Head(rest) = Dot THEN Tail(rest) ELSE rest)

(* compare_names: up to the first space of the entry's name, which the     *)
(* rest must consist of.                                                   *)
SameDirectory(wanted, name) ==
  LET text == Before(name, Space)
  IN /\ \A i \in DOMAIN text : Upper[wanted[i]] = Upper[text[i]]
     /\ \A i \in Len(text) + 1 .. NameSize : wanted[i] = Space

----------------------------------------------------------------------------
(* The names people mean: a base and an extension of letters, spelled with *)
(* a dot.                                                                  *)
Spelled(base, ext) == IF ext = << >> THEN base ELSE base \o <<Dot>> \o ext

(* On well-formed names the two conversions agree, and an entry that was   *)
(* made under the typed name is read as the converted one, whatever bytes  *)
(* the copy has taken along behind it, if there is room for the dot.       *)
FormsAgree(bases, exts, rests) ==
  \A base \in bases, ext \in exts :
    LET name == Spelled(base, ext)
    IN /\ Convert(name) = OnDisk(base, ext) /\ Format(name) = OnDisk(base, ext)
       /\ Normalised(OnDisk(base, ext) \o <<Space>>) = OnDisk(base, ext)
       /\ \A rest \in rests :
            Len(name) <= NameSize =>
              Normalised(AtMost(NameSize, name \o <<Nul>> \o rest) \o <<Space>>)
                = OnDisk(base, ext)
=============================================================================
