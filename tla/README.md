# A TLA+ development of RingOS

RingOS is a 32-bit hobby operating system: a boot loader, one kernel that runs a
shell, and a FAT32 file system on an ATA disk whose image a host tool builds.
The kernel has one thread of control: `kernel/main.c` never enables interrupts
(the IDT has only the divide gate and `int 0x80`), so every driver call runs to
its end or hangs. What can go wrong is what a long sequence of legal calls, a
failing sector or a loss of power between two sectors leaves on the disk, what a
slow or silent device does to a driver that polls, and what statics, old bytes in
buffers and the limits of tables carry from one call into the next. The
development models these.

## 1. Inventory

### Components

| component | source | state | operations | talks to |
|---|---|---|---|---|
| FAT32 driver | `drivers/fat32.c`, `include/fat32.h` | on the disk: the FAT in `num_fats` copies, directory entries, data clusters; in memory: current directory, a stack of 16 parents, the path string | `fat32_init`, `change_directory`, `list_directory`, `create_file`, `create_directory`, `delete_file`, `write_file`, `read_file`, `find_file`, `allocate_cluster`, `free_clusters`, `write_fat_entry`, `get_next_cluster` | calls `ata_read_sectors`, `ata_write_sectors`; called by shell, editor, loader, `fs_*` |
| image builder | `tools/mkfs.c` | an image in memory: boot sector, two FATs, a tree of directories of one cluster each | copies the host's `filesystem/` | its image is the driver's initial disk |
| ATA driver | `drivers/ata.c` | `ata_initialized`; the device's registers | `ata_init`, `ata_read_sectors`, `ata_write_sectors`, waits of 100000 polls | port I/O |
| keyboard driver | `drivers/keyboard.c` | shift flag, caps flag, prefix flag | `handle_scancode`, `keyboard_read` | polled by shell and editor |
| VGA text | `drivers/vga.c`, `drivers/stdterm.c` | cursor, colour, 80x25 cells | put, scroll, backspace, clear | everyone prints through it |
| heap | `drivers/memory.c` | `heap_ptr` | `kmalloc`, `kfree` (nothing) | nobody |
| loader | `drivers/loader.c` | the program area at a fixed address | load and jump | `fat32_read_file` |
| shell | `kernel/shell.c` | line buffer, its commands | `help clear about ls create delete mkdir writeb readb cd cat exec ed writetest int` | FAT32, editor, loader |
| editor | `kernel/editor.c` | text buffer 80x24, cursor, mode, command line, file name, all static | keys, `:w`, `:q`, `:t` | `fat32_read_file`, `fat32_write_file` |
| system calls, `fs_*` | `kernel/isr.c`, `lib/fileio.c` | current path string | `int 0x80` dispatch, open, read, write, close | FAT32, VGA |
| boot, GDT, IDT | `kernel/main.c`, `kernel/boot.asm`, `kernel/gdt.c`, `kernel/idt.c` | tables | start-up in a fixed order | all drivers |
| libraries, user programs, desktop prototypes, build | `lib/`, `include/libc/`, `programs/`, `include/desk/`, `Makefile` | none of their own | helpers and samples | |

### What is hard in it

* **One write, many sectors.** `fat32_write_file` frees the old chain one FAT
  entry at a time, each entry in every FAT copy, then allocates, then writes
  the directory entry with the final size, then the data cluster by cluster,
  linking as it goes, then the end mark. Each of these sectors can fail, and
  power can go between any two (lines 553-742).
- **Errors without clean-up.** Every error path is a bare `return false`.
- **Chains that are trusted.** Loops over a chain test only
  `< 0x0FFFFFF8`, so a free mark (0) and the read-error value (0x0FFFFFF7) count
  as clusters (lines 283, 561, 644, 814).
- **Two forms of names.** `create_file` and `mkfs` store what was typed,
  `write_file` the converted form; some searches compare bytes, others
  normalise (lines 46-198, 469, 503, 655, 768).
- **Limits.** A FAT that counts more clusters than the disk has, a stack of 16
  directories, whole-sector reads into byte-sized buffers, a cursor one past its
  row, a keyboard controller that is read only when somebody asks.
- **A device behind a poll.** Waits give up after 100000 looks and leave the drive
  with its command; the error bit is never read; a cache flush is sent in the
  middle of a write.
- **What stays.** The editor's buffer, cursor, modes and file name are statics; the
  shell's line keeps the ends of longer lines, and eleven bytes of it go into an
  entry; the keyboard's flags follow codes, not keys.

The complete list with lines is `hazards` in `PROJECT.json`.

### What makes each component correct

* FAT32 driver: no two files share a cluster; what a file's chain names is
  allocated; a reported write can be read back until the file is written or
  deleted again, whatever else happens; the FAT copies agree; no space is lost
  except to deletes; a fault damages only the file being written; the root is
  never lost; every call returns. Navigation: `cd ..` leads to where the `cd`
  came from, and the path string says where we are; at the stack's limit a
  directory is forgotten, and nothing else.
* image builder: an image that is written is a copy of the host's tree, in either
  FAT, and no two clusters are shared on the way.
* ATA driver: driver and drive agree on the sector that is moved next; a call that
  reports success has done what it was asked for; every call returns.
* keyboard, console: what is read is what was typed; no shift outlives its key;
  the screen shows the line that will be run.
* editor: the cursor stays in the text, one mode at a time, the screen shows the
  buffer, what was saved comes back, and a session that has read its file saves under the
  base name it was opened by. That it saves to the *file* it was opened by, and to no other
  when that one could not be read, the code does not keep (run `rename`).
* shell and system calls: each command finds the entry that was meant, whatever
  earlier lines left behind. What `mkdir` makes can be entered, and what a program opens can
  be read: neither is so (runs `mkdir`, `read`).

## 2. The modules

| module | what it is |
|---|---|
| `Fat32` | the driver on one directory: FAT copies, entries, data, all calls that change them, faults and power loss; the properties |
| `FileStore` | what the file calls promise, abstractly: a row of slots, each empty or an entry with a content that a write makes undefined and then sets whole |
| `Fat32Store` | the refinement mapping from `Fat32` to `FileStore` |
| `Directories` | the tree of directories, `change_directory` with its stack and path, and what the calls do to the entries of directories that are current, above, without a cluster, or overwritten |
| `Walk` | what moving about promises, abstractly: a way of limited length that `cd` extends, `cd ..` shortens, and that is what the prompt shows |
| `DirectoriesWalk` | the refinement mapping from `Directories` to `Walk` |
| `Ata` | the disk driver and the kernel's start against a drive |
| `Mkfs` | the image builder's walk over a host tree |
| `Names` | the conversions and comparisons of names, as operators |
| `Shell` | on top of `Names`: the commands and a program's calls, by the entries they take |
| `Vga` | the text screen, as operators on a record |
| `Keyboard` | keys, the controller and the driver's translation of codes |
| `Console` | `Keyboard` and `Vga` composed by the shell's line |
| `Editor` | the editor on `Vga` and a set of files |
| `MCFat32`, `MCDirectories`, `MCConsole`, `MCEditor`, `MCShell` | small instances for TLC; `Ata` and `Mkfs` need none |
| `Fat32_proofs` | proved of `Fat32`: under every fault the types, the root, the end mark, no circle in the FAT, other files spared; without faults chains apart, copies equal, what is saved is read, space lost to deletes only, and the step-by-step refinement to `FileStore` |
| `Directories_proofs` | the way back to the root, clusters and entries, for every image and every sequence of calls; the refinement to `Walk` |
| `Mkfs_proofs` | an image's clusters are apart and a written image is a copy, for every host tree |
| `Shell_proofs` | entries are found under their names, deletes take what was meant, the newest file comes first |
| `Ata_proofs` | all of the driver's safety, for every disk and every drive |
| `Console_proofs` | what is read is what was typed, no shift sticks, the screen shows the line |
| `Editor_proofs` | the editor's cursor, modes and saves, that what was saved comes back, and that the screen shows the text |
| `Extremes` | lemmas for the proofs: `Min` and `Max` of sets of numbers, counting up, functions applied again and again, folds |

The parts meet like this: the faults of `Fat32` are the failure returns of `Ata`;
the image that `Mkfs` writes is what `Init` of `Fat32` and of `Directories` begin with; the
entries that `Shell` tells apart by their bytes are those that `Fat32` and
`Directories` know by an identity and a form; the files that `Editor` loads and saves
are what `Fat32` calls a slot's content, in bytes.

### How Fat32 corresponds to the code

State. `fat[k][c]` is entry `c` of copy `k`; every value from 0x0FFFFFF8 on is
`EOC`. `dir[s]` is the s-th 32-byte entry of the directory: its state (unused,
deleted 0xE5, live), name, kind (`attributes`), first cluster and size. `data[c]`
is the content of a cluster. The locals of `fat32_write_file` (`args`, `cur`,
`nxt`, `done`) and of the functions it calls (`from`, `wr`) and a program counter
make up the rest. Three observers record what the code does not keep: `saved[s]`
is what the last call that returned true left in slot `s` (`None` while a write
is under way or after one failed), `orphans` the first clusters of deleted
entries, `faults` a count.

Actions. A call that writes one sector is one action: `CreateFile`,
`CreateDirectory`, `DeleteFile`. `fat32_write_file` is split where it writes:

| action | code |
|---|---|
| `WriteFile` | the directory scan and its early returns (626-684) |
| `FreeCluster` | one turn of `fat32_free_clusters` (561-574), first FAT copy |
| `AllocateCluster` | `fat32_allocate_cluster` (579-602), first FAT copy, both call sites |
| `Mirror` | the other FAT copies (616-621) |
| `WriteEntry` | the directory entry (690-701) |
| `WriteData` | one cluster of data (707-721) |
| `Link`, `MarkEnd`, `Return` | 728-732, 737-739, 741 |
| `ReadFault`, `CallWriteFault`, `FatWriteFault`, `AllocFault`, `MirrorFault`, `EntryFault`, `DataFault` | the error returns of the same lines; a failed write may or may not have reached the disk; a failed allocation goes on scanning, as line 594 does |
| `Crash` | loss of power and reboot in the middle of a call |

Abstractions. Sizes are counted in clusters, and the i-th cluster written with
value `v` holds `<<v, i>>`, so that a cluster lost, swapped or doubled shows.
A name is an identity with a form, `fat` (the converted eleven bytes) or `raw`
(as typed). The entries `.` and `..` are left out: `Names` holds no name that
converts to theirs, and `Directories` says what happens with one that does. A
multi-sector data write is one step whose failure leaves the cluster old, new
or garbage.

Reachability. The shell writes at most 128 bytes and the editor 1920, one
cluster of 4096; longer files come from callers of the driver's interface and
from mkfs. `fat32_write_file` is modelled for the sizes it accepts, not only
for those the shell sends. That the FAT counts clusters the disk lacks is
mkfs's geometry: 64 sectors of FAT are 8192 entries for clusters up to 8173;
`DiskEnd < MaxCluster` in the run `safe`.

One fault is left out: a failed read of the FAT entry behind the last cluster of
a *full* directory. Its error value (line 283) counts as a cluster, and the scan
strays into sectors of the first FAT. Everything said below "under every fault"
is said with this exception.

### How Directories corresponds to the code

State. `dir[p][s]` is entry `s` of the directory whose cluster is `p`; `cwd`,
`stack` and `path` are `current_directory` (cluster and name),
`parent_directories` up to `directory_depth`, and `current_directory.path`, kept
as a sequence of slashes and names. `used` is what the first FAT marks. Files
have one cluster, a call is one step, and there are no faults: chains and
interrupted calls are what `Fat32` is about.

Place 0. `mkdir` allocates nothing, so the directory it makes has cluster 0, and
`cluster_to_lba(0)` is two clusters before the data area, in the second FAT. All
directories made by `mkdir` are this one place. It has no `.` and `..`, and
whenever a FAT entry of the sectors in the same place of the first FAT is written
(`Shadow` holds their clusters), the mirroring of line 616 overwrites it:
`Replace` puts there what a FAT sector looks like when read as entries (`Junk`:
in use, never a directory, never a name; or the end mark). Since
`fat32_write_file` writes the FAT before and after it writes the entry, only the
last of these writes is left to see when place 0 is the current directory.

Names. An entry's name is an identity and one of three forms: `fat` (converted,
by a write), `host` (padded, in the case of the host's name, by mkfs for
directories), `typed` (ended by a zero byte, by create and mkdir, and by mkfs for
files). `Subdirectories` follows `compare_names`, which ignores case and stops at
a space, so that it finds the first two; a write finds the first alone.

| action | code |
|---|---|
| `ChangeDirectory` | `fat32_change_directory` with a name (317-398), with `Push` 377-380 and `GoTo`/`PathOf` for `update_path` |
| `GoUp`, `GoHome` | its `..` (301-310) and `/` (292-299); `GoHome` is also `fat32_init` after a restart |
| `CreateEntry` | `fat32_create_file` and `fat32_create_directory` |
| `DeleteEntry` | `fat32_delete_file` |
| `WriteFile`, `Replace` | `fat32_write_file` |

The path keeps the code's slashes: the root on the stack is a name (`/`) like any
other, so that below the root the prompt shows `///NAME`. `Walk` compares the names
only.

`Init` is the image of mkfs for a host tree, given by the constant `Image`, with
the entries `.` and `..` in front of every directory.


### How Ata corresponds

State. `pc` is the wait the driver is in, `polls` the counter of that wait, `tries`
the retries of `kernel_main`, `mounted` that `fs_init` is done; `op`, `lba`, `data`,
`count` are the call, `got` and `moved` what it has done so far. `dev` is the drive:
the command it is at, whether it is busy, the next sector and how many are left,
and a sector it was given that is not yet on the `disk`. Observers: `late` (a call was
given up while the drive was still at it), `dropped` (the drive dropped a sector of
the current write).

| action | code |
|---|---|
| `Probe`, `Identify` | `ata_init` with its waits; `TryAgain` is the loop of `kernel_main` |
| `Begin` (`Read`, `Write`) | entry of `ata_read_sectors`, `ata_write_sectors` |
| `Send` | the wait for not busy, and the command |
| `ReadSector`, `WriteSector` | one turn of the sector loop: wait, 256 words |
| `SendFlush`, `Flushed` | the flush that follows each sector (153-156) |
| `Poll`, `GiveUp` | one look at the status; the wait's end at 0 |
| `DeviceReady`, `DeviceError` | the drive: ready with what it is at, or dropping it (external) |

The drive ignores a command that comes while it is busy or wants data moved, as the
emulator does that the Makefile runs. On that depends the flush between two
sectors of a write: at that moment the drive is busy or wants the next sector. The status
the driver reads is the drive's at that moment; the error bit is in no wait's
condition, and so in none here.

### How Mkfs corresponds

State. `host` is the host's tree (parent, kind and size of each node), `fats` both
copies, `next` the next free cluster, `entries` and `data` the contents of the
clusters, `stack` the calls of `process_directory` that are under way with what
`readdir` has not yet given. `EnterTop` is the call for the source directory,
`ProcessDirectory` and `ProcessFile` one turn of the loop with everything the
callees do, `Skip` a turn that passes over a node, `Leave` the end of a directory,
`HostFails` any failing call to the host, `WriteImage` the end of
`create_filesystem_image`. An error in the depth of the tree makes every caller return it:
`Fail` drops the whole stack. A name stands for itself, because what becomes of its
characters is in `Names`; that no two names of a directory agree on the disk is
therefore assumed.

### How Names, Shell correspond

`Names` has an operator for each conversion: `Convert` for
`fat32_convert_to_fat_name`, `Format` for the loops in `cmd_ed`, `cmd_cat` and
`fat32_change_directory`, `Normalised` for `compare_filename`, `SameDirectory` for
`compare_names`. A name is a sequence of characters, since which bytes end it is
what the properties are about.

`Shell`. `line` is `cmd_buffer`: `Type` overwrites its front, splits it and leaves the
rest, which `Raw` then copies with the argument, as `fat32_create_file`,
`fat32_create_directory` and `fat32_delete_file` do. `dir` is the current directory.
Each entry carries, as observers, the write its text is from and what the user called
it (`given`). A command is one action with the driver's call in it:
`Create`, `Mkdir`, `Delete`, `WriteBinary`, `EditAndSave`, `WriteTest`, `OtherCommand`.
`Open`, `ReadOpened`, `WriteOpened` are a program's `fs_open`, `fs_read`, `fs_write`;
`opened` is the slot and the mode of what `fs_open` answered a descriptor for, `answer`
what `fs_read` returned: it looks for a file named like the current path, whatever was
opened.
A save from the editor passes a padded name without a zero byte behind it, so that the
extension it gets is whatever lies there: `\E ext \in Exts`.

### How Vga, Keyboard, Console correspond

`Vga` makes a function on a screen (cells and cursor) of each function of `vga.c`.
`Keyboard` has the controller's queue `codes`, the driver's three `flags`, and the
keys that are `held`; `Press` and `Release` are the user's, `TakeCode` with `Decode`
one turn of `keyboard_read`: `HandleScancode`, or `ReadPrefixed` behind the prefix.
The observers `typed`, `locked`, `clean` and `lost` say what the user meant and until
when the driver can know it. `Console` composes both: `ReadKey` is a turn of
`shell_run`, `Add`, `Erase`, `Ignore` and `Enter` the cases of
`shell_handle_keypress`; a command is what it prints, one of `Outputs`, or the
clearing of the screen; `ProgramEnds` is the `keyboard_init` behind a program.

### How Editor corresponds

State. The statics of `editor.c` under their names (`x`, `y`, `insert`, `command`, `line`
with `pos`, `file`), the `buffer`, the `screen`, and the `disk` as a function from names to
files; `opened` and `loaded` are of the session, `fresh` an observer: which entry was
saved from this very buffer. `cmd_ed` formats the name without its dot, and
`fat32_write_file` finds no extension in it: `SavesAs` are the entries a save may then make,
those with the same `Base`. `Open` is `editor_run` up to its first key with
`editor_load_file`; `InsertKey`, `CommandKey` and `NormalKey` are
`editor_handle_key` with everything it draws; `ExecuteCommand` is
`editor_execute_command` with `Save`, `Test`, `Quit`, `Unknown`; `OtherCommand` is a command of
the shell between two sessions.

Whole sectors. A file has its `text`; what the disk holds behind it is `slack`, and, where the
last sector reaches over the end of the buffer, `over`: the statics of the session
that wrote it. Loading such a file overwrites any of them (`hit`): which of them lie right
behind the buffer is for the compiler to choose. Two are left out, because nothing can come
of them: `current_filename` is set again right after the load, and `editor_exit` is false
whenever a session saves. A failed write leaves the old file, the new one, or the new entry
over old data (`Torns`); behind the end of the buffer these are zeros, as mkfs leaves them,
or the statics another file was saved with. With any other bytes there the cursor could be
anywhere, and this is taken for granted not to be so: a cluster that held text longer than
the buffer, given back and taken by a file whose data then fail, is what the model excludes.

## 3. What the runs check

A run marked *violated* checks one property that a comment or a help text of the repository
promises; TLC finds the steps that break it.

| run | bounds | shows |
|---|---|---|
| `safe` | clusters 2..6 (one taken by a host directory, three for files, the last of them not on the disk), 2 slots, names a, b in both forms, 2 values, files of 0..2 clusters, no faults | `TypeOK`; `UniqueRefs`, `LinksLive`, `HeldApart` (no sharing, nothing in use is free, a call's clusters are its own); `MirrorsAgree`; `EndMarkLast`; `SavedReadable` (reported writes stay readable); `NoOtherLeak` (space is lost only to deletes); `CallsReturn`; `ImplementsFileStore` |
| `faults` | clusters 2..4, 3 FAT copies, 2 slots, a host file, one fault or power loss anywhere | `RootIntact`, `AcyclicFat` survive any fault; `FaultsSpareOthers`: while chains are apart, a fault damages no other file |
| `hang` | clusters 2..4, 3 FAT copies, 1 slot, two faults | `HangsOnlyAtReserved`: a call returns or is stuck freeing FAT entry 0 |
| `walk` | an image with a directory in a directory, clusters 2..5, one of them in `Shadow`, 4 entries a directory (two taken by `.` and `..`), 1 at place 0, a stack of 2 | `TypeOK`; `StackIsPath`, `WayNotFiles`, `ClustersApart`, `EntriesChangeHere`: whatever is made, deleted and written where, the directories that are in use stay directories of the disk; `ImplementsWalk` |
| `ata` | 3 sectors of 2 values, calls of 1 or 2 sectors, waits of 3 looks, 3 tries | `InStep`, `OkIsTrue`, `WritesInPlace`, `CallsReturn`: against a drive that is slow at any point, drops any command or never answers |
| `shell` | names of 2+2 characters, 2 slots, a line of 8, 2 writes; arguments `/`, `ab.a` (exactly as long as its field) and `ab.ab` (too long) | `FoundAsNamed`, `NewestFirst`, `DeletesWhatCatFinds`; `MCShell` also evaluates `NamesAgree`, the agreement of the conversions, on all names of letters of this size and all leftovers |
| `mkdir` (*violated*) | as `shell`, 1 write, the ordinary names `a` and `a.a` | `MadeCanBeEntered`: what `mkdir` has made, `cd` does not find |
| `read` (*violated*) | as `mkdir` | `ReadsOpened`: a program's read of the file it has opened is refused |
| `console` | keys v, enter, backspace, two shifts, caps lock, an arrow, delete; a controller of 2 codes, a line of 3, a screen of 2x2 | `TypedIsRead`, `ShiftReleased`, `EchoIsLine` |
| `editor` | three rows of two characters, sectors of 4 under a buffer of 6, 3 names of 2 bases, a file saved with statics behind it in the image, a command's line of 2, 1 edit, 1 file changed | `CursorInBuffer`, `OneMode`, `ScreenShowsText`, `SavesUnderBase`, `ReopenKeepsBuffer` |
| `rename` (*violated*) | as `editor`, zeros behind the file | `SavesToOpened`: `a.x` is opened and `a` is written |
| `mkfs` | every tree of 4 nodes, one of them hidden, 8 clusters of 2 bytes, 4 entries a directory, files of 0 and 3 bytes | `ImageIsCopy`, `ClustersApart` |

Why the bounds are enough. Three file clusters and two slots let one file of two
clusters grow while another exists, let the disk fill in the middle of a
write, and let a freed cluster be handed to the other file; the third, which the disk
lacks, makes a write fail behind its entry and its first links. Two values and the
index in the data tell old from new and first from second. A FAT sector of 4
entries makes the clusters lie in two sectors, so that mirroring a sector and
mirroring an entry differ. One fault reaches every error return; two are needed
to break a chain twice, which is what makes freeing loop (one to cut the chain,
the walk over entry 0 clears it, a second write to a cut chain finds it
cleared). `MaxLen`, `MaxFaults`, `NSlots`, `MaxCluster` are the only bounds of `Fat32`.

In `faults`, `UniqueRefs` and `SavedReadable` are not expected to hold: after a
fault an entry may name free clusters, and a later write that trusts it shares
them, and one that frees a cut chain clears the reserved entry 0. What holds, and is
checked, is that the fault itself spares the others. Type correctness, the root and the
end mark under faults are proved (section 4).

In `faults` the two values are interchangeable (`ValSymmetry`): no constant and no order
tells them apart, and the run has no liveness property.

In `Directories`, a stack of 2 stands for the 16 of the code: full, below full and empty
all occur, and the way goes on where it is full.
`MaxCluster`, `NSlots`, `ZeroSlots` and `MaxDepth` are its bounds. The one entry
at place 0 is enough for a directory to be made inside a directory without a
cluster, entered, deleted from within and overwritten by the mirror. The name `mkdir` is
given is one that can be entered (eleven characters, with its padding): place 0 then
contains itself, so that the stack overflows, and the two levels of the image let a
directory be deleted and written over while one below it is current.

In `Ata`, two sectors in a call give a first, a last and a flush between them, three
looks a wait that ends early, in time, at its last look and never. In `Console`, two
codes are less than an arrow and a letter take, so that codes are lost in the
middle of a prefixed pair; the line of 2 characters behind the prompt wraps, scrolls and is
erased back over the start of a row. In `Editor`, the buffer ends in the middle of a
sector, as that of the code does (1920 is no multiple of 512); the image
holds a full row and a file that was saved with the cursor behind it, so that one edit is
enough to reach every case of a key, and one write is enough to save and open again or to
meet a file that another command has left. In `Shell`, the two slots let a
deleted entry lie in front of a file of the same name; `LineSize`, `MaxWrites` and the
sets of names are the bounds. In `Mkfs`, four nodes make a chain of
directories with a file in it, or a directory that is too full, and the clusters run
out in the middle; the program ends, so that run allows deadlock.

Fairness. In `Fat32`, `WF_vars(Continue)`: a call that was entered takes its next step.
The kernel is single-threaded with interrupts off, and nothing in `write_file`
waits for another actor: that the waits of the disk driver end is `CallsReturn` of
`Ata`. There, `WF_vars(Driver)`: the processor goes on polling. Nothing is asked of the
drive, and none of the actions of users, of commands or of faults is fair anywhere.
The other modules have no fairness and no liveness property: their steps are
whole calls or keys.

The three violated runs are disagreements between what the code does and what a comment or
a help text of it says; `findings` in `PROJECT.json` quotes the lines.

* `mkdir`: the name is stored with its zero byte and what lies behind it, and `cd` compares
  with a name padded by blanks. `cd /` is no case of it, because it compares no name.
* `rename`: a save from the editor has lost the extension. `SavesToOpened` is broken in
  another way, too: `current_filename` survives a session and a load that fails, so that a
  session whose file could not be read saves to the file of the session before.
* `read`: `fs_read` and `fs_write` ignore the descriptor and look for the path.

Other behaviours that a reader may not expect are built into the models and
follow from the code: a file made by `create` has no cluster and every write to it
is refused; a delete followed by a write of a name that lies further behind leaves
two entries of that name; all directories that `mkdir` makes share place 0; and a
directory made by `mkdir` under a name of exactly eleven characters (`ABCDEFGH.AB`) is
neither found nor deleted under it, because no zero byte ends the name on the disk and
the comparison reads the attribute as one more character. `FoundAsNamed` and
`DeletesWhatCatFinds` except such entries (`ReadsAttribute`).

## 4. What is proved

**Fat32.** For every number of clusters, slots, FAT copies, names, values and faults,
under `SizeAssumption` (two FAT copies at least, the disk's end inside the FAT),
`TreeAssumption` (mkfs's entries fit) and `NoneAssumption` (the undefined content
is no content):

* `TypeCorrect`: `Spec => []TypeOK`. `TypeOK` is inductive; besides ranges it says
  which locals a call has set at which step (`CallOK`).
* `RootNeverLost`: `Spec => []RootIntact`, under all faults. Not inductive alone:
  the invariant `RootInv` adds `AvoidsRoot`, that no call holds the root's number
  while it frees, links or ends a chain; it is kept because allocation skips
  allocated entries and no link leads to the root.
* `ListingComplete`: `Spec => []EndMarkLast`, under all faults. The invariant adds
  `SlotChosen`: between choosing a slot and writing its entry, every slot before
  it is in use.
* `ChainsApart`, `ChainsAllocated`, `AllocatedIsOwn`: `SafeSpec => []UniqueRefs`,
  `[]LinksLive`, `[]HeldApart`. The three are inductive only together, with
  `ScanFromStart` (`ChainInv`). `HeldApart` is the heart: it says for each step of a
  write which clusters it owns and that nothing refers to them, in particular the
  part of the old chain not yet freed.
* `CopiesAgree`: `SafeSpec => []MirrorsAgree`, from the type invariant.
* `NoChainIsACircle`: `Spec => []AcyclicFat`, under all faults. The invariant
  `WriterInv`: `OwnWork` (the clusters a write has linked so far are reached in a row
  from its entry), `SavedListed`, `LowEntries` (the reserved entries lead nowhere) and
  `WayOut`, which is how the absence of circles is inductive: from every set of clusters
  some link leads out of it. A circle is such a set without a way out; that a
  chain of more steps than there are clusters comes back to where it was is the
  pigeonhole argument of `Iterate` in `Extremes`.
* `OthersSpared`: `Spec => FaultsSpareOthers`, under all faults: a step that begins
  where chains are apart leaves every other file readable.
* `WhatIsSavedIsRead`: `SafeSpec => []SavedReadable`, from `ChainInv`, `WriterInv` and
  `CopiesAgree`: what a write has put into the chain so far stays along its links, and no
  other call touches a cluster of it.
* `OnlyDeletesLoseSpace`: `SafeSpec => []NoOtherLeak`, with `LocalsClear` (`LeakInv`): a
  call that is over holds nothing.
* `DriverIsAFileStore`: `SafeSpec => ImplementsFileStore`: initial states map to
  initial states, and each step to a step of `FileStore` or a stutter, action by
  action. Under `NoEntryAssumption` (the mark for an empty slot is no entry) and the
  hypothesis `DirectoriesAsTyped`: no directory of the image has a name of the
  converted form. It is needed, because `fat32_write_file` takes over an entry of
  its name without looking at its kind; that directories made later have the typed form
  is the invariant `FilesReplaced`.

**Directories.** For every image that satisfies `ImageAssumption` (a tree, in which
every entry has a cluster of its own and a directory comes after its parent, as
mkfs's allocation makes it), every `Shadow`, every size of the stack, and as long
as no call is given a name that converts to that of `.` or `..` (`NoDots`; with such
a name, one of no characters or of dots only, a write replaces the current
directory by a file):

* `DirTypeCorrect`: `Spec => []TypeOK`, with the bound of the stack.
* `WayHolds`, `WayStaysDirectories`, `EntriesShareNothing`: `StackIsPath`,
  `WayNotFiles` and `ClustersApart` always hold. The invariant `DirInv` they follow
  from has four more parts. `FromImage`: an entry of a directory with a cluster
  lies in a directory with a lower one. `Ascending`: so do the clusters on the way.
  `WayListed`: each directory on the way is named by an entry of an allocated
  directory that no file has taken, even when that one is no longer on the stack.
  `DotsStay`: `.` and `..` are never files. The heart is the lemma
  `NotAboveItself`: no entry of the current directory names a directory on the way,
  so a write can give back neither the current directory nor one above it.
* `OnlyHere`: `Spec => EntriesChangeHere`.
* `MovesAreAWalk`: `Spec => ImplementsWalk`. The invariants are `WayNamed` (what is on the
  way has a name that is no slash, the root below) and `PathIsWay` (the path, without its
  slashes, is the names of the way); the fold that takes the slashes out is followed step by
  step. Where the stack is full, the code does not push the directory it leaves: a step of
  `Walk` that replaces the way's last place (`Past`).

**Mkfs.** For every host tree, every order of `readdir` and every size of the image
(`MkfsAssumption`: there are finitely many nodes, a directory has room for `.` and `..`,
and the marks are no data):

* `ImageClustersApart`: `Spec => []ClustersApart`. The invariant `BuildInv`: the types;
  `InARow`, that the clusters below `next` are handed out, each linked to the one after
  it or the end of a chain, and the others are as at first; `EntriesApart`, that each
  entry leads to the first cluster of a run and no two to one; `WalkedInUse`, that what is
  being walked over are directories' clusters.
* `WrittenIsCopy`: `Spec => []ImageIsCopy`, in either FAT. `CopyInv` adds that
  entries say what the host's nodes say (`EntriesTrue`), that the stack is a way down the
  host's tree (`WayDown`), and that what is no longer to be read was copied or skipped
  (`AllSeen`). The chain of a file is followed to its end by a minimal
  counterexample: the first step at which it would leave its run (`LeastNat`).

**Ata.** For every disk, set of values, limit of polls, tries and sectors in a call
(`AtaAssumption`: they are positive, and the marks are no values), and every
behaviour of the drive:

* `AtaTypeCorrect`, `DriverInStep`: `Spec => []TypeOK`, `Spec => []InStep`;
  `WritesStayInPlace`, `OkIsTold`: `Spec => WritesInPlace`, `Spec => OkIsTrue`.
  `InStep` speaks of two waits only. The invariant `AtaInv` says for every wait
  what the drive can be at (`Positions`), in particular between a sector and its
  flush, where the sector is still in the drive or the drive already wants the
  next one; and what of the call has arrived (`Arrived`). Both hold as long as
  nothing was given up too early.

**Editor.** For every size of the screen, the sector and the command's line, and all
files (`EditorAssumption`: the screen has more than three rows, files that reach over
the buffer hold statics in range, and neither a blank nor what the status is written
with is a newline or a backspace):

* `EditorTypeCorrect`, `CursorStaysInBuffer`, `ModesExclude`: `TypeOK`, `CursorInBuffer`
  and `OneMode` always hold; `SavesKeepBase`: `Spec => SavesUnderBase`. The
  invariant `EditorInv` adds `FilesOK`, that what files can bring back into
  the statics is in range because sessions wrote it, `Placed`, and that a session that
  has loaded its file saves to one of the entries that name may become (`SavesAs`), never
  to an earlier session's. That a cursor one column behind the last
  row still points into the rows of text is why row `EndRow` is not the buffer's
  last (`RowFits`).
* `SavedComesBack`: `Spec => ReopenKeepsBuffer`, from `SavedAsIs`: the file of `fresh`
  has the buffer's text up to the last byte that is not zero, and only zeros behind it,
  in its slack and in the statics that were saved with it.
* `ScreenIsBuffer`: `Spec => []ScreenShowsText`. The rows of text are right because
  `Render` writes each of their cells (`TextShown`). The last row is blank before the
  status is written there because the blanks that are to clear it end behind the last
  cell and scroll the screen (`Cleared`), whatever message or greeting was on it;
  the fold that prints is followed character by character (`Printing`, `RowBegun`).

**Console.** For every keyboard, controller, screen, line and output of commands
(`KeyAssumption`: the kinds of keys are disjoint; `LineAssumption`: the line fits the
screen, outputs are sequences of characters, and neither blank nor prompt is a newline or
a backspace):

* `KeysAreRead`, `NoShiftStays`: `Spec => []TypedIsRead`, `Spec => []ShiftReleased`. The
  invariant `Followed` is about the whole queue: reading all codes that wait, from the
  flags as they are, ends with no shift and no prefix mark that no key stands for
  unless a code was lost, and, as long as `clean` holds, with the characters that were
  typed, the caps lock that was set and the shift that is held
  (`Follows`). It is kept because reading is a fold: a code put behind the others is
  read last, and a turn of `keyboard_read` takes the first one off.
* `LineIsShown`: `Spec => []EchoIsLine`. The invariant `LineOK` says where the line
  lies on the screen: its characters right before the cursor, over the ends of
  rows, and before them the cell that stood there when the line was begun
  (`Echoed`). Scrolling keeps it, because the line is shorter than the rows above
  the last one.

**Shell.** For every size of names, of the directory and of the line, all arguments and
all that earlier lines have left (`ShellAssumption`, `NameAssumption`: lines are long
enough, `toupper` is idempotent and makes no dot, blank or zero byte):

* `NewestIsFound`: `Spec => []NewestFirst`, by `ShellInv`, which counts the writes.
* `NamesAreFound`: `Spec => []FoundAsNamed`; `DeletesAreMeant`: `Spec => DeletesWhatCatFinds`. The invariant `NamesInv` says of every
  entry in which form it was made (`AsTyped` or converted) and that its observer tells
  what the user called it (`Truthful`). What the comparisons make of each form are lemmas about the
  conversions: `ReadTyped`, `ReadFull` (no room for a zero byte), `ReadWritten`.
  The first attempt at this proof failed at names of exactly eleven characters: that is
  how the exception of section 3 was found.

`Extremes` has what stands in for induction: a set of numbers has a least element
(`LeastNat`), counting up reaches every number (`CountUp`), the values of a function
applied again and again, and a fold as the last of a sequence of results
(`FoldsTo`).

Every invariant and every action property that a passing run checks is so proved, and both
refinements. Only model-checked are the liveness properties `CallsReturn` (of `Fat32` and
of `Ata`) and `HangsOnlyAtReserved`, since fairness is outside the prover's reach; and
`NamesAgree`, which compares the conversions of names on all short ones.

## 5. What is left

1. The cluster and sector arithmetic in 32 bits, with the read-error value
   (0x0FFFFFF7) followed as a cluster number, which needs a model of what lies
   behind each sector.
2. The conversion of host names by mkfs when two of them agree on the disk.

## 6. What is not modelled, and why

`PROJECT.json` lists every component with its status.

* The heap (`memory.c`): nothing calls it.
* Machine set-up (`boot.asm`, GDT, IDT) keeps no state that a property is about; of
  `main.c` the retries, the mount and the two ways to halt are in `Ata`.
* The loader's memory: where a program lies, how large it may be and the jump are
  about addresses. What the end of a program does to the keyboard is in `Console`.
* String and number helpers, libc headers, user programs, the desktop prototypes and
  the build: no state of the kernel, or no implementation.
* The `fs_*` functions that no system call reaches have no caller; `fs_close` does
  nothing.
* Colours, hexadecimal output, and the wording of what is printed.
* In the FAT32 driver: the read-error value as a cluster number and the arithmetic in
  32 bits; the boot sector's values are constants.
