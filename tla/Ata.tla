-------------------------------- MODULE Ata --------------------------------
(***************************************************************************)
(* The disk driver (drivers/ata.c), from kernel/main.c's start on, against *)
(* a drive.  The driver polls: it gives a wait up after so many looks at   *)
(* the status, and never looks at the error bit.  The drive takes its time *)
(* for every command and every sector, may drop a command with an error,   *)
(* and ignores a command that comes while it is busy or wants data moved,  *)
(* as the emulator does for which this system is built.                    *)
(***************************************************************************)
EXTENDS Integers, Sequences

CONSTANTS
  LastSector,   \* of the disk
  Values,       \* of a sector
  MaxCount,     \* sectors in a call, 8
  Polls,        \* the start of a wait's counter, 100000
  Tries,        \* of ata_init, 3
  Garbage,      \* read from a drive that does not send
  None

VARIABLES
  pc,           \* what the driver waits for, or "idle"
  polls,        \* timeout
  tries,        \* retries of kernel_main
  mounted,      \* fs_init is done
  op, lba, data, count,  \* the call and its arguments
  got,          \* what a read has put into the buffer
  moved,        \* s, sectors moved so far
  ok,           \* what the last call returned
  dev,          \* the drive: its command, at which sector, how many left,
                \*   the sector in it that is not yet on the disk
  disk,
  late, dropped \* observers: a call was given up while the drive was at it,
                \*   the drive dropped a sector of this write

call   == <<op, lba, data, count>>
driver == <<pc, polls, tries, mounted, call, got, moved, ok>>
vars   == <<driver, dev, disk, late, dropped>>

Sectors == 0 .. LastSector
Datas   == UNION {[1 .. n -> Values] : n \in 1 .. MaxCount}

ASSUME AtaAssumption ==
  /\ LastSector \in Nat
  /\ MaxCount \in Nat \ {0} /\ Polls \in Nat \ {0} /\ Tries \in Nat \ {0}
  /\ None \notin Values /\ Garbage \notin Values

NoCommand == [busy |-> FALSE, cmd |-> "none", lba |-> 0, left |-> 0, sector |-> None]

Drq == ~dev.busy /\ dev.cmd \in {"identify", "read", "write"}

Init ==
  /\ pc = "probe" /\ polls = Polls - 1 /\ tries = Tries - 1 /\ mounted = FALSE
  /\ op = "none" /\ lba = 0 /\ data = << >> /\ count = 0
  /\ got = << >> /\ moved = 0 /\ ok = FALSE
  /\ dev = NoCommand /\ disk \in [Sectors -> Values]
  /\ late = FALSE /\ dropped = FALSE

----------------------------------------------------------------------------
(* The drive.                                                              *)

Command(cmd, at, n) ==
  dev' = IF dev.busy \/ Drq THEN dev
         ELSE [busy |-> TRUE, cmd |-> cmd, lba |-> at, left |-> n, sector |-> None]

(* The next sector of a read or a write, or none.                          *)
NextSector(busy) ==
  IF dev.left = 1 THEN NoCommand
  ELSE [dev EXCEPT !.busy = busy, !.lba = @ + 1, !.left = @ - 1, !.sector = None]

(* The drive has found what it sends, has room for what it gets, has put a *)
(* sector on the disk or its cache.                                        *)
DeviceReady ==
  /\ dev.busy
  /\ IF dev.sector # None
     THEN disk' = [disk EXCEPT ![dev.lba] = dev.sector] /\ dev' = NextSector(FALSE)
     ELSE /\ dev' = IF dev.cmd = "flush" THEN NoCommand ELSE [dev EXCEPT !.busy = FALSE]
          /\ UNCHANGED disk
  /\ UNCHANGED <<driver, late, dropped>>

DeviceError ==
  /\ dev.busy
  /\ dev' = NoCommand
  /\ dropped' = (dropped \/ dev.cmd = "write")
  /\ UNCHANGED <<driver, disk, late>>

----------------------------------------------------------------------------
(* Waits and returns.                                                      *)

(* A slip for comparison: one look more.                                   *)
WaitOneMore(next) == pc' = next /\ polls' = Polls

Wait(next) == pc' = next /\ polls' = Polls - 1

(* A slip for comparison: the counter is not counted down.                 *)
PollForever(shown) ==
  /\ ~shown /\ polls > 0
  /\ UNCHANGED vars

(* One more look that does not show it.                                    *)
Poll(shown) ==
  /\ ~shown /\ polls > 0
  /\ polls' = polls - 1
  /\ UNCHANGED <<pc, tries, mounted, call, got, moved, ok, dev, disk, late, dropped>>

(* ata_init failed: kernel_main tries again, or halts.                     *)
TryAgain ==
  /\ IF tries > 0 THEN Wait("probe") /\ tries' = tries - 1
     ELSE pc' = "halted" /\ UNCHANGED <<polls, tries>>
  /\ UNCHANGED <<mounted, call, got, moved, ok, dev, disk, late, dropped>>

(* A call returns.  fs_init halts the system if it cannot read the disk,   *)
(* or if what it reads is no file system.                                  *)
Return(good) ==
  /\ ok' = good /\ polls' = 0
  /\ IF mounted THEN pc' = "idle" /\ UNCHANGED mounted
     ELSE \E mounts \in {good, FALSE} :
            mounted' = mounts /\ pc' = IF mounts THEN "idle" ELSE "halted"
  /\ UNCHANGED <<tries, call>>

GiveUp(shown) ==
  /\ ~shown /\ polls = 0
  /\ IF pc \in {"probe", "identify"} THEN TryAgain
     ELSE /\ Return(FALSE)
          /\ late' = (late \/ dev.cmd # "none")
          /\ UNCHANGED <<got, moved, dev, disk, dropped>>

Awaits(shown) == Poll(shown) \/ GiveUp(shown)

----------------------------------------------------------------------------
(* ata_init.                                                               *)

Probe ==
  /\ pc = "probe"
  /\ \/ Awaits(~dev.busy)
     \/ /\ ~dev.busy
        /\ Command("identify", 0, 1) /\ Wait("identify")
        /\ UNCHANGED <<tries, mounted, call, got, moved, ok, disk, late, dropped>>

(* The answer is read and discarded; then fs_init reads the boot sector.   *)
Identify ==
  /\ pc = "identify"
  /\ \/ Awaits(Drq)
     \/ /\ Drq
        /\ dev' = NoCommand
        /\ op' = "read" /\ lba' = 0 /\ data' = << >> /\ count' = 1
        /\ got' = << >> /\ moved' = 0 /\ Wait("ready")
        /\ UNCHANGED <<tries, mounted, ok, disk, late, dropped>>

----------------------------------------------------------------------------
(* ata_read_sectors and ata_write_sectors.                                 *)

Begin(o, at, n, d) ==
  /\ pc = "idle"
  /\ at + n - 1 \in Sectors
  /\ op' = o /\ lba' = at /\ count' = n /\ data' = d
  /\ got' = << >> /\ moved' = 0 /\ dropped' = FALSE
  /\ Wait("ready")
  /\ UNCHANGED <<tries, mounted, ok, dev, disk, late>>

Read(at, n)  == Begin("read", at, n, << >>)
Write(at, d) == Begin("write", at, Len(d), d)

Send ==
  /\ pc = "ready"
  /\ \/ Awaits(~dev.busy)
     \/ /\ ~dev.busy
        /\ Command(op, lba, count) /\ Wait("data")
        /\ UNCHANGED <<tries, mounted, call, got, moved, ok, disk, late, dropped>>

(* A slip for comparison: the last sector is left in the drive.            *)
AllMovedButOne(n) == n + 1 >= count

AllMoved(n) == n = count

(* 256 words from the data port, whatever is there.                        *)
Taken == IF dev.cmd = "read" THEN disk[dev.lba] ELSE Garbage

(* A slip for comparison: data are taken as soon as the drive is not busy. *)
CanMoveNotBusy == ~dev.busy

CanMove == Drq

ReadSector ==
  /\ pc = "data" /\ op = "read"
  /\ \/ Awaits(CanMove)
     \/ /\ CanMove
        /\ got' = Append(got, Taken)
        /\ dev' = IF dev.cmd = "read" THEN NextSector(TRUE) ELSE dev
        /\ moved' = moved + 1
        /\ IF AllMoved(moved') THEN Return(TRUE)
           ELSE Wait("data") /\ UNCHANGED <<tries, mounted, call, ok>>
        /\ UNCHANGED <<disk, late, dropped>>

(* 256 words to the data port; a drive that does not want them ignores     *)
(* them.  The flush command follows at once.                               *)
WriteSector ==
  /\ pc = "data" /\ op = "write"
  /\ \/ Awaits(CanMove)
     \/ /\ CanMove
        /\ dev' = IF dev.cmd = "write"
                  THEN [dev EXCEPT !.busy = TRUE, !.sector = data[moved + 1]]
                  ELSE dev
        /\ moved' = moved + 1 /\ Wait("flush")
        /\ UNCHANGED <<tries, mounted, call, got, ok, disk, late, dropped>>

(* The command is ignored while the drive is busy with the sector or wants *)
(* the next one.                                                           *)
SendFlush ==
  /\ pc = "flush"
  /\ Command("flush", 0, 0) /\ Wait("flushed")
  /\ UNCHANGED <<tries, mounted, call, got, moved, ok, disk, late, dropped>>

(* A slip for comparison: the last sector is not waited for.               *)
FlushedAtOnce ==
  /\ pc = "flushed"
  /\ IF AllMoved(moved) THEN Return(TRUE)
     ELSE Wait("data") /\ UNCHANGED <<tries, mounted, call, ok>>
  /\ UNCHANGED <<got, moved, dev, disk, late, dropped>>

Flushed ==
  /\ pc = "flushed"
  /\ \/ Awaits(~dev.busy)
     \/ /\ ~dev.busy
        /\ IF AllMoved(moved) THEN Return(TRUE)
           ELSE Wait("data") /\ UNCHANGED <<tries, mounted, call, ok>>
        /\ UNCHANGED <<got, moved, dev, disk, late, dropped>>

----------------------------------------------------------------------------
Start ==
  \E at \in Sectors : \/ \E n \in 1 .. MaxCount : Read(at, n)
                      \/ \E d \in Datas : Write(at, d)

Driver == Probe \/ Identify \/ Send \/ ReadSector \/ WriteSector \/ SendFlush \/ Flushed

Halted == pc = "halted" /\ UNCHANGED vars

Next == Start \/ Driver \/ DeviceReady \/ DeviceError \/ Halted

(* Nothing is asked of the drive: only the processor goes on.              *)
Spec == Init /\ [][Next]_vars /\ WF_vars(Driver)

----------------------------------------------------------------------------
Stops == {"idle", "halted"}
Waits == {"probe", "identify", "ready", "data", "flush", "flushed"}

TypeOK ==
  /\ pc \in Stops \cup Waits /\ polls \in 0 .. Polls - 1 /\ tries \in 0 .. Tries - 1
  /\ mounted \in BOOLEAN /\ ok \in BOOLEAN /\ late \in BOOLEAN /\ dropped \in BOOLEAN
  /\ op \in {"none", "read", "write"} /\ lba \in Sectors /\ count \in 0 .. MaxCount
  /\ moved \in 0 .. count
  /\ disk \in [Sectors -> Values]
  /\ dev.cmd = "none" <=> dev.left = 0 /\ ~dev.busy
  /\ dev.sector \in Values \cup {None}

(* Driver and drive stay in step through errors, retries of ata_init and   *)
(* ignored flushes, unless a call is given up that the drive is still at:  *)
(* between calls the drive is at nothing, and in one it moves the sectors  *)
(* that the driver waits for.                                              *)
InStep ==
  ~late =>
    /\ pc \in {"idle", "ready"} => dev.cmd = "none"
    /\ pc = "data" /\ dev.cmd # "none" =>
         dev.cmd = op /\ dev.lba = lba + moved /\ dev.left = count - moved

(* A read that returns true has put into the buffer what is on the disk,   *)
(* and a write that does has left its sectors there: unless a call before  *)
(* was given up that the drive was still at, or the drive has dropped a    *)
(* sector of this write, which the driver does not look for.               *)
Moved(where) == where = [i \in 1 .. count |-> disk[lba + i - 1]]

ReturnsOk == pc \in {"data", "flushed"} /\ pc' = "idle" /\ ok'

OkIsTrue ==
  [][ReturnsOk /\ ~late => IF op = "read" THEN Moved(got') ELSE dropped \/ Moved(data)]_vars

(* The drive changes no sector but those of the write it was given.        *)
WritesInPlace ==
  [][~late => \A s \in Sectors :
       disk'[s] # disk[s] =>
         op = "write" /\ pc # "idle" /\ s \in lba .. lba + count - 1]_vars

(* Every call returns, and the start ends, whatever the drive does.        *)
CallsReturn == pc \notin Stops ~> pc \in Stops
=============================================================================
