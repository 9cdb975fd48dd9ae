----------------------------- MODULE Ata_proofs -----------------------------
(***************************************************************************)
(* Driver and drive stay in step, for every disk, every number of polls    *)
(* and of tries, and whatever the drive does.                              *)
(***************************************************************************)
EXTENDS Ata, TLAPS

Commands == {"identify", "read", "write", "flush"}

Sound(d) ==
  /\ d \in [busy : BOOLEAN, cmd : Commands \cup {"none"}, lba : Nat, left : Nat,
            sector : Values \cup {None}]
  /\ d.cmd = "none" => d = NoCommand
  /\ d.cmd \in {"identify", "read", "write"} => d.left > 0
  /\ d.cmd = "flush" => d.busy /\ d.left = 0
  /\ d.sector # None => d.cmd = "write" /\ d.busy

DevOK == Sound(dev)

Working == {"ready", "data", "flush", "flushed"}

CallOK ==
  /\ data \in Seq(Values)
  /\ pc \in Working =>
       /\ op \in {"read", "write"} /\ count > 0 /\ lba + count - 1 \in Sectors
       /\ op = "write" => Len(data) = count
  /\ pc = "ready" => moved = 0
  /\ pc = "data" => moved < count
  /\ pc \in {"flush", "flushed"} => op = "write" /\ moved > 0

(* Where the drive is, by what the driver waits for.  In between a sector  *)
(* may be in the drive and not yet on the disk.                            *)
Positions ==
  /\ pc \in {"probe", "identify", "halted"} => dev.cmd \in {"none", "identify"}
  /\ pc \in {"idle", "ready"} => dev.cmd = "none"
  /\ pc = "data" =>
       /\ dev.cmd \in {"none", op} /\ dev.sector = None
       /\ dev.cmd # "none" => dev.lba = lba + moved /\ dev.left = count - moved
  /\ pc \in {"flush", "flushed"} =>
       /\ dev.cmd \in {"none", "write", "flush"}
       /\ dev.cmd = "flush" => pc = "flushed"
       /\ dev.cmd = "write" /\ dev.sector = None =>
            ~dev.busy /\ dev.lba = lba + moved /\ dev.left = count - moved
       /\ dev.sector # None =>
            /\ dev.lba = lba + moved - 1 /\ dev.left = count - moved + 1
            /\ dev.sector = data[moved]

(* What has been moved is where it belongs, but for the sector that is     *)
(* still in the drive, if the drive has dropped none.                      *)
Arrived ==
  /\ pc = "ready" => got = << >>
  /\ pc = "data" /\ op = "read" =>
       /\ got \in Seq(Values) /\ Len(got) = moved
       /\ \A i \in 1 .. moved : got[i] = disk[lba + i - 1]
  /\ pc \in {"data", "flush", "flushed"} /\ op = "write" /\ ~dropped =>
       \A i \in 1 .. moved :
         (i = moved => dev.sector = None) => disk[lba + i - 1] = data[i]

AtaInv ==
  /\ TypeOK /\ DevOK /\ CallOK
  /\ ~late => Positions /\ Arrived

-----------------------------------------------------------------------------
USE AtaAssumption

LEMMA SoundIdle ==
  ASSUME NEW d, Sound(d)
  PROVE  d.cmd = "none" <=> d.left = 0 /\ ~d.busy
  BY DEF Sound, Commands, NoCommand

LEMMA NoneSound == Sound(NoCommand)
  BY DEF Sound, Commands, NoCommand

Sent(cmd, at, n) ==
  [busy |-> TRUE, cmd |-> cmd, lba |-> at, left |-> n, sector |-> None]

LEMMA SentSound ==
  ASSUME NEW cmd \in Commands, NEW at \in Nat, NEW n \in Nat, n = 0 <=> cmd = "flush"
  PROVE  Sound(Sent(cmd, at, n))
  BY DEF Sent, Sound, Commands, NoCommand

LEMMA Filled ==
  ASSUME NEW d, Sound(d), NEW b \in BOOLEAN, NEW v, NEW e,
         e = [d EXCEPT !.busy = b, !.sector = v]
  PROVE  e = [busy |-> b, cmd |-> d.cmd, lba |-> d.lba, left |-> d.left, sector |-> v]
  BY DEF Sound

LEMMA NotBusy ==
  ASSUME NEW d, Sound(d), NEW b \in BOOLEAN, NEW e, e = [d EXCEPT !.busy = b]
  PROVE  e = [busy |-> b, cmd |-> d.cmd, lba |-> d.lba, left |-> d.left, sector |-> d.sector]
  BY DEF Sound

(* The part of the type invariant that is about the drive.                 *)
DevTypeOK ==
  /\ dev.cmd = "none" <=> dev.left = 0 /\ ~dev.busy
  /\ dev.sector \in Values \cup {None}

LEMMA DevTypes ==
  ASSUME DevOK'
  PROVE  DevTypeOK'
  BY SoundIdle DEF DevOK, DevTypeOK, Sound

(* A drive that is at something ignores a command.                         *)
LEMMA Commanded ==
  ASSUME DevOK, NEW cmd \in Commands, NEW at \in Nat, NEW n \in Nat,
         n = 0 <=> cmd = "flush", Command(cmd, at, n)
  PROVE  /\ DevOK'
         /\ dev' = IF dev.cmd = "none" THEN Sent(cmd, at, n) ELSE dev
  <1>1. dev.cmd = "none" <=> ~(dev.busy \/ Drq)
    BY DEF DevOK, Sound, Drq, Commands, NoCommand
  <1>2. dev' = IF dev.cmd = "none" THEN Sent(cmd, at, n) ELSE dev
    BY <1>1 DEF Command, Sent
  <1>3. Sound(dev')
    BY <1>2, SentSound DEF DevOK
  <1> QED BY <1>2, <1>3 DEF DevOK

(* A drive goes on to the next sector or is done.                          *)
LEMMA NextOne ==
  ASSUME DevOK, dev.cmd \in {"read", "write"}, NEW b \in BOOLEAN, dev' = NextSector(b)
  PROVE  /\ DevOK'
         /\ dev.left = 1 => dev' = NoCommand
         /\ dev.left # 1 =>
              dev' = [busy |-> b, cmd |-> dev.cmd, lba |-> dev.lba + 1,
                      left |-> dev.left - 1, sector |-> None]
  <1>1. dev.left = 1 => dev' = NoCommand
    BY DEF NextSector
  <1>2. dev.left # 1 =>
              dev' = [busy |-> b, cmd |-> dev.cmd, lba |-> dev.lba + 1,
                      left |-> dev.left - 1, sector |-> None]
    BY DEF NextSector, DevOK, Sound
  <1>3. CASE dev.left = 1
    BY <1>1, <1>3, NoneSound DEF DevOK
  <1>4. CASE dev.left # 1
    <2>1. dev.left - 1 > 0 /\ dev.left - 1 \in Nat /\ dev.lba + 1 \in Nat
      BY <1>4 DEF DevOK, Sound
    <2>2. Sound(dev')
      BY <1>2, <1>4, <2>1 DEF Sound, Commands
    <2> QED BY <1>2, <1>4, <2>2 DEF DevOK
  <1> QED BY <1>3, <1>4

LEMMA NoSector == << >> \in Seq(Values) /\ Len(<< >>) = 0
  OBVIOUS

LEMMA DatasAre ==
  ASSUME NEW d \in Datas
  PROVE  d \in Seq(Values) /\ Len(d) \in 1 .. MaxCount
  BY DEF Datas

LEMMA AtaInitial == Init => AtaInv
  <1> SUFFICES ASSUME Init PROVE AtaInv
    OBVIOUS
  <1>1. TypeOK
    BY SMTT(30) DEF Init, TypeOK, NoCommand, Stops, Waits, Sectors
  <1>2. DevOK
    BY NoneSound DEF Init, DevOK
  <1>3. CallOK
    BY NoSector DEF Init, CallOK, Working
  <1>4. Positions /\ Arrived
    BY DEF Init, Positions, Arrived, NoCommand
  <1> QED BY <1>1, <1>2, <1>3, <1>4 DEF AtaInv

LEMMA PollKeeps ==
  ASSUME AtaInv, NEW shown, Poll(shown)
  PROVE  AtaInv'
  BY SMTT(30) DEF Poll, AtaInv, TypeOK, DevOK, CallOK, Positions, Arrived, call,
     NoCommand, Stops, Waits, Working, Sectors

LEMMA TryAgainKeeps ==
  ASSUME AtaInv, pc \in {"probe", "identify"}, TryAgain
  PROVE  AtaInv'
  BY SMTT(30) DEF TryAgain, Wait, AtaInv, TypeOK, DevOK, CallOK, Positions, Arrived, call,
     NoCommand, Stops, Waits, Working, Sectors

(* A call returns to the idle loop, or fs_init halts.                      *)
Returned(good) ==
  /\ pc' \in Stops /\ mounted' \in BOOLEAN /\ ok' = good /\ polls' = 0
  /\ tries' = tries /\ op' = op /\ lba' = lba /\ data' = data /\ count' = count

LEMMA Returns ==
  ASSUME TypeOK, NEW good \in BOOLEAN, Return(good)
  PROVE  Returned(good)
  <1>1. pc' \in Stops /\ mounted' \in BOOLEAN
    <2>1. CASE mounted
      BY <2>1 DEF Return, Stops, TypeOK
    <2>2. CASE ~mounted
      <3>1. PICK mounts \in {good, FALSE} :
              mounted' = mounts /\ pc' = IF mounts THEN "idle" ELSE "halted"
        BY <2>2 DEF Return
      <3>2. CASE mounts
        BY <3>1, <3>2 DEF Stops
      <3>3. CASE ~mounts
        BY <3>1, <3>3 DEF Stops
      <3> QED BY <3>2, <3>3
    <2> QED BY <2>1, <2>2
  <1> QED BY <1>1 DEF Return, Returned, call

LEMMA GiveUpKeeps ==
  ASSUME AtaInv, NEW shown, GiveUp(shown)
  PROVE  AtaInv'
  <1>1. CASE pc \in {"probe", "identify"}
    BY <1>1, TryAgainKeeps DEF GiveUp
  <1>2. CASE pc \notin {"probe", "identify"}
    <2>0. Returned(FALSE)
      BY <1>2, Returns DEF GiveUp, AtaInv
    <2>1. dev' = dev /\ pc' \in Stops /\ late' = (late \/ dev.cmd # "none")
      BY <1>2, <2>0 DEF GiveUp, Returned
    <2>2. DevOK'
      BY <1>2, <2>1 DEF AtaInv, DevOK
    <2>3. TypeOK'
      BY <1>2, <2>0, <2>1, <2>2, SoundIdle, SMTT(60)
      DEF AtaInv, GiveUp, Returned, TypeOK, CallOK, DevOK, Sound, Stops, Waits, Working, Sectors, call
    <2>4. CallOK'
      BY <1>2, <2>0, <2>1, <2>2, SMTT(60)
      DEF AtaInv, GiveUp, Returned, TypeOK, CallOK, DevOK, Sound, Stops, Waits, Working, Sectors, call
    <2>5. (~late => Positions)'
      BY <1>2, <2>0, <2>1, <2>2, SMTT(60)
      DEF AtaInv, GiveUp, Returned, TypeOK, CallOK, Positions, NoCommand, Sent, DevOK, Sound, Stops, Waits, Working, Sectors, call
    <2>6. (~late => Arrived)'
      BY <1>2, <2>0, <2>1, <2>2, SMTT(60)
      DEF AtaInv, GiveUp, Returned, TypeOK, CallOK, Positions, Arrived, NoCommand, Sent, DevOK, Sound, Stops, Waits, Working, Sectors, call
    <2> QED BY <2>2, <2>3, <2>4, <2>5, <2>6 DEF AtaInv
  <1> QED BY <1>1, <1>2

LEMMA ProbeKeeps ==
  ASSUME AtaInv, Probe
  PROVE  AtaInv'
  <1>1. CASE Awaits(~dev.busy)
    BY <1>1, GiveUpKeeps, PollKeeps DEF Awaits
  <1>2. CASE ~ Awaits(~dev.busy)
    <2>1. DevOK' /\ dev' = IF dev.cmd = "none" THEN Sent("identify", 0, 1) ELSE dev
      BY <1>2, Commanded DEF Probe, AtaInv, Commands
    <2>2. DevOK'
      BY <1>2, <2>1
    <2>3. TypeOK'
      BY <1>2, <2>1, <2>2, SoundIdle, SMTT(60)
      DEF AtaInv, Probe, Wait, Drq, TypeOK, CallOK, DevOK, Sound, Stops, Waits, Working, Sectors, call
    <2>4. CallOK'
      BY <1>2, <2>1, <2>2, SMTT(60)
      DEF AtaInv, Probe, Wait, Drq, TypeOK, CallOK, DevOK, Sound, Stops, Waits, Working, Sectors, call
    <2>5. (~late => Positions)'
      BY <1>2, <2>1, <2>2, SMTT(60)
      DEF AtaInv, Probe, Wait, Drq, TypeOK, CallOK, Positions, NoCommand, Sent, DevOK, Sound, Stops, Waits, Working, Sectors, call
    <2>6. (~late => Arrived)'
      BY <1>2, <2>1, <2>2, SMTT(60)
      DEF AtaInv, Probe, Wait, Drq, TypeOK, CallOK, Positions, Arrived, NoCommand, Sent, DevOK, Sound, Stops, Waits, Working, Sectors, call
    <2> QED BY <2>2, <2>3, <2>4, <2>5, <2>6 DEF AtaInv
  <1> QED BY <1>1, <1>2

LEMMA IdentifyKeeps ==
  ASSUME AtaInv, Identify
  PROVE  AtaInv'
  <1>1. CASE Awaits(Drq)
    BY <1>1, GiveUpKeeps, PollKeeps DEF Awaits
  <1>2. CASE ~ Awaits(Drq)
    <2>1. dev' = NoCommand
      BY <1>2 DEF Identify
    <2>2. DevOK'
      BY <1>2, <2>1, NoneSound DEF DevOK
    <2>3. TypeOK'
      BY <1>2, <2>1, <2>2, SoundIdle, NoSector, SMTT(60)
      DEF AtaInv, Identify, Wait, TypeOK, CallOK, DevOK, Sound, Stops, Waits, Working, Sectors, call
    <2>4. CallOK'
      <3>1. data' = << >> /\ count' = 1 /\ lba' = 0 /\ op' = "read" /\ pc' = "ready" /\ moved' = 0
        BY <1>2 DEF Identify, Wait
      <3>2. lba' + count' - 1 \in Sectors
        BY <3>1 DEF Sectors
      <3> QED BY <3>1, <3>2, NoSector DEF CallOK, Working
    <2>5. (~late => Positions)'
      BY <1>2, <2>1, <2>2, NoSector, SMTT(60)
      DEF AtaInv, Identify, Wait, TypeOK, CallOK, Positions, NoCommand, Sent, DevOK, Sound, Stops, Waits, Working, Sectors, call
    <2>6. (~late => Arrived)'
      BY <1>2, <2>1, <2>2, NoSector, SMTT(60)
      DEF AtaInv, Identify, Wait, TypeOK, CallOK, Positions, Arrived, NoCommand, Sent, DevOK, Sound, Stops, Waits, Working, Sectors, call
    <2> QED BY <2>2, <2>3, <2>4, <2>5, <2>6 DEF AtaInv
  <1> QED BY <1>1, <1>2

LEMMA BeginKeeps ==
  ASSUME AtaInv, NEW o \in {"read", "write"}, NEW at \in Sectors, NEW n \in 1 .. MaxCount,
         NEW d \in Seq(Values), o = "write" => Len(d) = n, Begin(o, at, n, d)
  PROVE  AtaInv'
  <1>1. dev' = dev
    BY DEF Begin
  <1>2. DevOK'
    BY <1>1 DEF AtaInv, DevOK
  <1>3. TypeOK'
    <2>1. pc' = "ready" /\ op' = o /\ lba' = at /\ count' = n /\ moved' = 0 /\ polls' = Polls - 1
      BY DEF Begin, Wait
    <2>2. count' \in 0 .. MaxCount /\ moved' \in 0 .. count' /\ polls' \in 0 .. Polls - 1
      BY <2>1
    <2> QED BY <1>1, <2>1, <2>2 DEF AtaInv, TypeOK, Begin, Waits, Stops
  <1>4. CallOK'
    BY <1>1, <1>2, SMTT(60)
    DEF AtaInv, Begin, Wait, TypeOK, CallOK, DevOK, Sound, Stops, Waits, Working, Sectors, call
  <1>5. (~late => Positions)'
    BY <1>1, <1>2, SMTT(60)
    DEF AtaInv, Begin, Wait, TypeOK, CallOK, Positions, NoCommand, Sent, DevOK, Sound, Stops, Waits, Working, Sectors, call
  <1>6. (~late => Arrived)'
    BY <1>1, <1>2, SMTT(60)
    DEF AtaInv, Begin, Wait, TypeOK, CallOK, Positions, Arrived, NoCommand, Sent, DevOK, Sound, Stops, Waits, Working, Sectors, call
  <1> QED BY <1>2, <1>3, <1>4, <1>5, <1>6 DEF AtaInv

LEMMA StartKeeps ==
  ASSUME AtaInv, Start
  PROVE  AtaInv'
  <1>1. CASE \E at \in Sectors, n \in 1 .. MaxCount : Read(at, n)
    BY <1>1, BeginKeeps, NoSector DEF Read
  <1>2. CASE \E at \in Sectors, d \in Datas : Write(at, d)
    BY <1>2, BeginKeeps, DatasAre DEF Write
  <1> QED BY <1>1, <1>2 DEF Start

LEMMA SendKeeps ==
  ASSUME AtaInv, Send
  PROVE  AtaInv'
  <1>1. CASE Awaits(~dev.busy)
    BY <1>1, GiveUpKeeps, PollKeeps DEF Awaits
  <1>2. CASE ~ Awaits(~dev.busy)
    <2>1. DevOK' /\ dev' = IF dev.cmd = "none" THEN Sent(op, lba, count) ELSE dev
      BY <1>2, Commanded DEF Send, AtaInv, CallOK, Working, TypeOK, Sectors, Commands
    <2>2. DevOK'
      BY <1>2, <2>1
    <2>3. TypeOK'
      BY <1>2, <2>1, <2>2, SoundIdle, NoSector, SMTT(60)
      DEF AtaInv, Send, Wait, Drq, TypeOK, CallOK, DevOK, Sound, Stops, Waits, Working, Sectors, call
    <2>4. CallOK'
      BY <1>2, <2>1, <2>2, NoSector, SMTT(60)
      DEF AtaInv, Send, Wait, Drq, TypeOK, CallOK, DevOK, Sound, Stops, Waits, Working, Sectors, call
    <2>5. (~late => Positions)'
      BY <1>2, <2>1, <2>2, NoSector, SMTT(60)
      DEF AtaInv, Send, Wait, Drq, TypeOK, CallOK, Positions, NoCommand, Sent, DevOK, Sound, Stops, Waits, Working, Sectors, call
    <2>6. (~late => Arrived)'
      BY <1>2, <2>1, <2>2, NoSector, SMTT(60)
      DEF AtaInv, Send, Wait, Drq, TypeOK, CallOK, Positions, Arrived, NoCommand, Sent, DevOK, Sound, Stops, Waits, Working, Sectors, call
    <2> QED BY <2>2, <2>3, <2>4, <2>5, <2>6 DEF AtaInv
  <1> QED BY <1>1, <1>2

LEMMA SendFlushKeeps ==
  ASSUME AtaInv, SendFlush
  PROVE  AtaInv'
  <1>1. DevOK' /\ dev' = IF dev.cmd = "none" THEN Sent("flush", 0, 0) ELSE dev
    BY Commanded DEF SendFlush, AtaInv, Commands
  <1>2. DevOK'
    BY <1>1
  <1>3. TypeOK'
    BY <1>1, <1>2, SoundIdle, SMTT(60)
    DEF AtaInv, SendFlush, Wait, TypeOK, CallOK, DevOK, Sound, Stops, Waits, Working, Sectors, call
  <1>4. CallOK'
    BY <1>1, <1>2, SMTT(60)
    DEF AtaInv, SendFlush, Wait, TypeOK, CallOK, DevOK, Sound, Stops, Waits, Working, Sectors, call
  <1>5. (~late => Positions)'
    BY <1>1, <1>2, SMTT(60)
    DEF AtaInv, SendFlush, Wait, TypeOK, CallOK, Positions, NoCommand, Sent, DevOK, Sound, Stops, Waits, Working, Sectors, call
  <1>6. (~late => Arrived)'
    BY <1>1, <1>2, SMTT(60)
    DEF AtaInv, SendFlush, Wait, TypeOK, CallOK, Positions, Arrived, NoCommand, Sent, DevOK, Sound, Stops, Waits, Working, Sectors, call
  <1> QED BY <1>2, <1>3, <1>4, <1>5, <1>6 DEF AtaInv

LEMMA FlushedKeeps ==
  ASSUME AtaInv, Flushed
  PROVE  AtaInv'
  <1>1. CASE Awaits(~dev.busy)
    BY <1>1, GiveUpKeeps, PollKeeps DEF Awaits
  <1>2. CASE ~dev.busy /\ ~AllMoved(moved) /\ ~ Awaits(~dev.busy)
    <2>1. dev' = dev
      BY <1>2 DEF Flushed
    <2>2. DevOK'
      BY <1>2, <2>1 DEF AtaInv, DevOK
    <2>3. TypeOK'
      BY <1>2, <2>1, <2>2, SoundIdle, SMTT(60)
      DEF AtaInv, Flushed, AllMoved, Wait, TypeOK, CallOK, DevOK, Sound, Stops, Waits, Working, Sectors, call
    <2>4. CallOK'
      BY <1>2, <2>1, <2>2, SMTT(60)
      DEF AtaInv, Flushed, AllMoved, Wait, TypeOK, CallOK, DevOK, Sound, Stops, Waits, Working, Sectors, call
    <2>5. (~late => Positions)'
      BY <1>2, <2>1, <2>2, SMTT(60)
      DEF AtaInv, Flushed, AllMoved, Wait, TypeOK, CallOK, Positions, NoCommand, Sent, DevOK, Sound, Stops, Waits, Working, Sectors, call
    <2>6. (~late => Arrived)'
      BY <1>2, <2>1, <2>2, SMTT(60)
      DEF AtaInv, Flushed, AllMoved, Wait, TypeOK, CallOK, Positions, Arrived, NoCommand, Sent, DevOK, Sound, Stops, Waits, Working, Sectors, call
    <2> QED BY <2>2, <2>3, <2>4, <2>5, <2>6 DEF AtaInv
  <1>3. CASE AllMoved(moved) /\ ~ Awaits(~dev.busy)
    <2>1. /\ pc = "flushed" /\ ~dev.busy /\ moved = count /\ Return(TRUE)
          /\ UNCHANGED <<got, moved, dev, disk, late, dropped>>
      BY <1>3 DEF Flushed, AllMoved
    <2>0. Returned(TRUE)
      BY <2>1, Returns DEF AtaInv
    <2>2. ~late => dev.cmd = "none"
      BY <2>1, SMT DEF AtaInv, DevOK, Sound, TypeOK, Positions, Commands
    <2>3. TypeOK'
      BY <2>0, <2>1, SMT DEF Returned, AtaInv, TypeOK, Stops, Waits
    <2>4. DevOK'
      BY <2>1 DEF AtaInv, DevOK
    <2>5. CallOK'
      BY <2>0, <2>1, SMT DEF Returned, AtaInv, CallOK, Stops, Working
    <2>6. (~late => Positions /\ Arrived)'
      BY <2>0, <2>1, <2>2, SMT DEF Returned, AtaInv, Positions, Arrived, Stops
    <2> QED BY <2>3, <2>4, <2>5, <2>6 DEF AtaInv
  <1> QED BY <1>1, <1>2, <1>3 DEF Flushed

LEMMA ErrorKeeps ==
  ASSUME AtaInv, DeviceError
  PROVE  AtaInv'
  <1>1. dev' = NoCommand
    BY DEF DeviceError
  <1>2. DevOK'
    BY <1>1, NoneSound DEF DevOK
  <1>3. TypeOK'
    BY <1>1, <1>2, SoundIdle, SMTT(60)
    DEF AtaInv, DeviceError, driver, TypeOK, CallOK, DevOK, Sound, Stops, Waits, Working, Sectors, call
  <1>4. CallOK'
    BY <1>1, <1>2, SMTT(60)
    DEF AtaInv, DeviceError, driver, TypeOK, CallOK, DevOK, Sound, Stops, Waits, Working, Sectors, call
  <1>5. (~late => Positions)'
    BY <1>1, <1>2, SMTT(60)
    DEF AtaInv, DeviceError, driver, TypeOK, CallOK, Positions, NoCommand, Sent, DevOK, Sound, Stops, Waits, Working, Sectors, call
  <1>6. (~late => Arrived)'
    BY <1>1, <1>2, SMTT(60)
    DEF AtaInv, DeviceError, driver, TypeOK, CallOK, Positions, Arrived, NoCommand, Sent, DevOK, Sound, Stops, Waits, Working, Sectors, call
  <1> QED BY <1>2, <1>3, <1>4, <1>5, <1>6 DEF AtaInv

LEMMA WriteSectorKeeps ==
  ASSUME AtaInv, WriteSector
  PROVE  AtaInv'
  <1>1. CASE Awaits(CanMove)
    BY <1>1, GiveUpKeeps, PollKeeps DEF Awaits
  <1>2. CASE ~ Awaits(CanMove)
    <2>0. data[moved + 1] \in Values /\ ~dev.busy
      BY <1>2 DEF WriteSector, AtaInv, CallOK, TypeOK, CanMove, Drq, Working
    <2>1. dev' = IF dev.cmd = "write"
                 THEN [busy |-> TRUE, cmd |-> "write", lba |-> dev.lba, left |-> dev.left,
                       sector |-> data[moved + 1]]
                 ELSE dev
      BY <1>2, Filled DEF WriteSector, AtaInv, DevOK
    <2>2. DevOK'
      BY <1>2, <2>0, <2>1, SMT DEF AtaInv, DevOK, Sound, Commands, NoCommand
    <2>3. TypeOK'
      BY <1>2, <2>0, <2>1, <2>2, SoundIdle, SMTT(60)
      DEF AtaInv, WriteSector, CanMove, Drq, Wait, TypeOK, CallOK, DevOK, Sound, Stops, Waits, Working, Sectors, call
    <2>4. CallOK'
      BY <1>2, <2>0, <2>1, <2>2, SMTT(60)
      DEF AtaInv, WriteSector, CanMove, Drq, Wait, TypeOK, CallOK, DevOK, Sound, Stops, Waits, Working, Sectors, call
    <2>5. /\ pc = "data" /\ op = "write" /\ pc' = "flush" /\ moved' = moved + 1 /\ dev.cmd # "none"
          /\ UNCHANGED <<op, lba, data, count, got, disk, late, dropped>>
      BY <1>2 DEF WriteSector, Wait, CanMove, Drq, call
    <2>6. ASSUME ~late PROVE (Positions /\ Arrived)'
      <3>1. /\ dev.cmd = "write" /\ dev.lba = lba + moved /\ dev.left = count - moved
            /\ dev.sector = None
        BY <2>5, <2>6 DEF AtaInv, Positions
      <3>2. dev' = [busy |-> TRUE, cmd |-> "write", lba |-> lba + moved, left |-> count - moved,
                    sector |-> data[moved + 1]]
        BY <2>1, <3>1
      <3>3. moved \in Nat /\ lba \in Nat /\ count \in Nat /\ data[moved + 1] # None
        BY <2>0 DEF AtaInv, TypeOK, Sectors
      <3>4. Positions'
        BY <2>5, <3>2, <3>3 DEF Positions
      <3>5. ~dropped => \A i \in 1 .. moved : disk[lba + i - 1] = data[i]
        BY <2>5, <2>6, <3>1 DEF AtaInv, Arrived
      <3>6. Arrived'
        BY <2>5, <3>2, <3>3, <3>5 DEF Arrived
      <3> QED BY <3>4, <3>6
    <2>7. late' = late
      BY <2>5
    <2> QED BY <2>2, <2>3, <2>4, <2>6, <2>7 DEF AtaInv
  <1> QED BY <1>1, <1>2

LEMMA ReadyKeeps ==
  ASSUME AtaInv, DeviceReady
  PROVE  AtaInv'
  <1>0. UNCHANGED <<driver, late, dropped>> /\ dev.busy
    BY DEF DeviceReady
  <1>1. CASE dev.sector # None
    <2>0. dev.cmd = "write" /\ disk' = [disk EXCEPT ![dev.lba] = dev.sector] /\ dev' = NextSector(FALSE)
      BY <1>1 DEF DeviceReady, AtaInv, DevOK, Sound
    <2>1. /\ dev.left = 1 => dev' = NoCommand
          /\ dev.left # 1 =>
               dev' = [busy |-> FALSE, cmd |-> dev.cmd, lba |-> dev.lba + 1,
                       left |-> dev.left - 1, sector |-> None]
      BY <2>0, NextOne DEF AtaInv
    <2>2. DevOK'
      BY <2>0, NextOne DEF AtaInv
    <2>3. TypeOK'
      <3>1. disk' \in [Sectors -> Values]
        BY <1>1, <2>0 DEF AtaInv, TypeOK, DevOK, Sound
      <3> QED BY <1>0, <2>2, <3>1, DevTypes DEF DevTypeOK, AtaInv, TypeOK, driver, call
    <2>4. CallOK'
      BY <1>0 DEF AtaInv, CallOK, driver, call
    <2>5. ASSUME ~late PROVE (Positions /\ Arrived)'
      <3>1. /\ pc \in {"flush", "flushed"}
            /\ dev.lba = lba + moved - 1 /\ dev.left = count - moved + 1
            /\ dev.sector = data[moved]
        BY <1>1, <2>0, <2>5 DEF AtaInv, Positions, TypeOK, Stops, Waits
      <3>2. /\ moved \in 1 .. count /\ lba \in Nat /\ count \in Nat /\ op = "write"
            /\ lba + count - 1 \in Sectors
        BY <3>1, SMT DEF AtaInv, TypeOK, CallOK, Sectors, Working
      <3>3. UNCHANGED <<pc, op, lba, data, count, got, moved, dropped>>
        BY <1>0 DEF driver, call
      <3>4. Positions'
        <4>1. CASE dev.left = 1
          BY <2>1, <3>1, <3>3, <4>1 DEF Positions, NoCommand
        <4>2. CASE dev.left # 1
          <5>1. /\ dev'.cmd = "write" /\ dev'.sector = None /\ ~dev'.busy
                /\ dev'.lba = lba + moved /\ dev'.left = count - moved
            <6>1. dev' = [busy |-> FALSE, cmd |-> "write", lba |-> dev.lba + 1,
                          left |-> dev.left - 1, sector |-> None]
              BY <2>0, <2>1, <4>2
            <6>2. dev.lba + 1 = lba + moved /\ dev.left - 1 = count - moved
              BY <3>1, <3>2
            <6> QED BY <6>1, <6>2
          <5> QED BY <3>1, <3>3, <5>1 DEF Positions
        <4> QED BY <4>1, <4>2
      <3>5. ~dropped => \A i \in 1 .. moved : disk'[lba + i - 1] = data[i]
        <4> SUFFICES ASSUME ~dropped, NEW i \in 1 .. moved PROVE disk'[lba + i - 1] = data[i]
          OBVIOUS
        <4>1. lba + i - 1 \in Sectors
          BY <3>2 DEF Sectors
        <4>2. CASE i = moved
          BY <2>0, <3>1, <4>1, <4>2 DEF AtaInv, TypeOK
        <4>3. CASE i # moved
          <5>1. disk[lba + i - 1] = data[i]
            BY <2>5, <3>1, <3>2, <4>3 DEF AtaInv, Arrived
          <5>2. lba + i - 1 # dev.lba
            BY <3>1, <3>2, <4>3
          <5> QED BY <2>0, <4>1, <5>1, <5>2 DEF AtaInv, TypeOK
        <4> QED BY <4>2, <4>3
      <3>6. Arrived'
        BY <3>1, <3>2, <3>3, <3>5 DEF Arrived
      <3> QED BY <3>4, <3>6
    <2> QED BY <1>0, <2>2, <2>3, <2>4, <2>5 DEF AtaInv
  <1>2. CASE dev.sector = None
    <2>1. /\ disk' = disk
          /\ dev' = IF dev.cmd = "flush" THEN NoCommand
                    ELSE [busy |-> FALSE, cmd |-> dev.cmd, lba |-> dev.lba, left |-> dev.left,
                          sector |-> None]
      BY <1>2, NotBusy DEF DeviceReady, AtaInv, DevOK
    <2>2. DevOK'
      BY <1>0, <1>2, <2>1, NoneSound, SMT DEF AtaInv, DevOK, Sound, Commands, NoCommand
    <2>3. TypeOK'
      BY <1>0, <1>2, <2>1, <2>2, SoundIdle, SMTT(60)
      DEF AtaInv, driver, TypeOK, CallOK, DevOK, Sound, Stops, Waits, Working, Sectors, call
    <2>4. CallOK'
      BY <1>0, <1>2, <2>1, <2>2, SMTT(60)
      DEF AtaInv, driver, TypeOK, CallOK, DevOK, Sound, Stops, Waits, Working, Sectors, call
    <2>5. (~late => Positions)'
      BY <1>0, <1>2, <2>1, <2>2, SMTT(60)
      DEF AtaInv, driver, TypeOK, CallOK, Positions, NoCommand, DevOK, Sound, Stops, Waits, Working, Sectors, call
    <2>6. (~late => Arrived)'
      BY <1>0, <1>2, <2>1, <2>2, SMTT(60)
      DEF AtaInv, driver, TypeOK, CallOK, Positions, Arrived, NoCommand, DevOK, Sound, Stops, Waits, Working, Sectors, call
    <2> QED BY <2>2, <2>3, <2>4, <2>5, <2>6 DEF AtaInv
  <1> QED BY <1>1, <1>2

(* What a read takes is the next sector.                                   *)
LEMMA ReadsOne ==
  ASSUME AtaInv, pc = "data", op = "read", Drq, ~late,
         got' = Append(got, Taken), moved' = moved + 1
  PROVE  /\ dev.cmd = "read" /\ dev.lba = lba + moved /\ dev.left = count - moved
         /\ got' \in Seq(Values) /\ Len(got') = moved'
         /\ \A i \in 1 .. moved' : got'[i] = disk[lba + i - 1]
  <1>1. dev.cmd = "read" /\ dev.lba = lba + moved /\ dev.left = count - moved
    BY DEF AtaInv, Positions, Drq
  <1>2. got \in Seq(Values) /\ Len(got) = moved /\ \A i \in 1 .. moved : got[i] = disk[lba + i - 1]
    BY DEF AtaInv, Arrived
  <1>3. lba + moved \in Sectors /\ moved \in Nat
    BY SMT DEF AtaInv, TypeOK, CallOK, Sectors, Working
  <1>4. Taken = disk[lba + moved] /\ Taken \in Values
    BY <1>1, <1>3 DEF Taken, AtaInv, TypeOK
  <1> QED BY <1>1, <1>2, <1>3, <1>4

LEMMA ReadSectorKeeps ==
  ASSUME AtaInv, ReadSector
  PROVE  AtaInv'
  <1>1. CASE Awaits(CanMove)
    BY <1>1, GiveUpKeeps, PollKeeps DEF Awaits
  <1>2. CASE ~ Awaits(CanMove)
    <2>0. /\ pc = "data" /\ op = "read" /\ Drq /\ got' = Append(got, Taken) /\ moved' = moved + 1
          /\ UNCHANGED <<disk, late, dropped>>
          /\ dev' = IF dev.cmd = "read" THEN NextSector(TRUE) ELSE dev
      BY <1>2 DEF ReadSector, CanMove
    <2>1. dev.cmd = "read" =>
            /\ dev.left = 1 => dev' = NoCommand
            /\ dev.left # 1 =>
                 dev' = [busy |-> TRUE, cmd |-> "read", lba |-> dev.lba + 1,
                         left |-> dev.left - 1, sector |-> None]
      BY <2>0, NextOne DEF AtaInv
    <2>2. DevOK'
      BY <2>0, NextOne DEF AtaInv, DevOK
    <2>3. ~late => /\ dev.cmd = "read" /\ dev.lba = lba + moved /\ dev.left = count - moved
                   /\ got' \in Seq(Values) /\ Len(got') = moved'
                   /\ \A i \in 1 .. moved' : got'[i] = disk[lba + i - 1]
      BY <2>0, ReadsOne
    <2>6. moved \in Nat /\ count \in Nat /\ lba \in Nat /\ moved < count
      BY <2>0 DEF AtaInv, TypeOK, CallOK, Sectors
    <2>4. CASE ~ AllMoved(moved')
      <3>1. Wait("data") /\ UNCHANGED <<tries, mounted, call, ok>>
        BY <1>2, <2>4 DEF ReadSector
      <3>2. TypeOK'
        <4>1. moved' \in 0 .. count' /\ polls' \in 0 .. Polls - 1 /\ pc' = "data"
          BY <2>0, <3>1 DEF AtaInv, TypeOK, CallOK, Wait, call
        <4> QED BY <2>0, <2>2, <3>1, <4>1, DevTypes
                DEF DevTypeOK, AtaInv, TypeOK, call, Waits
      <3>3. CallOK'
        BY <2>0, <2>4, <3>1, SMTT(60)
        DEF AtaInv, TypeOK, CallOK, AllMoved, Wait, call, Working
      <3>4. (~late => Positions)'
        <4> SUFFICES ASSUME ~late PROVE Positions'
          BY <2>0
        <4>1. dev.left # 1
          BY <2>0, <2>3, <2>4, <3>1 DEF AtaInv, TypeOK, AllMoved
        <4>2. dev' = [busy |-> TRUE, cmd |-> "read", lba |-> dev.lba + 1,
                      left |-> dev.left - 1, sector |-> None]
          BY <2>1, <2>3, <4>1
        <4>3. /\ dev'.cmd = "read" /\ dev'.sector = None
              /\ dev'.lba = dev.lba + 1 /\ dev'.left = dev.left - 1
          BY <4>2
        <4>4. /\ pc' = "data" /\ op' = "read" /\ lba' = lba /\ count' = count /\ moved' = moved + 1
          BY <2>0, <3>1 DEF Wait, call
        <4>5. dev'.lba = lba' + moved' /\ dev'.left = count' - moved'
          BY <2>3, <2>6, <4>3, <4>4
        <4> QED BY <4>3, <4>4, <4>5 DEF Positions
      <3>5. (~late => Arrived)'
        BY <2>0, <2>3, <3>1 DEF Arrived, Wait, call
      <3> QED BY <2>2, <3>2, <3>3, <3>4, <3>5 DEF AtaInv
    <2>5. CASE AllMoved(moved')
      <3>0. Return(TRUE) /\ moved' = count
        BY <1>2, <2>5 DEF ReadSector, AllMoved
      <3>1. Returned(TRUE) /\ moved' = count
        BY <3>0, Returns DEF AtaInv
      <3>2. TypeOK'
        <4>1. moved' \in 0 .. count' /\ polls' \in 0 .. Polls - 1
          BY <2>6, <3>1 DEF Returned
        <4> QED BY <2>0, <2>2, <3>1, <4>1, DevTypes
                DEF Returned, DevTypeOK, AtaInv, TypeOK
      <3>3. CallOK'
        BY <3>1 DEF Returned, AtaInv, CallOK, Stops, Working
      <3>4. (~late => Positions /\ Arrived)'
        <4> SUFFICES ASSUME ~late PROVE (Positions /\ Arrived)'
          BY <2>0
        <4>1. dev' = NoCommand
          <5>1. dev.left = 1
            BY <2>0, <2>3, <2>6, <3>1
          <5> QED BY <2>1, <2>3, <5>1
        <4> QED BY <3>1, <4>1 DEF Positions, Arrived, Returned, Stops, NoCommand
      <3> QED BY <2>2, <3>2, <3>3, <3>4 DEF AtaInv
    <2> QED BY <2>4, <2>5
  <1> QED BY <1>1, <1>2

-----------------------------------------------------------------------------
LEMMA AtaStep == AtaInv /\ [Next]_vars => AtaInv'
  <1> SUFFICES ASSUME AtaInv, [Next]_vars PROVE AtaInv'
    OBVIOUS
  <1>1. CASE Driver
    BY <1>1, ProbeKeeps, IdentifyKeeps, SendKeeps, ReadSectorKeeps, WriteSectorKeeps,
       SendFlushKeeps, FlushedKeeps DEF Driver
  <1>2. CASE UNCHANGED vars
    BY <1>2 DEF vars, driver, call, AtaInv, TypeOK, DevOK, CallOK, Positions, Arrived
  <1> QED BY <1>1, <1>2, StartKeeps, ReadyKeeps, ErrorKeeps DEF Next, Halted

LEMMA AtaAlways == Spec => []AtaInv
  BY AtaInitial, AtaStep, PTL DEF Spec

(* Every variable keeps to its range: the counters of the waits and of the *)
(* retries, the sectors of a call.                                         *)
THEOREM AtaTypeCorrect == Spec => []TypeOK
  BY AtaAlways, PTL DEF AtaInv

(* Driver and drive stay in step.                                          *)
THEOREM DriverInStep == Spec => []InStep
  <1>1. AtaInv => InStep
    BY DEF AtaInv, Positions, InStep
  <1> QED BY <1>1, AtaAlways, PTL

(* What changes the disk is only the drive's taking of a sector.           *)
LEMMA OnlyReadyWrites ==
  ASSUME AtaInv, [Next]_vars, NEW s \in Sectors, disk'[s] # disk[s]
  PROVE  DeviceReady /\ dev.sector # None /\ s = dev.lba
  <1>1. CASE Driver
    BY <1>1 DEF Driver, Probe, Identify, Send, ReadSector, WriteSector, SendFlush, Flushed,
       Awaits, Poll, GiveUp, TryAgain
  <1>2. CASE DeviceReady
    BY <1>2 DEF DeviceReady, AtaInv, TypeOK
  <1> QED BY <1>1, <1>2 DEF Next, Start, Read, Write, Begin, DeviceError, Halted, vars, driver

(* The drive changes no sector but those of the write it was given.        *)
THEOREM WritesStayInPlace == Spec => WritesInPlace
  <1>1. AtaInv /\ [Next]_vars =>
          (~late => \A s \in Sectors :
             disk'[s] # disk[s] =>
               op = "write" /\ pc # "idle" /\ s \in lba .. lba + count - 1)
    <2> SUFFICES ASSUME AtaInv, [Next]_vars, ~late, NEW s \in Sectors, disk'[s] # disk[s]
                 PROVE  op = "write" /\ pc # "idle" /\ s \in lba .. lba + count - 1
      OBVIOUS
    <2>1. dev.sector # None /\ s = dev.lba
      BY OnlyReadyWrites
    <2>2. pc \in {"flush", "flushed"} /\ dev.lba = lba + moved - 1
      BY <2>1 DEF AtaInv, DevOK, Sound, Positions, TypeOK, Stops, Waits
    <2>3. op = "write" /\ moved \in 1 .. count /\ lba \in Nat /\ count \in Nat
      BY <2>2 DEF AtaInv, TypeOK, CallOK, Sectors
    <2> QED BY <2>1, <2>2, <2>3
  <1> QED BY <1>1, AtaAlways, PTL DEF Spec, WritesInPlace

(* A call that returns true has done what it was for.                      *)
THEOREM OkIsTold == Spec => OkIsTrue
  <1>1. AtaInv /\ [Next]_vars =>
          (ReturnsOk /\ ~late => IF op = "read" THEN Moved(got') ELSE dropped \/ Moved(data))
    <2> SUFFICES ASSUME AtaInv, [Next]_vars, ReturnsOk, ~late
                 PROVE  IF op = "read" THEN Moved(got') ELSE dropped \/ Moved(data)
      OBVIOUS
    <2>0. UNCHANGED driver => FALSE
      BY DEF ReturnsOk, driver
    <2>1. CASE pc = "data"
      <3>1. ReadSector \/ WriteSector
        BY <2>0, <2>1 DEF Next, Driver, Start, Read, Write, Begin, DeviceReady, DeviceError,
           Halted, Probe, Identify, Send, SendFlush, Flushed, vars
      <3>2. ~ Awaits(CanMove)
        BY <2>1 DEF ReturnsOk, Awaits, Poll, GiveUp, Return
      <3>3. ~ WriteSector
        BY <2>1, <3>2 DEF ReturnsOk, WriteSector, Wait
      <3>4. /\ op = "read" /\ Drq /\ got' = Append(got, Taken) /\ moved' = moved + 1
            /\ moved' = count
        BY <2>1, <3>1, <3>2, <3>3 DEF ReturnsOk, ReadSector, CanMove, AllMoved, Wait
      <3>5. /\ got' \in Seq(Values) /\ Len(got') = count
            /\ \A i \in 1 .. count : got'[i] = disk[lba + i - 1]
        BY <2>1, <3>4, ReadsOne
      <3>6. Moved(got')
        BY <3>5 DEF Moved
      <3> QED BY <3>4, <3>6
    <2>2. CASE pc = "flushed"
      <3>1. Flushed
        BY <2>0, <2>2 DEF Next, Driver, Start, Read, Write, Begin, DeviceReady, DeviceError,
           Halted, Probe, Identify, Send, ReadSector, WriteSector, SendFlush, vars
      <3>2. ~ Awaits(~dev.busy)
        BY <2>2 DEF ReturnsOk, Awaits, Poll, GiveUp, Return
      <3>3. ~dev.busy /\ moved = count
        BY <3>1, <3>2 DEF ReturnsOk, Flushed, AllMoved, Wait
      <3>4. op = "write" /\ Len(data) = count /\ data \in Seq(Values) /\ dev.sector = None
        BY <2>2, <3>3 DEF AtaInv, CallOK, Working, DevOK, Sound
      <3>5. dropped \/ \A i \in 1 .. count : disk[lba + i - 1] = data[i]
        BY <2>2, <3>3, <3>4 DEF AtaInv, Arrived
      <3>6. dropped \/ Moved(data)
        BY <3>4, <3>5 DEF Moved
      <3> QED BY <3>4, <3>6
    <2> QED BY <2>1, <2>2 DEF ReturnsOk
  <1> QED BY <1>1, AtaAlways, PTL DEF Spec, OkIsTrue
=============================================================================
