------------------------------ MODULE FlashLog ------------------------------
(***************************************************************************)
(* FlashLogStorage: a ring of flash sectors that holds log frames, and the *)
(* index kept in RAM beside it.  Addresses count from config_.start_addr.  *)
(*                                                                         *)
(* append and eraseLogArea hold mutex_ from end to end, so there is one    *)
(* operation at a time; but each of them gives shared_io_mutex_ back       *)
(* between flash commands, any command can fail, and power can go at any   *)
(* moment, so an operation is a sequence of steps.                         *)
(*                                                                         *)
(* A flash cell is erased, garbage, or one byte of a frame.  Two frames    *)
(* with the same bytes do not occur, and a CRC never matches by accident.  *)
(***************************************************************************)
EXTENDS Integers, Sequences, FiniteSets

CONSTANTS
  Sectors,      \* sectors of the log area
  SectorSize,   \* FlashDriver::SECTOR_SIZE
  PageSize,     \* FlashDriver::PAGE_SIZE
  Lens,         \* lengths a frame may have
  SeqCount,       \* sequence numbers are counted modulo this (2^32)
  Faults,       \* what can go wrong: subset of {"power", "command", "wipe"}
  MaxFaults     \* bound: how often something goes wrong

ASSUME FlashAssumption ==
  /\ Sectors \in Nat \ {0}
  /\ SectorSize \in Nat \ {0}
  /\ PageSize \in Nat \ {0}
  /\ Lens \subseteq 1 .. SectorSize
  /\ SeqCount \in Nat \ {0, 1, 2}
  /\ Faults \subseteq {"power", "command", "wipe"}
  /\ MaxFaults \in Nat

VARIABLES
  flash,        \* the cells of the log area
  index,        \* write_addr_, oldest_addr_, newest_addr_, newest_seq_, valid_frame_count_
  op,           \* the operation that holds mutex_, and how far it got
  nextSeq,      \* EventLogger::seq_
  busy,         \* g_flash_maintenance_busy
  faults        \* how often something went wrong

vars == <<flash, index, op, nextSeq, busy, faults>>

AreaSize == Sectors * SectorSize
Addrs == 0 .. AreaSize - 1
Seqs == 0 .. SeqCount - 1

Erased == [seq |-> 0, len |-> 0, off |-> 0]
Garbage == [seq |-> 0, len |-> 0, off |-> 1]
FrameByte(s, n, i) == [seq |-> s, len |-> n, off |-> i]

-----------------------------------------------------------------------------
(* Addresses.                                                              *)
(* Mutant of Wrap: the end of the area counts as inside.                   *)
WrapLate(a) == IF a > AreaSize THEN 0 ELSE a

(* Mutant of Wrap: goes back one sector at the end instead of to the start.*)
WrapOneSector(a) == IF a >= AreaSize THEN AreaSize - SectorSize ELSE a

Wrap(a) == IF a >= AreaSize THEN 0 ELSE a
SectorStart(a) == a - (a % SectorSize)
SectorEnd(a) == SectorStart(a) + SectorSize
IsSectorStart(a) == a % SectorSize = 0

(* nextSectorAddress, which goes one whole sector on from a sector start.  *)
NextSector(a) ==
  IF a % SectorSize = 0 THEN a + SectorSize ELSE a + (SectorSize - (a % SectorSize))

SectorCells(s) == {a \in Addrs : s <= a /\ a < SectorEnd(s)}

(* isSeqNewer: the sign of the difference on the circle of numbers.        *)
Newer(s, t) == (s - t) % SeqCount \in 1 .. (SeqCount - 1) \div 2

(* isValidFrameAt.                                                         *)
ValidAt(fl, a) ==
  /\ fl[a].len > 0 /\ fl[a].off = 0
  /\ a + fl[a].len <= AreaSize
  /\ \A i \in 1 .. fl[a].len - 1 : fl[a + i] = [fl[a] EXCEPT !.off = i]

Frames(fl) == {a \in Addrs : ValidAt(fl, a)}

-----------------------------------------------------------------------------
(* rebuildIndexFromFlash: the frame no other is newer than, the frame that *)
(* is newer than no other, the first of each in address order; the write   *)
(* pointer goes behind the newest, or to the next sector if the byte there *)
(* is not erased.                                                          *)
IsNewest(fl, n) == \A a \in Frames(fl) :
  /\ ~Newer(fl[a].seq, fl[n].seq)
  /\ fl[a].seq = fl[n].seq => n <= a

IsOldest(fl, o) == \A a \in Frames(fl) :
  /\ ~Newer(fl[o].seq, fl[a].seq)
  /\ fl[a].seq = fl[o].seq => o <= a

(* Mutant of CleanFrom: the byte behind the newest frame is not looked at. *)
CleanFromUnchecked(fl, a) == a

CleanFrom(fl, a) == IF fl[a] = Erased THEN a ELSE Wrap(NextSector(a))

EmptyIndex(w) ==
  [write |-> w, oldest |-> 0, newest |-> 0, newestSeq |-> 0, count |-> 0]

Rebuilt(fl, ix) ==
  \/ Frames(fl) = {} /\ ix = EmptyIndex(CleanFrom(fl, 0))
  \/ \E n, o \in Frames(fl) :
       /\ IsNewest(fl, n) /\ IsOldest(fl, o)
       /\ ix = [write |-> CleanFrom(fl, Wrap(n + fl[n].len)),
                oldest |-> o, newest |-> n, newestSeq |-> fl[n].seq,
                count |-> Cardinality(Frames(fl))]

(* Distance of address a from address b, going up and around.              *)
Ahead(a, b) == IF a >= b THEN a - b ELSE a - b + AreaSize

(* Mutant of Invalidated: the oldest frame is not looked for again.        *)
InvalidatedCountOnly(fl, s, ix, new) ==
  LET gone == Cardinality(Frames(fl) \cap SectorCells(s))
  IN  new = [ix EXCEPT !.count = @ - gone]

(* invalidateFramesInErasedSector s: the frames of the sector leave the    *)
(* count; if the oldest was one of them, the first frame found behind the  *)
(* sector takes its place.                                                 *)
Invalidated(fl, s, ix, new) ==
  LET gone == Cardinality(Frames(fl) \cap SectorCells(s))
      behind == Wrap(SectorEnd(s))
  IN  IF ix.count = 0 THEN new = ix
      ELSE IF gone >= ix.count THEN new = EmptyIndex(s)
      ELSE IF ix.oldest \notin SectorCells(s) THEN new = [ix EXCEPT !.count = @ - gone]
      ELSE IF Frames(fl) = {} THEN new = EmptyIndex(ix.write)
      ELSE \E o \in Frames(fl) :
             /\ \A a \in Frames(fl) : Ahead(o, behind) <= Ahead(a, behind)
             /\ new = [ix EXCEPT !.count = @ - gone, !.oldest = o]

(* updateIndexAfterAppend, with the write pointer that append set before.  *)
Updated(ix, a, s, w) ==
  [write |-> w,
   oldest |-> IF ix.count = 0 THEN a ELSE ix.oldest,
   newest |-> a, newestSeq |-> s, count |-> ix.count + 1]

-----------------------------------------------------------------------------
Nothing == [at |-> "idle", addr |-> 0, start |-> 0, len |-> 0, seq |-> 0]
Off == [Nothing EXCEPT !.at = "off"]

(* A chip as delivered, before the first power-up.                         *)
Init ==
  /\ flash = [a \in Addrs |-> Erased]
  /\ index = EmptyIndex(0)
  /\ op = Off
  /\ nextSeq = 0
  /\ busy = FALSE
  /\ faults = 0

(* Mutant of Boot: the number of the newest frame is used again.           *)
BootSameSeq ==
  /\ op.at = "off"
  /\ Rebuilt(flash, index')
  /\ nextSeq' = index'.newestSeq
  /\ op' = Nothing
  /\ busy' = FALSE
  /\ UNCHANGED <<flash, faults>>

(* main: FlashLogStorage::init, then the sequence number is restored.      *)
Boot ==
  /\ op.at = "off"
  /\ Rebuilt(flash, index')
  /\ nextSeq' = IF index'.count > 0 THEN (index'.newestSeq + 1) % SeqCount ELSE 0
  /\ op' = Nothing
  /\ busy' = FALSE
  /\ UNCHANGED <<flash, faults>>

(* Mutant of PlaceFor: a frame may run into the next sector.               *)
PlaceForAnywhere(n) == Wrap(index.write)

(* Where append puts a frame of n bytes: a frame never crosses a sector.   *)
PlaceFor(n) ==
  LET a == Wrap(index.write)
  IN  IF a + n > SectorEnd(a) THEN Wrap(NextSector(a)) ELSE a

(* Mutant of BeginAppend: a sector that is entered is not erased.          *)
BeginAppendNoErase(n, s) ==
  /\ op.at = "idle"
  /\ LET a == PlaceFor(n)
     IN  /\ op' = [at |-> "program", addr |-> a, start |-> a, len |-> n, seq |-> s]
         /\ IF IsSectorStart(a) THEN Invalidated(flash, a, index, index')
                                ELSE index' = index
  /\ UNCHANGED <<flash, busy, faults>>

(* append of a frame of n bytes numbered s, up to its first flash command: *)
(* at a sector start the frames of that sector leave the index before the  *)
(* sector is erased.                                                       *)
BeginAppend(n, s) ==
  /\ op.at = "idle"
  /\ LET a == PlaceFor(n)
     IN  /\ op' = [at |-> IF IsSectorStart(a) THEN "erase" ELSE "program",
                   addr |-> a, start |-> a, len |-> n, seq |-> s]
         /\ IF IsSectorStart(a) THEN Invalidated(flash, a, index, index')
                                ELSE index' = index
  /\ UNCHANGED <<flash, busy, faults>>

(* With one writer the frame that is appended has the latest number.       *)
StartAppend(n) ==
  /\ BeginAppend(n, nextSeq)
  /\ nextSeq' = (nextSeq + 1) % SeqCount

(* Mutant of EraseSector: the command of a block erase.                    *)
EraseBlock ==
  /\ op.at = "erase"
  /\ flash' = [a \in Addrs |-> Erased]
  /\ op' = [op EXCEPT !.at = "program"]
  /\ UNCHANGED <<index, nextSeq, busy, faults>>

(* sectorErase of the sector that append is about to enter.                *)
EraseSector ==
  /\ op.at = "erase"
  /\ flash' = [a \in Addrs |-> IF a \in SectorCells(op.addr) THEN Erased ELSE flash[a]]
  /\ op' = [op EXCEPT !.at = "program"]
  /\ UNCHANGED <<index, nextSeq, busy, faults>>

(* Bytes of the next page program: up to the end of the page.              *)
Chunk ==
  LET remaining == op.start + op.len - op.addr
      pageRemain == PageSize - (op.addr % PageSize)
  IN  IF remaining < pageRemain THEN remaining ELSE pageRemain

ChunkCells == {a \in Addrs : op.addr <= a /\ a < op.addr + Chunk}

(* Programming only clears bits: on a cell that is not erased it leaves a  *)
(* byte that is neither the old nor the new one.                           *)
Programmed(a) ==
  IF flash[a] = Erased THEN FrameByte(op.seq, op.len, a - op.start) ELSE Garbage

ProgramPage ==
  /\ op.at = "program"
  /\ op.addr + Chunk <= AreaSize
  /\ flash' = [a \in Addrs |-> IF a \in ChunkCells THEN Programmed(a) ELSE flash[a]]
  /\ op' = [op EXCEPT !.addr = @ + Chunk,
                      !.at = IF op.addr + Chunk = op.start + op.len
                             THEN "verify" ELSE "program"]
  /\ UNCHANGED <<index, nextSeq, busy, faults>>

(* The frame is read back; if it is not valid the index is rebuilt.        *)
Verify ==
  /\ op.at = "verify"
  /\ IF ValidAt(flash, op.start)
     THEN index' = Updated(index, op.start, flash[op.start].seq, Wrap(op.addr))
     ELSE Rebuilt(flash, index')
  /\ op' = Nothing
  /\ UNCHANGED <<flash, nextSeq, busy, faults>>

-----------------------------------------------------------------------------
(* eraseLogArea: sector by sector, with the maintenance flag raised.       *)
StartWipe ==
  /\ op.at = "idle"
  /\ busy' = TRUE
  /\ op' = [Nothing EXCEPT !.at = "wipe"]
  /\ UNCHANGED <<flash, index, nextSeq, faults>>

WipeSector ==
  /\ op.at = "wipe" /\ op.addr < AreaSize
  /\ flash' = [a \in Addrs |-> IF a \in SectorCells(op.addr) THEN Erased ELSE flash[a]]
  /\ op' = [op EXCEPT !.addr = @ + SectorSize]
  /\ UNCHANGED <<index, nextSeq, busy, faults>>

(* Mutant of EndWipe: the index still names the erased frames.             *)
EndWipeStaleIndex ==
  /\ op.at = "wipe" /\ op.addr = AreaSize
  /\ busy' = FALSE
  /\ op' = Nothing
  /\ UNCHANGED <<flash, index, faults>>

(* The end of eraseLogArea.                                                *)
EndWipe ==
  /\ op.at = "wipe" /\ op.addr = AreaSize
  /\ busy' = FALSE
  /\ index' = EmptyIndex(0)
  /\ op' = Nothing
  /\ UNCHANGED <<flash, faults>>

(* With nobody logging meanwhile, the command task's setNextSeq(0) follows *)
(* at once.                                                                *)
FinishWipe == EndWipe /\ nextSeq' = 0

-----------------------------------------------------------------------------
(* What a flash command that was cut short leaves behind: of a program,    *)
(* any cell may be untouched, done or garbage; of an erase, any frame may  *)
(* still be readable and the rest is erased or garbage.                    *)
TornProgram(fl) ==
  \E torn \in [ChunkCells -> {"old", "new", "bad"}] :
    fl = [a \in Addrs |->
            IF a \notin ChunkCells THEN flash[a]
            ELSE CASE torn[a] = "old" -> flash[a]
                   [] torn[a] = "new" -> Programmed(a)
                   [] torn[a] = "bad" -> Garbage]

CellsOfFrames(fs) == {a \in Addrs : \E f \in fs : f <= a /\ a < f + flash[f].len}

TornErase(fl) ==
  \E kept \in SUBSET (Frames(flash) \cap SectorCells(op.addr)),
     rest \in {Erased, Garbage} :
    fl = [a \in Addrs |-> IF a \in SectorCells(op.addr) \ CellsOfFrames(kept)
                          THEN rest ELSE flash[a]]

Torn(fl) ==
  \/ op.at = "program" /\ TornProgram(fl)
  \/ op.at = "erase" /\ TornErase(fl)
  \/ op.at = "wipe" /\ op.addr < AreaSize /\ TornErase(fl)

Fault(kind) ==
  /\ kind \in Faults /\ faults < MaxFaults
  /\ faults' = faults + 1

(* shared_io_mutex_ cannot be had in time, or the driver reports failure   *)
(* (the chip may have done all, part or nothing of the command): append    *)
(* rebuilds the index and gives up.                                        *)
AppendFails ==
  /\ Fault("command")
  /\ op.at \in {"erase", "program"}
  /\ flash' = flash \/ Torn(flash')
  /\ Rebuilt(flash', index')
  /\ op' = Nothing
  /\ UNCHANGED <<nextSeq, busy>>

(* The same in eraseLogArea, which just returns.                           *)
WipeFails ==
  /\ Fault("wipe")
  /\ op.at = "wipe" /\ op.addr < AreaSize
  /\ flash' = flash \/ Torn(flash')
  /\ op' = Nothing
  /\ UNCHANGED <<index, nextSeq, busy>>

(* Power is lost; RAM is gone and a command under way is cut short.        *)
PowerLoss ==
  /\ Fault("power")
  /\ op.at # "off"
  /\ flash' = flash \/ Torn(flash')
  /\ op' = Off
  /\ index' = EmptyIndex(0)
  /\ nextSeq' = 0
  /\ busy' = FALSE

Next ==
  \/ Boot
  \/ \E n \in Lens : StartAppend(n)
  \/ EraseSector \/ ProgramPage \/ Verify
  \/ StartWipe \/ WipeSector \/ FinishWipe
  \/ AppendFails \/ WipeFails \/ PowerLoss

Spec == Init /\ [][Next]_vars

-----------------------------------------------------------------------------
(* The elements of S, put in the order of before.                          *)
Sorted(S, before(_, _)) ==
  [i \in 1 .. Cardinality(S) |->
     CHOOSE a \in S : Cardinality({b \in S : before(b, a)}) = i - 1]

(* Mutant of Walk: in address order from the start of the area.            *)
WalkFromStart ==
  LET around == Sorted(Frames(flash), LAMBDA a, b : a < b)
  IN  IF index.count = 0 THEN <<>> ELSE around

(* sendFramesOldestFirst: once around the area from oldest_addr_ on, frame *)
(* by frame, up to the first one that carries newest_seq_.  It holds       *)
(* mutex_, so flash and index stand still while it runs.                   *)
Walk ==
  LET around == Sorted(Frames(flash), LAMBDA a, b :
                  Ahead(a, index.oldest) < Ahead(b, index.oldest))
      stops == {i \in DOMAIN around : flash[around[i]].seq = index.newestSeq}
      last == IF stops = {} THEN Len(around)
              ELSE CHOOSE i \in stops : \A j \in stops : i <= j
  IN  IF index.count = 0 THEN <<>> ELSE SubSeq(around, 1, last)

(* Mutant of Latest: one frame too many is skipped.                        *)
LatestShort(n) ==
  LET target == IF n > index.count THEN index.count ELSE n
  IN  SubSeq(Walk, index.count - target + 2, Len(Walk))

(* sendLatestFrames(n): skips count - n frames of the same walk.           *)
Latest(n) ==
  LET target == IF n > index.count THEN index.count ELSE n
  IN  SubSeq(Walk, index.count - target + 1, Len(Walk))

(* The frames in flash by age, oldest first: what a reader should get.     *)
ByAge == Sorted(Frames(flash), LAMBDA a, b :
           \/ Newer(flash[b].seq, flash[a].seq)
           \/ flash[a].seq = flash[b].seq /\ a < b)

-----------------------------------------------------------------------------
Cell == [seq : Seqs, len : Lens, off : 0 .. SectorSize - 1] \cup {Erased, Garbage}

Index == [write : Addrs, oldest : Addrs, newest : Addrs, newestSeq : Seqs, count : Int]

(* Every variable has its type.                                            *)
TypeOK ==
  /\ flash \in [Addrs -> Cell]
  /\ index \in Index
  /\ op \in [at : {"off", "idle", "erase", "program", "verify", "wipe"},
             addr : 0 .. AreaSize, start : Addrs, len : Lens \cup {0}, seq : Seqs]
  /\ nextSeq \in Seqs
  /\ busy \in BOOLEAN
  /\ faults \in Nat

(* Between operations the index in RAM says what is in flash, however the  *)
(* last append ended and whatever was rebuilt after a restart.  An erase   *)
(* of the area that failed half way leaves the index stale until a restart *)
(* or an erase that succeeds; its mark is the busy flag it left up.        *)
IndexMatchesFlash ==
  op.at = "idle" /\ ~busy =>
    /\ index.count = Cardinality(Frames(flash))
    /\ index.count > 0 => /\ index.oldest \in Frames(flash)
                          /\ index.newest \in Frames(flash)
                          /\ IsOldest(flash, index.oldest)
                          /\ IsNewest(flash, index.newest)
                          /\ index.newestSeq = flash[index.newest].seq

(* Command 'a' (sendFramesOldestFirst) sends every stored frame, by age,   *)
(* as long as the index is not stale.                                      *)
SendsAllOldestFirst == op.at = "idle" /\ ~busy => Walk = ByAge

(* Command 'lN' (sendLatestFrames) sends the N newest frames, by age, or   *)
(* all of them if there are fewer, as long as the index is not stale.      *)
SendsLatest ==
  op.at = "idle" /\ ~busy => \A n \in 1 .. Len(ByAge) + 1 :
    Latest(n) = SubSeq(ByAge, IF n > Len(ByAge) THEN 1 ELSE Len(ByAge) - n + 1, Len(ByAge))

(* Until something has failed, append programs erased cells only, so that  *)
(* a frame is stored as built.                                             *)
ProgramsErasedCells ==
  faults = 0 /\ op.at = "program" =>
    \A a \in Addrs : op.addr <= a /\ a < op.start + op.len => flash[a] = Erased

(* A frame lies inside one sector and inside the log area: the branch of   *)
(* append for a frame that crosses the log end is never taken, and no page *)
(* program crosses a page.                                                 *)
AppendStaysInSector ==
  op.at \in {"erase", "program"} =>
    /\ op.start <= op.addr /\ op.addr < op.start + op.len
    /\ op.start + op.len <= SectorEnd(op.start)
    /\ op.addr + Chunk <= AreaSize
    /\ Chunk <= PageSize - (op.addr % PageSize)

(* A flash command changes cells of one sector only, the one its operation *)
(* works in, whether it completes, fails or is cut short by power loss.    *)
OtherSectorsUntouched ==
  [][\A a \in Addrs : flash'[a] # flash[a] =>
       \/ /\ op.at \in {"erase", "program"}
          /\ SectorStart(a) = SectorStart(op.start)
       \/ /\ op.at = "wipe"
          /\ SectorStart(a) = op.addr]_vars

(* After a restart the logger numbers on from where the stored frames end: *)
(* the next number is newer than every stored one.  An erase keeps to this *)
(* only if nobody logs meanwhile.                                          *)
NextSeqIsFresh ==
  op.at # "off" => \A a \in Frames(flash) : Newer(nextSeq, flash[a].seq)

(* A frame that fails its read-back costs one frame, as long as the index  *)
(* was not stale: the rebuilt one points to a sector that will be erased   *)
(* or to cells that are erased.                                            *)
CleanPlace(w) ==
  \/ IsSectorStart(w)
  \/ \A a \in Addrs : w <= a /\ a < SectorEnd(w) => flash[a] = Erased

VerifyFailureHeals ==
  [][op.at = "verify" /\ ~busy /\ ~ValidAt(flash, op.start) => CleanPlace(index'.write)]_vars

(* Seen from outside the storage is a list that loses frames only at its   *)
(* old end, whatever fails and whenever power goes.                        *)
MostFrames == SectorSize \div (CHOOSE n \in Lens : \A m \in Lens : n <= m)

Store == INSTANCE LogStore WITH
  SectorFrames <- MostFrames,
  log <- [i \in DOMAIN ByAge |-> flash[ByAge[i]].seq],
  wiping <- op.at = "wipe"

ImplementsLogStore == Store!Spec

(* FlashBusy.h's flag means that the log area is being erased: the sensor  *)
(* tasks do nothing while it is up.                                        *)
BusyOnlyDuringWipe == busy => op.at = "wipe"
=============================================================================
