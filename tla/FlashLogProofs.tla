--------------------------- MODULE FlashLogProofs ---------------------------
(***************************************************************************)
(* Theorems about FlashLog, for every geometry of the log area, every set  *)
(* of frame lengths that fit a sector and every pattern of faults: append  *)
(* stays inside one sector and inside the log area, no step changes a      *)
(* flash cell outside the sector it works on, and until something fails    *)
(* append programs erased cells only.                                      *)
(*                                                                         *)
(* Behind them the invariants that everything else about the log rests on: *)
(* the index in RAM counts the frames in flash, and a frame that is        *)
(* written, or an index that is rebuilt, keeps the frames in the order of  *)
(* their age around the write pointer.                                     *)
(***************************************************************************)
EXTENDS FlashLog, FiniteSetTheorems, SequenceTheorems, TLAPS

(* The types of what the storage keeps; the number of the next event is    *)
(* not its own.                                                            *)
StorageType ==
  /\ flash \in [Addrs -> Cell]
  /\ index \in Index
  /\ op \in [at : {"off", "idle", "erase", "program", "verify", "wipe"},
             addr : 0 .. AreaSize, start : Addrs, len : Lens \cup {0}, seq : Seqs]
  /\ busy \in BOOLEAN
  /\ faults \in Nat

(* How far an operation got, and where that puts its addresses.            *)
OpShape ==
  /\ op.at \in {"erase", "program", "verify"} =>
       /\ op.len \in Lens
       /\ op.start + op.len <= SectorEnd(op.start)
  /\ op.at \in {"erase", "program"} =>
       /\ op.start <= op.addr
       /\ op.addr < op.start + op.len
  /\ op.at = "erase" => op.addr = op.start /\ IsSectorStart(op.addr)
  /\ op.at = "verify" => op.addr = op.start + op.len
  /\ op.at = "wipe" => IsSectorStart(op.addr)

(* The inductive invariant, whoever numbers the frames.                    *)
Inv == StorageType /\ OpShape

-----------------------------------------------------------------------------
(* Arithmetic of sectors.                                                  *)

LEMMA ModRange ==
  ASSUME NEW S \in Nat \ {0}, NEW a \in Nat
  PROVE  a % S \in 0 .. S - 1 /\ 0 % S = 0
OBVIOUS

LEMMA DivMod ==
  ASSUME NEW S \in Nat \ {0}, NEW a \in Nat
  PROVE  a \div S \in Nat /\ a = S * (a \div S) + (a % S)
OBVIOUS

LEMMA MultipleMod ==
  ASSUME NEW S \in Nat \ {0}, NEW q \in Nat
  PROVE  (S * q) % S = 0
OBVIOUS

LEMMA LastMultiple ==
  ASSUME NEW S \in Nat \ {0}, NEW N \in Nat, NEW a \in Nat, a < N * S
  PROVE  a - (a % S) + S <= N * S
<1>1. a \div S < N
  OBVIOUS
<1>2. S * (a \div S) + S <= N * S
  BY <1>1, DivMod
<1> QED
  BY <1>2, DivMod, ModRange

(* The log area holds at least one cell, and Wrap leads into it.           *)
LEMMA AreaPositive == AreaSize \in Nat /\ AreaSize > 0 /\ SectorSize \in Nat \ {0}
BY FlashAssumption DEF AreaSize

LEMMA WrapInArea ==
  ASSUME NEW a \in Nat
  PROVE  Wrap(a) \in Addrs
BY AreaPositive DEF Wrap, Addrs

LEMMA LensNat == \A n \in Lens : n \in Nat /\ n \in 1 .. SectorSize
BY FlashAssumption

(* The sector of an address of the area lies in the area.                  *)
LEMMA SectorInArea ==
  ASSUME NEW a \in Addrs
  PROVE  /\ SectorStart(a) \in Nat /\ SectorStart(a) <= a
         /\ SectorEnd(a) = SectorStart(a) + SectorSize
         /\ a < SectorEnd(a) /\ SectorEnd(a) <= AreaSize
         /\ IsSectorStart(a) => SectorStart(a) = a
<1>1. SectorSize \in Nat \ {0} /\ Sectors \in Nat /\ a \in Nat /\ a < Sectors * SectorSize
  BY FlashAssumption, AreaPositive DEF Addrs, AreaSize
<1>2. a % SectorSize \in 0 .. SectorSize - 1
  BY <1>1, ModRange
<1>3. a - (a % SectorSize) + SectorSize <= Sectors * SectorSize
  BY <1>1, LastMultiple
<1>4. a - (a % SectorSize) \in Nat
  <2>1. a \div SectorSize \in Nat /\ a = SectorSize * (a \div SectorSize) + (a % SectorSize)
    BY <1>1, DivMod
  <2>2. SectorSize * (a \div SectorSize) \in Nat
    BY <1>1, <2>1
  <2> QED
    BY <1>1, <1>2, <2>1, <2>2
<1> QED
  BY <1>1, <1>2, <1>3, <1>4 DEF SectorStart, SectorEnd, IsSectorStart, AreaSize

(* nextSectorAddress leads to a sector start, also after wrapping.         *)
LEMMA NextSectorAligned ==
  ASSUME NEW a \in Nat
  PROVE  /\ NextSector(a) \in Nat
         /\ IsSectorStart(NextSector(a))
         /\ IsSectorStart(Wrap(NextSector(a)))
<1>1. SectorSize \in Nat \ {0}
  BY AreaPositive
<1>2. a % SectorSize \in 0 .. SectorSize - 1
  BY <1>1, ModRange
<1>3. a \div SectorSize \in Nat /\ a = SectorSize * (a \div SectorSize) + (a % SectorSize)
  BY <1>1, DivMod
<1>4. NextSector(a) = SectorSize * (a \div SectorSize + 1)
  <2>1. SectorSize * (a \div SectorSize + 1) = SectorSize * (a \div SectorSize) + SectorSize
    BY <1>1, <1>3
  <2> QED
    BY <1>1, <1>2, <1>3, <2>1 DEF NextSector
<1>5. (SectorSize * (a \div SectorSize + 1)) % SectorSize = 0
  BY <1>1, <1>3, MultipleMod, a \div SectorSize + 1 \in Nat
<1>6. NextSector(a) \in Nat
  BY <1>1, <1>2 DEF NextSector
<1>7. 0 % SectorSize = 0
  BY <1>1, ModRange
<1> QED
  BY <1>4, <1>5, <1>6, <1>7 DEF IsSectorStart, Wrap

-----------------------------------------------------------------------------
(* Types of what the operators return.                                     *)

LEMMA CellFields ==
  ASSUME NEW c \in Cell
  PROVE  c.seq \in Seqs /\ (c.len > 0 => c.len \in Lens)
BY FlashAssumption DEF Cell, Erased, Garbage, Seqs

LEMMA FramesFinite ==
  ASSUME NEW fl
  PROVE  /\ Frames(fl) \subseteq Addrs
         /\ IsFiniteSet(Frames(fl)) /\ Cardinality(Frames(fl)) \in Nat
         /\ \A s : Cardinality(Frames(fl) \cap SectorCells(s)) \in Nat
<1>1. IsFiniteSet(Addrs)
  BY AreaPositive, FS_Interval DEF Addrs
<1>2. Frames(fl) \subseteq Addrs
  BY DEF Frames
<1>3. IsFiniteSet(Frames(fl)) /\ Cardinality(Frames(fl)) \in Nat
  BY <1>1, <1>2, FS_Subset, FS_CardinalityType
<1>4. ASSUME NEW s
      PROVE  Cardinality(Frames(fl) \cap SectorCells(s)) \in Nat
  <2>1. IsFiniteSet(Frames(fl) \cap SectorCells(s))
    BY <1>3, FS_Subset, Frames(fl) \cap SectorCells(s) \subseteq Frames(fl)
  <2> QED
    BY <2>1, FS_CardinalityType
<1> QED
  BY <1>2, <1>3, <1>4

LEMMA EmptyIndexType ==
  ASSUME NEW w \in Addrs
  PROVE  EmptyIndex(w) \in Index
BY AreaPositive, FlashAssumption DEF EmptyIndex, Index, Addrs, Seqs

LEMMA CleanFromType ==
  ASSUME NEW fl, NEW a \in Addrs
  PROVE  CleanFrom(fl, a) \in Addrs
<1>1. a \in Nat
  BY AreaPositive DEF Addrs
<1> QED
  BY <1>1, NextSectorAligned, WrapInArea DEF CleanFrom

LEMMA RebuiltType ==
  ASSUME NEW fl \in [Addrs -> Cell], NEW ix, Rebuilt(fl, ix)
  PROVE  ix \in Index
<1>1. CASE Frames(fl) = {} /\ ix = EmptyIndex(CleanFrom(fl, 0))
  BY <1>1, EmptyIndexType, CleanFromType, AreaPositive, 0 \in Addrs DEF Addrs
<1>2. CASE \E n, o \in Frames(fl) :
             /\ IsNewest(fl, n) /\ IsOldest(fl, o)
             /\ ix = [write |-> CleanFrom(fl, Wrap(n + fl[n].len)),
                      oldest |-> o, newest |-> n, newestSeq |-> fl[n].seq,
                      count |-> Cardinality(Frames(fl))]
  <2>1. PICK n, o \in Frames(fl) :
               ix = [write |-> CleanFrom(fl, Wrap(n + fl[n].len)),
                     oldest |-> o, newest |-> n, newestSeq |-> fl[n].seq,
                     count |-> Cardinality(Frames(fl))]
    BY <1>2
  <2>2. n \in Addrs /\ o \in Addrs /\ fl[n] \in Cell /\ fl[n].len > 0
    BY FramesFinite DEF Frames, ValidAt
  <2>3. fl[n].seq \in Seqs /\ fl[n].len \in Lens
    BY <2>2, CellFields
  <2>4. n + fl[n].len \in Nat
    <3>1. n \in Nat
      BY <2>2, AreaPositive DEF Addrs
    <3>2. fl[n].len \in Nat
      BY <2>3, LensNat
    <3> QED
      BY <3>1, <3>2
  <2>5. CleanFrom(fl, Wrap(n + fl[n].len)) \in Addrs
    BY <2>4, WrapInArea, CleanFromType
  <2>6. Cardinality(Frames(fl)) \in Int
    BY FramesFinite
  <2> QED
    BY <2>1, <2>2, <2>3, <2>5, <2>6 DEF Index
<1> QED
  BY <1>1, <1>2 DEF Rebuilt

LEMMA InvalidatedType ==
  ASSUME NEW fl \in [Addrs -> Cell], NEW s \in Addrs, NEW ix \in Index, NEW new,
         Invalidated(fl, s, ix, new)
  PROVE  new \in Index
<1> DEFINE gone == Cardinality(Frames(fl) \cap SectorCells(s))
<1>1. gone \in Nat
  BY FramesFinite
<1>2. ix.count \in Int /\ ix.count - gone \in Int /\ ix.write \in Addrs
  BY <1>1 DEF Index
<1>3. [ix EXCEPT !.count = @ - gone] \in Index
  BY <1>2 DEF Index
<1>4. ASSUME NEW o \in Frames(fl)
      PROVE  [ix EXCEPT !.count = @ - gone, !.oldest = o] \in Index
  BY <1>2, FramesFinite DEF Index
<1>5. EmptyIndex(s) \in Index /\ EmptyIndex(ix.write) \in Index
  BY <1>2, EmptyIndexType
<1> QED
  BY <1>3, <1>4, <1>5 DEF Invalidated

(* append finds a place where the whole frame fits into one sector.        *)
LEMMA PlaceFits ==
  ASSUME NEW n \in Lens, index \in Index
  PROVE  /\ PlaceFor(n) \in Addrs
         /\ PlaceFor(n) + n <= SectorEnd(PlaceFor(n))
<1> DEFINE a == Wrap(index.write)
<1>1. n \in 1 .. SectorSize /\ SectorSize \in Nat
  BY FlashAssumption
<1>2. a \in Addrs /\ a \in Nat
  BY WrapInArea, AreaPositive DEF Index, Addrs
<1>3. CASE a + n > SectorEnd(a)
  <2>1. PlaceFor(n) = Wrap(NextSector(a))
    BY <1>3 DEF PlaceFor
  <2>2. Wrap(NextSector(a)) \in Addrs /\ IsSectorStart(Wrap(NextSector(a)))
    BY <1>2, NextSectorAligned, WrapInArea
  <2>3. SectorEnd(Wrap(NextSector(a))) = Wrap(NextSector(a)) + SectorSize
    BY <2>2, SectorInArea
  <2>4. Wrap(NextSector(a)) \in Nat
    BY <2>2, AreaPositive DEF Addrs
  <2> QED
    BY <1>1, <2>1, <2>2, <2>3, <2>4
<1>4. CASE ~(a + n > SectorEnd(a))
  <2>1. PlaceFor(n) = a
    BY <1>4 DEF PlaceFor
  <2>2. SectorEnd(a) \in Nat
    BY <1>2, SectorInArea, <1>1
  <2> QED
    BY <1>1, <1>2, <1>4, <2>1, <2>2
<1> QED
  BY <1>3, <1>4

(* The next page program writes at least one byte and ends with the frame. *)
LEMMA ChunkFits ==
  ASSUME Inv, op.at = "program"
  PROVE  /\ Chunk \in Nat \ {0}
         /\ op.addr + Chunk <= op.start + op.len
         /\ op.start + op.len <= AreaSize
         /\ op.start + op.len - op.start <= SectorSize
         /\ Chunk <= PageSize - (op.addr % PageSize)
<1>1. op.addr \in Nat /\ op.start \in Addrs /\ op.start \in Nat /\ op.len \in 1 .. SectorSize
  BY LensNat, AreaPositive DEF Inv, StorageType, OpShape, Addrs
<1>2. op.addr % PageSize \in 0 .. PageSize - 1 /\ PageSize \in Nat \ {0}
  BY <1>1, ModRange, FlashAssumption
<1>3. op.start <= op.addr /\ op.addr < op.start + op.len /\ op.start + op.len <= SectorEnd(op.start)
  BY DEF Inv, OpShape
<1>4. SectorEnd(op.start) <= AreaSize /\ SectorEnd(op.start) \in Nat
  BY <1>1, SectorInArea, AreaPositive
<1> QED
  BY <1>1, <1>2, <1>3, <1>4, AreaPositive DEF Chunk

(* Whatever a program or an erase leaves in flash is made of cells.        *)
LEMMA ProgrammedType ==
  ASSUME Inv, op.at = "program", NEW a \in ChunkCells
  PROVE  Programmed(a) \in Cell /\ Garbage \in Cell
<1>1. op.len \in Lens /\ op.seq \in Seqs /\ op.start \in Nat /\ op.addr \in Nat
  BY AreaPositive DEF Inv, StorageType, OpShape, Addrs
<1>2. op.len \in 1 .. SectorSize /\ SectorSize \in Nat
  BY <1>1, LensNat, AreaPositive
<1>3. a \in Nat /\ op.addr <= a /\ a < op.addr + Chunk
  BY AreaPositive DEF ChunkCells, Addrs
<1>4. op.start <= op.addr /\ op.addr + Chunk <= op.start + op.len /\ Chunk \in Nat
  BY ChunkFits DEF Inv, OpShape
<1>5. a - op.start \in 0 .. SectorSize - 1
  BY <1>1, <1>2, <1>3, <1>4
<1>6. FrameByte(op.seq, op.len, a - op.start) \in Cell
  BY <1>1, <1>5 DEF FrameByte, Cell
<1> QED
  BY <1>6 DEF Programmed, Cell

LEMMA TornType ==
  ASSUME Inv, NEW fl, fl = flash \/ Torn(fl)
  PROVE  fl \in [Addrs -> Cell]
<1>1. flash \in [Addrs -> Cell] /\ Garbage \in Cell /\ Erased \in Cell
  BY DEF Inv, StorageType, Cell
<1>2. CASE op.at = "program" /\ TornProgram(fl)
  <2>1. PICK torn \in [ChunkCells -> {"old", "new", "bad"}] :
          fl = [a \in Addrs |->
                  IF a \notin ChunkCells THEN flash[a]
                  ELSE CASE torn[a] = "old" -> flash[a]
                         [] torn[a] = "new" -> Programmed(a)
                         [] torn[a] = "bad" -> Garbage]
    BY <1>2 DEF TornProgram
  <2>2. ASSUME NEW a \in Addrs
        PROVE  (IF a \notin ChunkCells THEN flash[a]
                ELSE CASE torn[a] = "old" -> flash[a]
                       [] torn[a] = "new" -> Programmed(a)
                       [] torn[a] = "bad" -> Garbage) \in Cell
    <3>1. CASE a \notin ChunkCells
      BY <1>1, <3>1
    <3>2. CASE a \in ChunkCells
      <4>1. torn[a] \in {"old", "new", "bad"}
        BY <3>2
      <4>2. flash[a] \in Cell /\ Programmed(a) \in Cell
        BY <1>1, <1>2, <3>2, ProgrammedType
      <4> QED
        BY <1>1, <3>2, <4>1, <4>2
    <3> QED
      BY <3>1, <3>2
  <2> QED
    BY <2>1, <2>2
<1>3. CASE TornErase(fl)
  <2>1. PICK kept \in SUBSET (Frames(flash) \cap SectorCells(op.addr)), rest \in {Erased, Garbage} :
          fl = [a \in Addrs |-> IF a \in SectorCells(op.addr) \ CellsOfFrames(kept)
                                THEN rest ELSE flash[a]]
    BY <1>3 DEF TornErase
  <2> QED
    BY <1>1, <2>1
<1> QED
  BY <1>1, <1>2, <1>3 DEF Torn

-----------------------------------------------------------------------------
(* Inv is inductive.                                                       *)

LEMMA InitInv == Init => Inv
<1> SUFFICES ASSUME Init
             PROVE  Inv
  OBVIOUS
<1>1. 0 \in Addrs /\ 0 \in 0 .. AreaSize /\ 0 \in Seqs
  BY AreaPositive, FlashAssumption DEF Addrs, Seqs
<1>2. flash \in [Addrs -> Cell]
  BY DEF Init, Cell
<1>3. index \in Index
  BY <1>1, EmptyIndexType DEF Init
<1> QED
  BY <1>1, <1>2, <1>3 DEF Init, Inv, StorageType, OpShape, Off, Nothing

(* The steps of the storage, with frames numbered by anybody.              *)
StorageVars == <<flash, index, op, busy, faults>>

StorageStep ==
  \/ Boot
  \/ \E n \in Lens, s \in Seqs : BeginAppend(n, s)
  \/ EraseSector \/ ProgramPage \/ Verify
  \/ StartWipe \/ WipeSector \/ EndWipe
  \/ AppendFails \/ WipeFails \/ PowerLoss

LEMMA StepInv == Inv /\ [StorageStep]_StorageVars => Inv'
<1> SUFFICES ASSUME Inv, [StorageStep]_StorageVars
             PROVE  Inv'
  OBVIOUS
<1>a. StorageType /\ OpShape
  BY DEF Inv
<1>b. 0 \in Addrs /\ 0 \in 0 .. AreaSize /\ 0 \in Seqs /\ SeqCount \in Nat \ {0}
  BY AreaPositive, FlashAssumption DEF Addrs, Seqs
<1>c. \A s \in Seqs : (s + 1) % SeqCount \in Seqs
  BY <1>b, ModRange DEF Seqs
<1>d. Erased \in Cell
  BY DEF Cell
<1>e. op \in [at : {"off", "idle", "erase", "program", "verify", "wipe"},
               addr : 0 .. AreaSize, start : Addrs, len : Lens \cup {0}, seq : Seqs]
  BY <1>a DEF StorageType
<1>1. CASE Boot
  <2>1. index' \in Index
    BY <1>1, <1>a, RebuiltType DEF Boot, StorageType
  <2> QED
    BY <1>1, <1>a, <1>b, <2>1 DEF Boot, Inv, StorageType, OpShape, Nothing
<1>2. ASSUME NEW n \in Lens, NEW s \in Seqs, BeginAppend(n, s)
      PROVE  Inv'
  <2> DEFINE a == PlaceFor(n)
  <2>1. a \in Addrs /\ a + n <= SectorEnd(a) /\ a \in 0 .. AreaSize /\ a \in Nat
    BY <1>a, PlaceFits, AreaPositive DEF StorageType, Addrs
  <2>2. index' \in Index
    BY <1>2, <1>a, <2>1, InvalidatedType DEF BeginAppend, StorageType
  <2>3. op' = [at |-> IF IsSectorStart(a) THEN "erase" ELSE "program",
               addr |-> a, start |-> a, len |-> n, seq |-> s]
    BY <1>2 DEF BeginAppend
  <2>4. a < a + n
    BY <2>1, LensNat
  <2>5. OpShape'
    BY <2>1, <2>3, <2>4 DEF OpShape
  <2> QED
    BY <1>2, <1>a, <2>1, <2>2, <2>3, <2>5 DEF BeginAppend, Inv, StorageType
<1>3. CASE EraseSector
  <2>1. flash' \in [Addrs -> Cell]
    BY <1>3, <1>a, <1>d DEF EraseSector, StorageType
  <2>2. op' = [op EXCEPT !.at = "program"]
    BY <1>3 DEF EraseSector
  <2>3. op'.at = "program" /\ op'.addr = op.addr /\ op'.start = op.start
          /\ op'.len = op.len /\ op'.seq = op.seq
    BY <2>2, <1>e
  <2>4. OpShape'
    BY <1>3, <1>a, <2>3 DEF OpShape, EraseSector
  <2> QED
    BY <1>3, <1>a, <1>e, <2>1, <2>2, <2>4 DEF EraseSector, Inv, StorageType
<1>4. CASE ProgramPage
  <2>1. \A a \in ChunkCells : Programmed(a) \in Cell
    BY <1>4, ProgrammedType DEF ProgramPage
  <2>2. flash' \in [Addrs -> Cell]
    BY <1>4, <1>a, <2>1 DEF ProgramPage, StorageType
  <2>3. /\ Chunk \in Nat \ {0} /\ op.addr \in Nat /\ op.start \in Nat /\ op.len \in Nat
        /\ op.addr + Chunk <= op.start + op.len /\ op.addr + Chunk <= AreaSize
        /\ op.start <= op.addr /\ AreaSize \in Nat
    BY <1>4, <1>a, ChunkFits, LensNat, AreaPositive DEF ProgramPage, StorageType, OpShape, Addrs
  <2>4. op' = [op EXCEPT !.addr = @ + Chunk,
                         !.at = IF op.addr + Chunk = op.start + op.len
                                THEN "verify" ELSE "program"]
    BY <1>4 DEF ProgramPage
  <2>5. /\ op'.at = (IF op.addr + Chunk = op.start + op.len THEN "verify" ELSE "program")
        /\ op'.addr = op.addr + Chunk
        /\ op'.start = op.start /\ op'.len = op.len /\ op'.seq = op.seq
    BY <2>4, <1>e
  <2>6. OpShape'
    BY <1>4, <1>a, <2>3, <2>5 DEF OpShape, ProgramPage
  <2>7. op.addr + Chunk \in 0 .. AreaSize
    BY <2>3
  <2>8. op' \in [at : {"off", "idle", "erase", "program", "verify", "wipe"},
                 addr : 0 .. AreaSize, start : Addrs, len : Lens \cup {0}, seq : Seqs]
    BY <1>e, <2>4, <2>7
  <2> QED
    BY <1>4, <1>a, <2>2, <2>6, <2>8 DEF ProgramPage, Inv, StorageType
<1>5. CASE Verify
  <2>1. index' \in Index
    <3>1. CASE ValidAt(flash, op.start)
      <4>1. index' = Updated(index, op.start, flash[op.start].seq, Wrap(op.addr))
        BY <1>5, <3>1 DEF Verify
      <4>2. op.start \in Addrs /\ op.addr \in Nat /\ flash[op.start] \in Cell
        BY <1>a, <1>e, AreaPositive DEF StorageType
      <4>3. flash[op.start].seq \in Seqs /\ Wrap(op.addr) \in Addrs
        BY <4>2, CellFields, WrapInArea
      <4> QED
        BY <1>a, <4>1, <4>2, <4>3 DEF Updated, Index, StorageType
    <3>2. CASE ~ValidAt(flash, op.start)
      BY <1>5, <1>a, <3>2, RebuiltType DEF Verify, StorageType
    <3> QED
      BY <3>1, <3>2
  <2> QED
    BY <1>5, <1>a, <1>b, <2>1 DEF Verify, Inv, StorageType, OpShape, Nothing
<1>6. CASE StartWipe
  <2>1. op' = [Nothing EXCEPT !.at = "wipe"] /\ IsSectorStart(0)
    BY <1>6, AreaPositive, ModRange DEF StartWipe, IsSectorStart
  <2> QED
    BY <1>6, <1>a, <1>b, <2>1 DEF StartWipe, Inv, StorageType, OpShape, Nothing
<1>7. CASE WipeSector
  <2>1. flash' \in [Addrs -> Cell]
    BY <1>7, <1>a, <1>d DEF WipeSector, StorageType
  <2>2. op.addr \in Addrs /\ IsSectorStart(op.addr) /\ op.addr \in Nat
    BY <1>7, <1>a, <1>e, AreaPositive DEF WipeSector, OpShape, Addrs
  <2>3. op.addr + SectorSize = SectorEnd(op.addr) /\ op.addr + SectorSize \in 0 .. AreaSize
    BY <2>2, SectorInArea, AreaPositive
  <2>4. IsSectorStart(op.addr + SectorSize)
    BY <2>2, NextSectorAligned DEF IsSectorStart, NextSector
  <2>5. op' = [op EXCEPT !.addr = @ + SectorSize]
    BY <1>7 DEF WipeSector
  <2>6. op'.at = "wipe" /\ op'.addr = op.addr + SectorSize
    BY <1>7, <1>e, <2>5 DEF WipeSector
  <2>7. OpShape'
    BY <2>4, <2>6 DEF OpShape
  <2>8. op' \in [at : {"off", "idle", "erase", "program", "verify", "wipe"},
                 addr : 0 .. AreaSize, start : Addrs, len : Lens \cup {0}, seq : Seqs]
    BY <1>e, <2>3, <2>5
  <2> QED
    BY <1>7, <1>a, <2>1, <2>7, <2>8 DEF WipeSector, Inv, StorageType
<1>8. CASE EndWipe
  <2>1. index' \in Index
    BY <1>8, <1>b, EmptyIndexType DEF EndWipe
  <2> QED
    BY <1>8, <1>a, <1>b, <2>1 DEF EndWipe, Inv, StorageType, OpShape, Nothing
<1>9. CASE AppendFails
  <2>1. flash' \in [Addrs -> Cell]
    BY <1>9, TornType DEF AppendFails
  <2>2. index' \in Index
    BY <1>9, <2>1, RebuiltType DEF AppendFails
  <2> QED
    BY <1>9, <1>a, <1>b, <2>1, <2>2 DEF AppendFails, Fault, Inv, StorageType, OpShape, Nothing
<1>10. CASE WipeFails
  <2>1. flash' \in [Addrs -> Cell]
    BY <1>10, TornType DEF WipeFails
  <2> QED
    BY <1>10, <1>a, <1>b, <2>1 DEF WipeFails, Fault, Inv, StorageType, OpShape, Nothing
<1>11. CASE PowerLoss
  <2>1. flash' \in [Addrs -> Cell]
    BY <1>11, TornType DEF PowerLoss
  <2>2. index' \in Index
    BY <1>11, <1>b, EmptyIndexType DEF PowerLoss
  <2>3. op' = [at |-> "off", addr |-> 0, start |-> 0, len |-> 0, seq |-> 0]
    BY <1>11 DEF PowerLoss, Off, Nothing
  <2>4. busy' = FALSE /\ faults' \in Nat
    BY <1>11, <1>a DEF PowerLoss, Fault, StorageType
  <2>5. OpShape'
    BY <2>3 DEF OpShape
  <2> QED
    BY <1>b, <2>1, <2>2, <2>3, <2>4, <2>5 DEF Inv, StorageType
<1>12. CASE UNCHANGED StorageVars
  BY <1>12, <1>a DEF StorageVars, Inv, StorageType, OpShape
<1> QED
  BY <1>1, <1>2, <1>3, <1>4, <1>5, <1>6, <1>7, <1>8, <1>9, <1>10, <1>11, <1>12 DEF StorageStep

(* A step of FlashLog, whose frames carry the next number, is one of them. *)
LEMMA NextIsStorageStep ==
  ASSUME nextSeq \in Seqs, [Next]_vars
  PROVE  [StorageStep]_StorageVars
BY DEF Next, StartAppend, FinishWipe, StorageStep, vars, StorageVars

LEMMA NextSeqType ==
  ASSUME nextSeq \in Seqs, Inv, [Next]_vars
  PROVE  nextSeq' \in Seqs
<1>1. 0 \in Seqs /\ \A s \in Seqs : (s + 1) % SeqCount \in Seqs
  BY FlashAssumption, ModRange DEF Seqs
<1>2. index' \in Index
  BY NextIsStorageStep, StepInv DEF Inv, StorageType
<1>3. CASE Boot
  BY <1>1, <1>2, <1>3 DEF Boot, Index
<1> QED
  BY <1>1, <1>3
  DEF Next, StartAppend, FinishWipe, vars, EraseSector, ProgramPage, Verify, StartWipe, WipeSector,
      AppendFails, WipeFails, PowerLoss

LEMMA InvHolds == Spec => [](Inv /\ nextSeq \in Seqs)
<1>1. Init => Inv /\ nextSeq \in Seqs
  BY InitInv, FlashAssumption DEF Init, Seqs
<1>2. (Inv /\ nextSeq \in Seqs) /\ [Next]_vars => (Inv /\ nextSeq \in Seqs)'
  BY NextIsStorageStep, NextSeqType, StepInv
<1> QED
  BY <1>1, <1>2, PTL DEF Spec

(* In every reachable state every variable has its type.                   *)
THEOREM TypeCorrect == Spec => []TypeOK
<1>1. Inv /\ nextSeq \in Seqs => TypeOK
  BY DEF Inv, StorageType, TypeOK
<1> QED
  BY <1>1, InvHolds, PTL

(* append never leaves the sector it chose, whatever the geometry, the     *)
(* frame lengths and the faults: a frame never crosses a sector or the end *)
(* of the log area, and a page program never crosses a page.               *)
THEOREM AppendInSector == Spec => []AppendStaysInSector
<1>1. Inv => AppendStaysInSector
  <2> SUFFICES ASSUME Inv, op.at \in {"erase", "program"}
               PROVE  /\ op.start <= op.addr /\ op.addr < op.start + op.len
                      /\ op.start + op.len <= SectorEnd(op.start)
                      /\ op.addr + Chunk <= AreaSize
                      /\ Chunk <= PageSize - (op.addr % PageSize)
    BY DEF AppendStaysInSector
  <2>1. op.start <= op.addr /\ op.addr < op.start + op.len /\ op.start + op.len <= SectorEnd(op.start)
    BY DEF Inv, OpShape
  <2>2. op.addr \in Nat /\ op.start \in Addrs /\ op.start \in Nat /\ op.len \in 1 .. SectorSize
    BY LensNat, AreaPositive DEF Inv, StorageType, OpShape, Addrs
  <2>3. op.addr % PageSize \in 0 .. PageSize - 1 /\ PageSize \in Nat \ {0}
    BY <2>2, ModRange, FlashAssumption
  <2>4. SectorEnd(op.start) <= AreaSize /\ SectorEnd(op.start) \in Nat
    BY <2>2, SectorInArea, AreaPositive
  <2> QED
    BY <2>1, <2>2, <2>3, <2>4, AreaPositive DEF Chunk
<1> QED
  BY <1>1, InvHolds, PTL

-----------------------------------------------------------------------------
(* Flash commands keep to their sector.                                    *)

LEMMA SameSector ==
  ASSUME NEW x \in Addrs, NEW a \in Addrs, SectorStart(x) <= a, a < SectorEnd(x)
  PROVE  SectorStart(a) = SectorStart(x)
<1> DEFINE p == a \div SectorSize
           q == x \div SectorSize
<1>1. SectorSize \in Nat \ {0} /\ a \in Nat /\ x \in Nat
  BY AreaPositive DEF Addrs
<1>2. p \in Nat /\ q \in Nat
  BY <1>1, DivMod
<1>3. SectorStart(a) = SectorSize * p
  <2>1. a = SectorSize * p + (a % SectorSize) /\ SectorSize * p \in Nat
    BY <1>1, <1>2, DivMod
  <2> QED
    BY <1>1, <2>1, ModRange DEF SectorStart
<1>4. SectorStart(x) = SectorSize * q
  <2>1. x = SectorSize * q + (x % SectorSize) /\ SectorSize * q \in Nat
    BY <1>1, <1>2, DivMod
  <2> QED
    BY <1>1, <2>1, ModRange DEF SectorStart
<1>5. SectorStart(a) <= a /\ a < SectorStart(a) + SectorSize /\ SectorEnd(x) = SectorStart(x) + SectorSize
  BY SectorInArea
<1>6. SectorSize * p < SectorSize * q + SectorSize /\ SectorSize * q < SectorSize * p + SectorSize
  BY <1>1, <1>2, <1>3, <1>4, <1>5
<1>7. p < q + 1 /\ q < p + 1
  <2>1. SectorSize * q + SectorSize = SectorSize * (q + 1) /\ SectorSize * p + SectorSize = SectorSize * (p + 1)
    BY <1>1, <1>2
  <2>2. SectorSize * p < SectorSize * (q + 1) /\ SectorSize * q < SectorSize * (p + 1)
    BY <1>6, <2>1
  <2> QED
    BY <1>1, <1>2, <2>2
<1> QED
  BY <1>2, <1>3, <1>4, <1>7

(* The cells an erase of sector s or the next page program touch.          *)
LEMMA ErasedCellsInSector ==
  ASSUME NEW s \in Addrs, IsSectorStart(s), NEW a \in SectorCells(s)
  PROVE  SectorStart(a) = s
BY SectorInArea, SameSector DEF SectorCells

LEMMA ProgrammedCellsInSector ==
  ASSUME Inv, op.at = "program", NEW a \in ChunkCells
  PROVE  SectorStart(a) = SectorStart(op.start)
<1>1. op.start \in Addrs /\ op.addr \in Nat /\ op.len \in Nat /\ op.start \in Nat
  BY LensNat, AreaPositive DEF Inv, StorageType, OpShape, Addrs
<1>2. a \in Addrs /\ a \in Nat /\ op.addr <= a /\ a < op.addr + Chunk
  BY AreaPositive DEF ChunkCells, Addrs
<1>3. op.start <= op.addr /\ op.addr + Chunk <= op.start + op.len /\ Chunk \in Nat
        /\ op.start + op.len <= SectorEnd(op.start)
  BY ChunkFits DEF Inv, OpShape
<1>4. SectorStart(op.start) <= op.start /\ SectorStart(op.start) \in Nat /\ SectorEnd(op.start) \in Nat
  BY <1>1, SectorInArea, AreaPositive
<1> QED
  BY <1>1, <1>2, <1>3, <1>4, SameSector

LEMMA TornInSector ==
  ASSUME Inv, NEW fl, fl = flash \/ Torn(fl), NEW a \in Addrs, fl[a] # flash[a]
  PROVE  \/ /\ op.at \in {"erase", "program"}
            /\ SectorStart(a) = SectorStart(op.start)
         \/ /\ op.at = "wipe"
            /\ SectorStart(a) = op.addr
<1>1. CASE op.at = "program" /\ TornProgram(fl)
  <2>1. a \in ChunkCells
    BY <1>1 DEF TornProgram
  <2> QED
    BY <1>1, <2>1, ProgrammedCellsInSector
<1>2. ASSUME op.addr \in Addrs, TornErase(fl)
      PROVE  a \in SectorCells(op.addr)
  BY <1>2 DEF TornErase
<1>3. CASE op.at = "erase" /\ TornErase(fl)
  <2>1. op.addr \in Addrs /\ IsSectorStart(op.addr) /\ op.addr = op.start
    BY <1>3 DEF Inv, StorageType, OpShape
  <2>2. SectorStart(a) = op.addr /\ SectorStart(op.start) = op.addr
    BY <1>2, <1>3, <2>1, ErasedCellsInSector, SectorInArea
  <2> QED
    BY <1>3, <2>2
<1>4. CASE op.at = "wipe" /\ op.addr < AreaSize /\ TornErase(fl)
  <2>1. op.addr \in Addrs /\ IsSectorStart(op.addr)
    BY <1>4, AreaPositive DEF Inv, StorageType, OpShape, Addrs
  <2> QED
    BY <1>2, <1>4, <2>1, ErasedCellsInSector
<1> QED
  BY <1>1, <1>3, <1>4 DEF Torn

(* No step changes a flash cell outside the sector its operation works in, *)
(* for every geometry, frame length and fault.                             *)
THEOREM SectorsIsolated == Spec => OtherSectorsUntouched
<1> DEFINE Own(a) == \/ /\ op.at \in {"erase", "program"}
                        /\ SectorStart(a) = SectorStart(op.start)
                     \/ /\ op.at = "wipe"
                        /\ SectorStart(a) = op.addr
<1>1. Inv /\ [Next]_vars => [\A a \in Addrs : flash'[a] # flash[a] => Own(a)]_vars
  <2> SUFFICES ASSUME Inv, Next, NEW a \in Addrs, flash'[a] # flash[a]
               PROVE  Own(a)
    OBVIOUS
  <2>1. CASE EraseSector
    <3>1. op.at = "erase" /\ op.addr \in Addrs /\ IsSectorStart(op.addr) /\ op.addr = op.start
      BY <2>1 DEF EraseSector, Inv, StorageType, OpShape
    <3>2. a \in SectorCells(op.addr)
      BY <2>1 DEF EraseSector
    <3> QED
      BY <3>1, <3>2, ErasedCellsInSector, SectorInArea
  <2>2. CASE ProgramPage
    <3>1. op.at = "program" /\ a \in ChunkCells
      BY <2>2 DEF ProgramPage
    <3> QED
      BY <3>1, ProgrammedCellsInSector
  <2>3. CASE WipeSector
    <3>1. op.at = "wipe" /\ op.addr \in Addrs /\ IsSectorStart(op.addr)
      BY <2>3, AreaPositive DEF WipeSector, Inv, StorageType, OpShape, Addrs
    <3>2. a \in SectorCells(op.addr)
      BY <2>3 DEF WipeSector
    <3> QED
      BY <3>1, <3>2, ErasedCellsInSector
  <2>4. CASE AppendFails \/ WipeFails \/ PowerLoss
    BY <2>4, TornInSector DEF AppendFails, WipeFails, PowerLoss
  <2>5. CASE Boot \/ (\E n \in Lens : StartAppend(n)) \/ Verify \/ StartWipe \/ FinishWipe
    BY <2>5 DEF Boot, StartAppend, BeginAppend, Verify, StartWipe, FinishWipe, EndWipe
  <2> QED
    BY <2>1, <2>2, <2>3, <2>4, <2>5 DEF Next
<1> QED
  BY <1>1, InvHolds, PTL DEF Spec, OtherSectorsUntouched

-----------------------------------------------------------------------------
(* The index in RAM: between operations it counts the frames in flash and  *)
(* names one of them as the oldest and one as the newest.  Only an erase   *)
(* of the area that failed half way, whose mark is the busy flag, is       *)
(* excepted.                                                               *)

(* No cell belongs to a frame that would cross a sector.                   *)
HomedIn(fl) ==
  \A a \in Addrs : fl[a].len > 0 =>
    /\ SectorStart(a) <= a - fl[a].off
    /\ a - fl[a].off + fl[a].len <= SectorEnd(a)

(* An index that counts the frames of S and whose oldest frame is one.     *)
Counts(ix, S) ==
  /\ ix.count = Cardinality(S)
  /\ ix.count > 0 => ix.oldest \in S

(* The cells that the append under way has programmed so far.              *)
Behind == {a \in Addrs : op.start <= a /\ a < op.addr}

OwnByte(a) == FrameByte(op.seq, op.len, a - op.start)

(* Nothing has been programmed over yet.                                   *)
Intact == \A a \in Behind : flash[a] = OwnByte(a)

Written ==
  op.at \in {"program", "verify"} => \A a \in Behind : flash[a] \in {OwnByte(a), Garbage}

WipeProgress ==
  op.at = "wipe" => /\ busy = TRUE
                    /\ \A a \in Addrs : a < op.addr => flash[a] = Erased

(* What the index counts while an append is under way: first the frames    *)
(* that the erase will leave, then the frames besides the new one.  That   *)
(* holds as long as the new frame is intact; once it is not, its read-back *)
(* fails and the index is rebuilt.                                         *)
IndexTracks ==
  ~busy =>
    /\ op.at = "idle" => /\ Counts(index, Frames(flash))
                         /\ index.count > 0 => index.newest \in Frames(flash)
    /\ op.at = "erase" => Counts(index, Frames(flash) \ SectorCells(op.addr))
    /\ op.at = "program" /\ op.addr = op.start => Counts(index, Frames(flash))
    /\ op.at \in {"program", "verify"} /\ op.addr > op.start /\ Intact =>
         Counts(index, Frames(flash) \ {op.start})

IndexInv == Inv /\ HomedIn(flash) /\ Written /\ WipeProgress /\ IndexTracks

-----------------------------------------------------------------------------
(* Facts about frames and cells.                                           *)

LEMMA CellKinds ==
  ASSUME NEW s \in Seqs, NEW n \in Lens, NEW i \in Int
  PROVE  /\ FrameByte(s, n, i) # Erased /\ FrameByte(s, n, i) # Garbage /\ Erased # Garbage
         /\ FrameByte(s, n, i).len > 0
         /\ Erased.len = 0 /\ Garbage.len = 0
<1>1. n \in Nat /\ n > 0
  BY LensNat
<1> QED
  BY <1>1 DEF FrameByte, Erased, Garbage

(* A frame is made of cells with its length, all of them in the area.      *)
LEMMA FrameCells ==
  ASSUME NEW fl \in [Addrs -> Cell], NEW f \in Frames(fl)
  PROVE  /\ f \in Addrs /\ f \in Nat
         /\ fl[f].len \in Lens /\ fl[f].len \in Nat /\ fl[f].len > 0 /\ fl[f].off = 0
         /\ \A i \in 0 .. fl[f].len - 1 :
              /\ f + i \in Addrs
              /\ fl[f + i].len > 0 /\ fl[f + i].off = i
<1>1. f \in Addrs /\ ValidAt(fl, f) /\ f \in Nat /\ AreaSize \in Nat
  BY AreaPositive DEF Frames, Addrs
<1>2. fl[f] \in Cell /\ fl[f].len > 0 /\ fl[f].off = 0
  BY <1>1 DEF ValidAt
<1>3. fl[f].len \in Lens /\ fl[f].len \in Nat
  BY <1>2, CellFields, LensNat
<1>4. ASSUME NEW i \in 0 .. fl[f].len - 1
      PROVE  /\ f + i \in Addrs
             /\ fl[f + i].len > 0 /\ fl[f + i].off = i
  <2>1. f + i \in Addrs
    BY <1>1, <1>3 DEF ValidAt, Addrs
  <2>2. CASE i = 0
    BY <1>1, <1>2, <2>1, <2>2
  <2>3. CASE i # 0
    <3>1. i \in 1 .. fl[f].len - 1
      BY <1>3, <2>3
    <3>2. fl[f + i] = [fl[f] EXCEPT !.off = i]
      BY <1>1, <3>1 DEF ValidAt
    <3>3. fl[f] \in [seq : Seqs, len : Lens, off : 0 .. SectorSize - 1]
      BY <1>2 DEF Cell, Erased, Garbage
    <3> QED
      BY <1>2, <2>1, <3>2, <3>3
  <2> QED
    BY <2>2, <2>3
<1> QED
  BY <1>1, <1>2, <1>3, <1>4

(* Whether a frame is valid depends on its own cells only.                 *)
LEMMA SameCellsSameFrame ==
  ASSUME NEW fl \in [Addrs -> Cell], NEW gl \in [Addrs -> Cell], NEW f \in Frames(fl),
         \A i \in 0 .. fl[f].len - 1 : gl[f + i] = fl[f + i]
  PROVE  f \in Frames(gl)
<1>1. /\ f \in Addrs /\ f \in Nat
      /\ fl[f].len \in Nat /\ fl[f].len > 0
  BY FrameCells
<1>2. gl[f] = fl[f]
  <2>1. 0 \in 0 .. fl[f].len - 1 /\ f + 0 = f
    BY <1>1
  <2> QED
    BY <2>1
<1>3. \A i \in 1 .. fl[f].len - 1 : gl[f + i] = fl[f + i]
  BY <1>1
<1>4. ValidAt(fl, f)
  BY DEF Frames
<1>5. ValidAt(gl, f)
  BY <1>2, <1>3, <1>4 DEF ValidAt
<1> QED
  BY <1>1, <1>5 DEF Frames

(* A sector is erased: its frames go, all others stay.                     *)
LEMMA ErasedFrames ==
  ASSUME NEW fl \in [Addrs -> Cell], HomedIn(fl), NEW s \in Addrs, IsSectorStart(s),
         NEW gl, gl = [a \in Addrs |-> IF a \in SectorCells(s) THEN Erased ELSE fl[a]]
  PROVE  Frames(gl) = Frames(fl) \ SectorCells(s)
<1>1. gl \in [Addrs -> Cell]
  BY DEF Cell
<1>2. Erased.len = 0
  BY DEF Erased
<1>3. ASSUME NEW f \in Frames(gl)
      PROVE  f \in Frames(fl) /\ f \notin SectorCells(s)
  <2>1. \A i \in 0 .. gl[f].len - 1 : f + i \in Addrs /\ gl[f + i].len > 0
    BY <1>1, FrameCells
  <2>2. \A i \in 0 .. gl[f].len - 1 : gl[f + i] = fl[f + i] /\ f + i \notin SectorCells(s)
    BY <1>2, <2>1
  <2>3. f \in Frames(fl)
    BY <1>1, <2>2, SameCellsSameFrame
  <2>4. f \in Nat /\ 0 \in 0 .. gl[f].len - 1 /\ f + 0 = f
    BY <1>1, FrameCells
  <2> QED
    BY <2>2, <2>3, <2>4
<1>4. ASSUME NEW f \in Frames(fl), f \notin SectorCells(s)
      PROVE  f \in Frames(gl)
  <2>1. /\ f \in Addrs /\ f \in Nat /\ fl[f].len \in Nat /\ fl[f].len > 0 /\ fl[f].off = 0
        /\ \A i \in 0 .. fl[f].len - 1 : f + i \in Addrs
    BY FrameCells
  <2>2. f + fl[f].len <= SectorEnd(f)
    BY <2>1 DEF HomedIn
  <2>3. ASSUME NEW i \in 0 .. fl[f].len - 1
        PROVE  gl[f + i] = fl[f + i]
    <3>1. f + i \in Addrs /\ f + i \in Nat
      BY <2>1
    <3>2. SectorStart(f) <= f + i /\ f + i < SectorEnd(f)
      <4>1. SectorStart(f) \in Nat /\ SectorStart(f) <= f /\ SectorEnd(f) \in Nat
        BY <2>1, SectorInArea, AreaPositive
      <4> QED
        BY <2>1, <2>2, <4>1
    <3>3. SectorStart(f + i) = SectorStart(f)
      BY <2>1, <3>1, <3>2, SameSector
    <3>4. f + i \notin SectorCells(s)
      <4>1. SUFFICES ASSUME f + i \in SectorCells(s)
                     PROVE  FALSE
        OBVIOUS
      <4>2. SectorStart(f) = s
        BY <3>3, <4>1, ErasedCellsInSector
      <4>3. s <= f /\ f < SectorEnd(s)
        BY <2>1, <4>2, SectorInArea DEF SectorEnd
      <4> QED
        BY <1>4, <2>1, <4>3 DEF SectorCells
    <3> QED
      BY <3>1, <3>4
  <2> QED
    BY <1>1, <2>3, SameCellsSameFrame
<1> QED
  BY <1>3, <1>4

(* Erased cells get bytes of the new frame: no other frame comes or goes.  *)
LEMMA ProgrammedFrames ==
  ASSUME Inv, op.at = "program",
         \A a \in ChunkCells : flash[a] = Erased,
         NEW gl, gl = [a \in Addrs |-> IF a \in ChunkCells THEN Programmed(a) ELSE flash[a]]
  PROVE  Frames(gl) \ {op.start} = Frames(flash) \ {op.start}
<1>1. flash \in [Addrs -> Cell] /\ op.len \in Lens /\ op.seq \in Seqs /\ op.start \in Int
  BY AreaPositive DEF Inv, StorageType, OpShape, Addrs
<1>2. gl \in [Addrs -> Cell]
  BY <1>1, ProgrammedType
<1>3. Erased.len = 0
  BY DEF Erased
<1>4. ASSUME NEW a \in ChunkCells
      PROVE  gl[a].off = a - op.start /\ flash[a].len = 0 /\ a \in Addrs
  BY <1>3 DEF ChunkCells, Programmed, FrameByte
<1>5. ASSUME NEW f \in Frames(gl), f # op.start
      PROVE  f \in Frames(flash)
  <2>1. /\ f \in Nat
        /\ \A i \in 0 .. gl[f].len - 1 : f + i \in Addrs /\ gl[f + i].off = i
    BY <1>2, FrameCells
  <2>2. ASSUME NEW i \in 0 .. gl[f].len - 1
        PROVE  gl[f + i] = flash[f + i]
    <3>1. f + i \notin ChunkCells
      <4>1. SUFFICES ASSUME f + i \in ChunkCells
                     PROVE  FALSE
        OBVIOUS
      <4>2. gl[f + i].off = (f + i) - op.start
        BY <1>4, <4>1
      <4>3. gl[f + i].off = i
        BY <2>1
      <4> QED
        BY <1>1, <1>5, <2>1, <4>2, <4>3
    <3> QED
      BY <2>1, <3>1
  <2> QED
    BY <1>1, <1>2, <2>2, SameCellsSameFrame
<1>6. ASSUME NEW f \in Frames(flash)
      PROVE  f \in Frames(gl)
  <2>1. \A i \in 0 .. flash[f].len - 1 : f + i \in Addrs /\ flash[f + i].len > 0
    BY <1>1, FrameCells
  <2>2. ASSUME NEW i \in 0 .. flash[f].len - 1
        PROVE  gl[f + i] = flash[f + i]
    BY <1>4, <2>1
  <2> QED
    BY <1>1, <1>2, <2>2, SameCellsSameFrame
<1> QED
  BY <1>5, <1>6

(* A frame that passes its read-back has been written whole and is the one *)
(* that append was given.                                                  *)
LEMMA ReadBackIntact ==
  ASSUME Inv, Written, op.at = "verify", ValidAt(flash, op.start)
  PROVE  /\ op.start \in Frames(flash) /\ op.addr > op.start
         /\ flash[op.start] = FrameByte(op.seq, op.len, 0)
         /\ Intact
<1>1. /\ op.start \in Addrs /\ op.start \in Nat /\ op.len \in Lens /\ op.seq \in Seqs
      /\ op.len \in Nat /\ op.len > 0 /\ op.addr = op.start + op.len
      /\ flash \in [Addrs -> Cell]
  BY LensNat, AreaPositive DEF Inv, StorageType, OpShape, Addrs
<1>2. op.start \in Frames(flash)
  BY <1>1 DEF Frames
<1>3. \A a \in Behind : flash[a] \in {OwnByte(a), Garbage}
  BY DEF Written
<1>4. flash[op.start] = FrameByte(op.seq, op.len, 0)
  <2>1. op.start \in Behind /\ flash[op.start].len > 0
    BY <1>1 DEF Behind, ValidAt
  <2> QED
    BY <1>1, <1>3, <2>1 DEF OwnByte, Garbage
<1>5. ASSUME NEW a \in Behind
      PROVE  flash[a] = OwnByte(a)
  <2>1. a \in Nat /\ a - op.start \in 0 .. op.len - 1
    BY <1>1, AreaPositive DEF Behind, Addrs
  <2>2. flash[op.start].len = op.len
    BY <1>4 DEF FrameByte
  <2>3. flash[op.start + (a - op.start)].len > 0
    BY <1>1, <1>2, <2>1, <2>2, FrameCells
  <2>4. flash[a].len > 0
    BY <1>1, <2>1, <2>3
  <2> QED
    BY <1>3, <2>4 DEF Garbage
<1> QED
  BY <1>1, <1>2, <1>4, <1>5 DEF Intact

-----------------------------------------------------------------------------
(* What the operators on the index return.                                 *)

LEMMA RebuiltCounts ==
  ASSUME NEW fl, NEW ix, Rebuilt(fl, ix)
  PROVE  /\ Counts(ix, Frames(fl))
         /\ ix.count > 0 => ix.newest \in Frames(fl)
<1>1. CASE Frames(fl) = {} /\ ix = EmptyIndex(CleanFrom(fl, 0))
  BY <1>1, FS_EmptySet DEF EmptyIndex, Counts
<1>2. CASE Frames(fl) # {}
  BY <1>2 DEF Rebuilt, Counts
<1> QED
  BY <1>1, <1>2 DEF Rebuilt

(* Going up and around from the end of a sector, the sector comes last.    *)
LEMMA SectorComesLast ==
  ASSUME NEW s \in Addrs, IsSectorStart(s),
         NEW a \in SectorCells(s), NEW b \in Addrs, b \notin SectorCells(s)
  PROVE  Ahead(b, Wrap(SectorEnd(s))) < Ahead(a, Wrap(SectorEnd(s)))
<1>1. /\ s \in Nat /\ a \in Nat /\ b \in Nat /\ AreaSize \in Nat
      /\ a < AreaSize /\ b < AreaSize /\ SectorSize \in Nat
  BY AreaPositive DEF Addrs, SectorCells
<1>2. SectorEnd(s) = s + SectorSize /\ s + SectorSize <= AreaSize
  BY SectorInArea
<1>3. s <= a /\ a < s + SectorSize /\ (b < s \/ b >= s + SectorSize)
  BY <1>1, <1>2 DEF SectorCells
<1>4. CASE s + SectorSize >= AreaSize
  <2>1. Wrap(SectorEnd(s)) = 0
    BY <1>2, <1>4 DEF Wrap
  <2> QED
    BY <1>1, <1>2, <1>3, <1>4, <2>1 DEF Ahead
<1>5. CASE s + SectorSize < AreaSize
  <2>1. Wrap(SectorEnd(s)) = s + SectorSize
    BY <1>1, <1>2, <1>5 DEF Wrap
  <2> QED
    BY <1>1, <1>2, <1>3, <1>5, <2>1 DEF Ahead
<1> QED
  BY <1>1, <1>4, <1>5

(* The frames of a sector leave the index, and another one is the oldest.  *)
LEMMA InvalidatedCounts ==
  ASSUME NEW fl \in [Addrs -> Cell], NEW s \in Addrs, IsSectorStart(s),
         NEW ix \in Index, NEW new,
         Counts(ix, Frames(fl)), Invalidated(fl, s, ix, new)
  PROVE  Counts(new, Frames(fl) \ SectorCells(s))
<1> DEFINE F == Frames(fl)
           C == SectorCells(s)
           gone == Cardinality(F \cap C)
           behind == Wrap(SectorEnd(s))
<1>1. IsFiniteSet(F) /\ Cardinality(F) \in Nat /\ gone \in Nat /\ F \subseteq Addrs
  BY FramesFinite
<1>2. Cardinality(F \ C) = Cardinality(F) - gone
  BY <1>1, FS_Difference
<1>3. ix.count = Cardinality(F) /\ (ix.count > 0 => ix.oldest \in F)
  BY DEF Counts
<1>4. F = {} <=> ix.count = 0
  BY <1>1, <1>3, FS_EmptySet
<1>5. CASE ix.count = 0
  <2>1. new = ix /\ F \ C = {}
    BY <1>4, <1>5 DEF Invalidated
  <2> QED
    BY <1>5, <2>1, FS_EmptySet DEF Counts
<1>6. CASE ix.count # 0 /\ gone >= ix.count
  <2>1. new = EmptyIndex(s)
    BY <1>6 DEF Invalidated
  <2>2. Cardinality(F \ C) = 0
    <3>1. IsFiniteSet(F \ C)
      BY <1>1, FS_Difference
    <3>2. Cardinality(F \ C) \in Nat
      BY <3>1, FS_CardinalityType
    <3> QED
      BY <1>1, <1>2, <1>3, <1>6, <3>2
  <2> QED
    BY <2>1, <2>2 DEF Counts, EmptyIndex
<1>7. CASE ix.count # 0 /\ ~(gone >= ix.count) /\ ix.oldest \notin C
  <2>1. new = [ix EXCEPT !.count = @ - gone]
    BY <1>7 DEF Invalidated
  <2>2. new.count = ix.count - gone /\ new.oldest = ix.oldest
    BY <2>1 DEF Index
  <2> QED
    BY <1>1, <1>2, <1>3, <1>7, <2>2 DEF Counts
<1>8. CASE ix.count # 0 /\ ~(gone >= ix.count) /\ ix.oldest \in C
  <2>1. PICK o \in F : /\ \A a \in F : Ahead(o, behind) <= Ahead(a, behind)
                       /\ new = [ix EXCEPT !.count = @ - gone, !.oldest = o]
    BY <1>4, <1>8 DEF Invalidated
  <2>2. new.count = ix.count - gone /\ new.oldest = o
    BY <2>1 DEF Index
  <2>3. PICK b \in F : b \notin C
    <3>1. F \ C # {}
      BY <1>1, <1>2, <1>3, <1>8, FS_EmptySet
    <3> QED
      BY <3>1
  <2>4. o \notin C
    <3>1. SUFFICES ASSUME o \in C
                   PROVE  FALSE
      OBVIOUS
    <3>2. Ahead(b, behind) < Ahead(o, behind)
      BY <1>1, <2>3, <3>1, SectorComesLast
    <3>3. Ahead(o, behind) <= Ahead(b, behind)
      BY <2>1, <2>3
    <3>4. o \in Nat /\ b \in Nat /\ AreaSize \in Nat /\ behind \in Nat
      <4>1. o \in Addrs /\ b \in Addrs /\ SectorEnd(s) \in Nat
        BY <1>1, <2>1, <2>3, SectorInArea, AreaPositive
      <4> QED
        BY <4>1, WrapInArea, AreaPositive DEF Addrs
    <3>5. Ahead(o, behind) \in Int /\ Ahead(b, behind) \in Int
      BY <3>4 DEF Ahead
    <3> QED
      BY <3>2, <3>3, <3>5
  <2> QED
    BY <1>2, <1>3, <2>1, <2>2, <2>4 DEF Counts
<1> QED
  BY <1>5, <1>6, <1>7, <1>8

-----------------------------------------------------------------------------
(* IndexInv is inductive, one conjunct at a time.                          *)

LEMMA InitIndexInv == Init => IndexInv
<1> SUFFICES ASSUME Init
             PROVE  IndexInv
  OBVIOUS
<1>1. op.at = "off" /\ flash = [a \in Addrs |-> Erased]
  BY DEF Init, Off, Nothing
<1>2. HomedIn(flash)
  BY <1>1 DEF HomedIn, Erased
<1> QED
  BY <1>1, <1>2, InitInv DEF IndexInv, Written, WipeProgress, IndexTracks

(* A byte of the new frame keeps to the sector of the frame.               *)
LEMMA ProgrammedHomed ==
  ASSUME Inv, op.at = "program", NEW a \in ChunkCells, NEW c, c = Programmed(a), c.len > 0
  PROVE  /\ SectorStart(a) <= a - c.off
         /\ a - c.off + c.len <= SectorEnd(a)
<1>1. c = FrameByte(op.seq, op.len, a - op.start)
  BY DEF Programmed, Garbage
<1>2. c.off = a - op.start /\ c.len = op.len
  BY <1>1 DEF FrameByte
<1>3. /\ op.start \in Addrs /\ op.start \in Nat /\ a \in Addrs /\ a \in Nat
      /\ op.start + op.len <= SectorEnd(op.start)
      /\ op.len \in Nat
  BY LensNat, AreaPositive DEF Inv, StorageType, OpShape, Addrs, ChunkCells
<1>4. SectorStart(a) = SectorStart(op.start)
  BY ProgrammedCellsInSector
<1>5. SectorStart(op.start) <= op.start /\ SectorEnd(a) = SectorEnd(op.start)
  BY <1>3, <1>4, SectorInArea DEF SectorEnd
<1>6. SectorStart(op.start) \in Nat /\ SectorEnd(op.start) \in Nat
  BY <1>3, SectorInArea, AreaPositive
<1>7. a - c.off = op.start
  BY <1>2, <1>3
<1> QED
  BY <1>2, <1>3, <1>4, <1>5, <1>6, <1>7

LEMMA TornHomed ==
  ASSUME Inv, HomedIn(flash), NEW fl, fl = flash \/ Torn(fl)
  PROVE  HomedIn(fl)
<1> SUFFICES ASSUME NEW a \in Addrs, fl[a].len > 0
             PROVE  /\ SectorStart(a) <= a - fl[a].off
                    /\ a - fl[a].off + fl[a].len <= SectorEnd(a)
  BY DEF HomedIn
<1>1. CASE fl[a] = flash[a]
  BY <1>1 DEF HomedIn
<1>2. CASE op.at = "program" /\ TornProgram(fl) /\ fl[a] # flash[a]
  <2>1. PICK torn \in [ChunkCells -> {"old", "new", "bad"}] :
          fl = [b \in Addrs |->
                  IF b \notin ChunkCells THEN flash[b]
                  ELSE CASE torn[b] = "old" -> flash[b]
                         [] torn[b] = "new" -> Programmed(b)
                         [] torn[b] = "bad" -> Garbage]
    BY <1>2 DEF TornProgram
  <2>2. a \in ChunkCells
    BY <1>2, <2>1
  <2>3. torn[a] \in {"old", "new", "bad"}
    BY <2>2
  <2>4. fl[a] = Programmed(a) \/ fl[a] = Garbage
    BY <1>2, <2>1, <2>2, <2>3
  <2>5. fl[a] = Programmed(a)
    BY <2>4 DEF Garbage
  <2> QED
    BY <1>2, <2>2, <2>5, ProgrammedHomed
<1>3. CASE TornErase(fl) /\ fl[a] # flash[a]
  <2>1. fl[a] \in {Erased, Garbage}
    BY <1>3 DEF TornErase
  <2> QED
    BY <2>1 DEF Erased, Garbage
<1> QED
  BY <1>1, <1>2, <1>3 DEF Torn

LEMMA StepHomed == Inv /\ HomedIn(flash) /\ [StorageStep]_StorageVars => HomedIn(flash)'
<1> SUFFICES ASSUME Inv, HomedIn(flash), [StorageStep]_StorageVars
             PROVE  HomedIn(flash')
  OBVIOUS
<1>1. CASE flash' = flash
  BY <1>1
<1>2. CASE EraseSector \/ WipeSector
  BY <1>2 DEF EraseSector, WipeSector, HomedIn, Erased
<1>3. CASE ProgramPage
  <2>1. SUFFICES ASSUME NEW a \in Addrs, flash'[a].len > 0
                 PROVE  /\ SectorStart(a) <= a - flash'[a].off
                        /\ a - flash'[a].off + flash'[a].len <= SectorEnd(a)
    BY DEF HomedIn
  <2>2. op.at = "program" /\ flash'[a] = IF a \in ChunkCells THEN Programmed(a) ELSE flash[a]
    BY <1>3 DEF ProgramPage
  <2>3. CASE a \in ChunkCells
    BY <2>1, <2>2, <2>3, ProgrammedHomed
  <2>4. CASE a \notin ChunkCells
    BY <2>1, <2>2, <2>4 DEF HomedIn
  <2> QED
    BY <2>3, <2>4
<1>4. CASE AppendFails \/ WipeFails \/ PowerLoss
  BY <1>4, TornHomed DEF AppendFails, WipeFails, PowerLoss
<1> QED
  BY <1>1, <1>2, <1>3, <1>4
  DEF StorageStep, StorageVars, Boot, BeginAppend, Verify, StartWipe, EndWipe

LEMMA StepWritten == Inv /\ Written /\ [StorageStep]_StorageVars => Written'
<1> SUFFICES ASSUME Inv, Written, [StorageStep]_StorageVars,
                    op'.at \in {"program", "verify"}, NEW a \in Addrs,
                    op'.start <= a, a < op'.addr
             PROVE  flash'[a] \in {FrameByte(op'.seq, op'.len, a - op'.start), Garbage}
  BY DEF Written, Behind, OwnByte
<1>0. /\ op \in [at : {"off", "idle", "erase", "program", "verify", "wipe"},
                 addr : 0 .. AreaSize, start : Addrs, len : Lens \cup {0}, seq : Seqs]
      /\ a \in Nat
  BY AreaPositive DEF Inv, StorageType, Addrs
<1>1. CASE ProgramPage
  <2>1. /\ op.at = "program"
        /\ flash' = [b \in Addrs |-> IF b \in ChunkCells THEN Programmed(b) ELSE flash[b]]
        /\ op' = [op EXCEPT !.addr = @ + Chunk,
                            !.at = IF op.addr + Chunk = op.start + op.len
                                   THEN "verify" ELSE "program"]
    BY <1>1 DEF ProgramPage
  <2>2. op'.addr = op.addr + Chunk /\ op'.start = op.start /\ op'.seq = op.seq /\ op'.len = op.len
    BY <1>0, <2>1
  <2>3. CASE a < op.addr
    <3>1. a \in Behind /\ a \notin ChunkCells
      BY <1>0, <2>2, <2>3 DEF Behind, ChunkCells
    <3> QED
      BY <2>1, <2>2, <3>1 DEF Written, OwnByte
  <2>4. CASE ~(a < op.addr)
    <3>1. a \in ChunkCells
      BY <1>0, <2>2, <2>4 DEF ChunkCells
    <3> QED
      BY <2>1, <2>2, <3>1 DEF Programmed
  <2> QED
    BY <2>3, <2>4
<1>2. CASE EraseSector \/ \E n \in Lens, s \in Seqs : BeginAppend(n, s)
  <2>1. op'.addr = op'.start
    BY <1>0, <1>2 DEF EraseSector, BeginAppend, Inv, OpShape
  <2>2. op'.start \in Nat
    BY StepInv, AreaPositive DEF Inv, StorageType, Addrs
  <2> QED
    BY <1>0, <2>1, <2>2
<1>3. CASE UNCHANGED StorageVars
  BY <1>3 DEF StorageVars, Written, Behind, OwnByte
<1>4. CASE Boot \/ Verify \/ StartWipe \/ WipeSector \/ EndWipe \/ AppendFails \/ WipeFails \/ PowerLoss
  <2>1. op'.at \in {"off", "idle", "wipe"}
    BY <1>0, <1>4 DEF Boot, Verify, StartWipe, WipeSector, EndWipe, AppendFails, WipeFails, PowerLoss,
                      Nothing, Off
  <2> QED
    BY <2>1
<1> QED
  BY <1>1, <1>2, <1>3, <1>4 DEF StorageStep

LEMMA StepWipeProgress ==
  Inv /\ WipeProgress /\ [StorageStep]_StorageVars => WipeProgress'
<1> SUFFICES ASSUME Inv, WipeProgress, [StorageStep]_StorageVars, op'.at = "wipe"
             PROVE  /\ busy' = TRUE
                    /\ \A a \in Addrs : a < op'.addr => flash'[a] = Erased
  BY DEF WipeProgress
<1>0. op \in [at : {"off", "idle", "erase", "program", "verify", "wipe"},
              addr : 0 .. AreaSize, start : Addrs, len : Lens \cup {0}, seq : Seqs]
  BY DEF Inv, StorageType
<1>1. CASE StartWipe
  <2>1. busy' = TRUE
    BY ONLY <1>1, Zenon DEF StartWipe
  <2>2. op'.addr = 0
    BY <1>1 DEF StartWipe, Nothing
  <2> QED
    BY <2>1, <2>2, AreaPositive DEF Addrs
<1>2. CASE WipeSector
  <2>1. op.at = "wipe" /\ busy' = busy
    BY <1>2 DEF WipeSector
  <2>2. busy' = TRUE
    BY ONLY <2>1, WipeProgress, Zenon DEF WipeProgress
  <2>3. op.addr \in Addrs /\ IsSectorStart(op.addr) /\ op.addr \in Nat
    BY <1>0, <1>2, AreaPositive DEF WipeSector, Inv, OpShape, Addrs
  <2>4. SectorEnd(op.addr) = op.addr + SectorSize
    BY <2>3, SectorInArea
  <2>5. op'.addr = op.addr + SectorSize
    BY <1>0, <1>2 DEF WipeSector
  <2>6. ASSUME NEW a \in Addrs, a < op'.addr
        PROVE  flash'[a] = Erased
    <3>1. CASE a \in SectorCells(op.addr)
      BY <1>2, <3>1 DEF WipeSector
    <3>2. CASE a \notin SectorCells(op.addr)
      <4>1. a < op.addr
        BY <2>3, <2>4, <2>5, <2>6, <3>2, AreaPositive DEF SectorCells, Addrs
      <4> QED
        BY <1>2, <2>1, <3>2, <4>1 DEF WipeSector, WipeProgress
    <3> QED
      BY <3>1, <3>2
  <2> QED
    BY <2>2, <2>6
<1>3. CASE UNCHANGED StorageVars
  <2>1. op' = op /\ flash' = flash /\ busy' = busy
    BY <1>3 DEF StorageVars
  <2>2. busy' = TRUE
    BY ONLY <2>1, WipeProgress, op'.at = "wipe", Zenon DEF WipeProgress
  <2> QED
    BY <2>1, <2>2 DEF WipeProgress
<1>4. CASE Boot \/ Verify \/ EndWipe \/ AppendFails \/ WipeFails \/ PowerLoss
  <2>1. op' = Nothing \/ op' = Off
    BY <1>4 DEF Boot, Verify, EndWipe, AppendFails, WipeFails, PowerLoss
  <2> QED
    BY <2>1 DEF Nothing, Off
<1>5. CASE EraseSector \/ ProgramPage
  BY <1>0, <1>5 DEF EraseSector, ProgramPage
<1>6. CASE \E n \in Lens, s \in Seqs : BeginAppend(n, s)
  <2>1. op'.at \in {"erase", "program"}
    BY <1>6 DEF BeginAppend
  <2> QED
    BY <2>1
<1> QED
  BY <1>1, <1>2, <1>3, <1>4, <1>5, <1>6 DEF StorageStep

LEMMA StepIndexTracks ==
  IndexInv /\ [StorageStep]_StorageVars => IndexTracks'
<1> SUFFICES ASSUME IndexInv, [StorageStep]_StorageVars
             PROVE  IndexTracks'
  OBVIOUS
<1>0. Inv /\ HomedIn(flash) /\ Written /\ WipeProgress /\ IndexTracks /\ Inv'
  BY StepInv DEF IndexInv
<1>a. /\ op \in [at : {"off", "idle", "erase", "program", "verify", "wipe"},
                 addr : 0 .. AreaSize, start : Addrs, len : Lens \cup {0}, seq : Seqs]
      /\ flash \in [Addrs -> Cell] /\ index \in Index
      /\ flash' \in [Addrs -> Cell]
  BY <1>0 DEF Inv, StorageType
<1>1. ASSUME op' = Nothing, Rebuilt(flash', index')
      PROVE  IndexTracks'
  BY <1>1, RebuiltCounts DEF Nothing, IndexTracks
<1>2. CASE Boot \/ AppendFails
  BY <1>1, <1>2 DEF Boot, AppendFails
<1>3. CASE PowerLoss
  <2>1. op'.at = "off"
    BY <1>3 DEF PowerLoss, Off, Nothing
  <2> QED
    BY <2>1 DEF IndexTracks
<1>4. CASE StartWipe
  <2>1. op'.at = "wipe"
    BY <1>4 DEF StartWipe, Nothing
  <2> QED
    BY <2>1 DEF IndexTracks
<1>5. CASE WipeSector
  <2>1. op'.at = "wipe"
    BY <1>5, <1>a DEF WipeSector
  <2> QED
    BY <2>1 DEF IndexTracks
<1>6. CASE WipeFails
  <2>1. busy' = busy /\ op.at = "wipe"
    BY <1>6 DEF WipeFails
  <2>2. busy' = TRUE
    BY ONLY <1>0, <2>1, Zenon DEF WipeProgress
  <2> QED
    BY <2>2 DEF IndexTracks
<1>7. CASE EndWipe
  <2>1. op' = Nothing /\ flash' = flash /\ index' = EmptyIndex(0) /\ op.at = "wipe" /\ op.addr = AreaSize
    BY <1>7 DEF EndWipe
  <2>2. \A a \in Addrs : flash[a] = Erased
    BY <1>0, <2>1, AreaPositive DEF WipeProgress, Addrs
  <2>3. Frames(flash) = {}
    BY <2>2 DEF Frames, ValidAt, Erased
  <2>4. Counts(index', Frames(flash')) /\ ~(index'.count > 0)
    BY <2>1, <2>3, FS_EmptySet DEF Counts, EmptyIndex
  <2> QED
    BY <2>1, <2>4 DEF Nothing, IndexTracks
<1>8. ASSUME NEW n \in Lens, NEW s \in Seqs, BeginAppend(n, s)
      PROVE  IndexTracks'
  <2> DEFINE a == PlaceFor(n)
  <2>1. a \in Addrs
    BY <1>a, PlaceFits
  <2>2. /\ op.at = "idle" /\ flash' = flash /\ busy' = busy
        /\ op' = [at |-> IF IsSectorStart(a) THEN "erase" ELSE "program",
                  addr |-> a, start |-> a, len |-> n, seq |-> s]
        /\ IF IsSectorStart(a) THEN Invalidated(flash, a, index, index')
                               ELSE index' = index
    BY <1>8 DEF BeginAppend
  <2>3. ~(op'.addr > op'.start)
    BY <2>1, <2>2, AreaPositive DEF Addrs
  <2>4. SUFFICES ASSUME ~busy'
                 PROVE  /\ op'.at = "erase" => Counts(index', Frames(flash') \ SectorCells(op'.addr))
                        /\ op'.at = "program" => Counts(index', Frames(flash'))
    BY <2>2, <2>3 DEF IndexTracks
  <2>5. ~busy
    BY ONLY <2>2, <2>4, Zenon
  <2>6. Counts(index, Frames(flash))
    BY <1>0, <2>2, <2>5 DEF IndexTracks
  <2>7. CASE IsSectorStart(a)
    BY <1>a, <2>1, <2>2, <2>6, <2>7, InvalidatedCounts
  <2>8. CASE ~IsSectorStart(a)
    BY <2>2, <2>6, <2>8
  <2> QED
    BY <2>7, <2>8
<1>9. CASE EraseSector
  <2>1. /\ op.at = "erase" /\ index' = index /\ busy' = busy
        /\ flash' = [a \in Addrs |-> IF a \in SectorCells(op.addr) THEN Erased ELSE flash[a]]
        /\ op' = [op EXCEPT !.at = "program"]
    BY <1>9 DEF EraseSector
  <2>2. op'.at = "program" /\ op'.addr = op.addr /\ op'.start = op.start /\ op.addr = op.start
    BY <1>0, <1>a, <2>1 DEF Inv, OpShape
  <2>3. op.addr \in Addrs /\ IsSectorStart(op.addr)
    BY <1>0, <1>a, <2>1, <2>2 DEF Inv, OpShape
  <2>4. Frames(flash') = Frames(flash) \ SectorCells(op.addr)
    BY <1>0, <1>a, <2>1, <2>3, ErasedFrames
  <2>5. ~(op'.addr > op'.start)
    BY <2>2, <2>3, AreaPositive DEF Addrs
  <2>6. SUFFICES ASSUME ~busy'
                 PROVE  Counts(index', Frames(flash'))
    BY <2>2, <2>5 DEF IndexTracks
  <2>7. ~busy
    BY ONLY <2>1, <2>6, Zenon
  <2> QED
    BY <1>0, <2>1, <2>4, <2>7 DEF IndexTracks
<1>10. CASE ProgramPage
  <2>1. /\ op.at = "program" /\ index' = index /\ busy' = busy
        /\ flash' = [a \in Addrs |-> IF a \in ChunkCells THEN Programmed(a) ELSE flash[a]]
        /\ op' = [op EXCEPT !.addr = @ + Chunk,
                            !.at = IF op.addr + Chunk = op.start + op.len
                                   THEN "verify" ELSE "program"]
    BY <1>10 DEF ProgramPage
  <2>2. /\ op'.at \in {"program", "verify"}
        /\ op'.addr = op.addr + Chunk /\ op'.start = op.start /\ op'.len = op.len /\ op'.seq = op.seq
    BY <1>a, <2>1
  <2>3. /\ Chunk \in Nat \ {0} /\ op.addr \in Nat /\ op.start \in Addrs /\ op.start \in Nat
        /\ op.start <= op.addr /\ op.addr < AreaSize /\ op.addr \in Addrs
        /\ op.len \in Lens /\ op.seq \in Seqs
    <3>1. /\ Chunk \in Nat \ {0} /\ op.addr \in Nat /\ op.start \in Addrs
          /\ op.start <= op.addr /\ op.addr + Chunk <= AreaSize
          /\ op.len \in Lens /\ op.seq \in Seqs
      BY <1>0, <1>10, <1>a, <2>1, ChunkFits DEF ProgramPage, Inv, OpShape
    <3> QED
      BY <3>1, AreaPositive DEF Addrs
  <2>4. SUFFICES ASSUME ~busy', Intact'
                 PROVE  Counts(index', Frames(flash') \ {op'.start})
    <3>1. op'.addr # op'.start
      BY <2>2, <2>3
    <3> QED
      BY <2>2, <3>1, <2>4 DEF IndexTracks
  <2>5. ~busy
    BY ONLY <2>1, <2>4, Zenon
  <2>6. \A b \in Behind : flash[b] = OwnByte(b)
    <3> SUFFICES ASSUME NEW b \in Behind
                 PROVE  flash[b] = OwnByte(b)
      OBVIOUS
    <3>1. b \in Addrs /\ b \in Nat /\ op.start <= b /\ b < op.addr
      BY AreaPositive DEF Behind, Addrs
    <3>2. b \in Behind' /\ b \notin ChunkCells
      BY <2>2, <2>3, <3>1 DEF Behind, ChunkCells
    <3>3. flash'[b] = FrameByte(op'.seq, op'.len, b - op'.start)
      BY <2>4, <3>2 DEF Intact, OwnByte
    <3> QED
      BY <2>1, <2>2, <3>1, <3>2, <3>3 DEF OwnByte
  <2>7. \A b \in ChunkCells : flash[b] = Erased
    <3> SUFFICES ASSUME NEW b \in ChunkCells
                 PROVE  flash[b] = Erased
      OBVIOUS
    <3>1. b \in Addrs /\ b \in Nat /\ op.addr <= b /\ b < op.addr + Chunk
      BY AreaPositive DEF ChunkCells, Addrs
    <3>2. b \in Behind'
      BY <2>2, <2>3, <3>1 DEF Behind
    <3>3. Programmed(b) = FrameByte(op.seq, op.len, b - op.start)
      BY <2>1, <2>2, <2>4, <3>1, <3>2 DEF Intact, OwnByte
    <3>4. FrameByte(op.seq, op.len, b - op.start) # Garbage
      BY <2>3, <3>1, CellKinds
    <3> QED
      BY <3>3, <3>4 DEF Programmed
  <2>8. Frames(flash') \ {op.start} = Frames(flash) \ {op.start}
    BY <1>0, <2>1, <2>7, ProgrammedFrames
  <2>9. CASE op.addr = op.start
    <3>1. Counts(index, Frames(flash))
      BY <1>0, <2>1, <2>5, <2>9 DEF IndexTracks
    <3>2. op.start \in ChunkCells
      BY <2>3, <2>9 DEF ChunkCells
    <3>3. op.start \notin Frames(flash)
      BY <2>7, <3>2 DEF Frames, ValidAt, Erased
    <3>4. Frames(flash) = Frames(flash) \ {op.start}
      BY <3>3
    <3> QED
      BY <2>1, <2>2, <2>8, <3>1, <3>4
  <2>10. CASE op.addr # op.start
    <3>1. op.addr > op.start
      BY <2>3, <2>10
    <3>2. Counts(index, Frames(flash) \ {op.start})
      BY <1>0, <2>1, <2>5, <2>6, <3>1 DEF IndexTracks, Intact
    <3> QED
      BY <2>1, <2>2, <2>8, <3>2
  <2> QED
    BY <2>9, <2>10
<1>11. CASE Verify
  <2>1. op.at = "verify" /\ op' = Nothing /\ flash' = flash /\ busy' = busy
    BY <1>11 DEF Verify
  <2>2. CASE ~ValidAt(flash, op.start)
    BY <1>1, <1>11, <2>1, <2>2 DEF Verify
  <2>3. CASE ValidAt(flash, op.start)
    <3>1. index' = Updated(index, op.start, flash[op.start].seq, Wrap(op.addr))
      BY <1>11, <2>3 DEF Verify
    <3>2. op.start \in Frames(flash) /\ Intact /\ op.addr > op.start
      BY <1>0, <2>1, <2>3, ReadBackIntact
    <3>7. SUFFICES ASSUME ~busy'
                   PROVE  Counts(index', Frames(flash)) /\ index'.newest \in Frames(flash)
      BY <2>1 DEF IndexTracks, Nothing
    <3>8. ~busy
      BY ONLY <2>1, <3>7, Zenon
    <3>9. Counts(index, Frames(flash) \ {op.start})
      BY <1>0, <2>1, <3>2, <3>8 DEF IndexTracks
    <3>10. /\ Cardinality(Frames(flash) \ {op.start}) = Cardinality(Frames(flash)) - 1
           /\ Cardinality(Frames(flash)) \in Nat
           /\ Cardinality(Frames(flash) \ {op.start}) \in Nat
      BY <3>2, FramesFinite, FS_RemoveElement, FS_CardinalityType
    <3> QED
      BY <3>1, <3>2, <3>9, <3>10 DEF Updated, Counts
  <2> QED
    BY <2>2, <2>3
<1>12. CASE UNCHANGED StorageVars
  <2>1. flash' = flash /\ index' = index /\ op' = op /\ busy' = busy
    BY <1>12 DEF StorageVars
  <2>2. SUFFICES ASSUME ~busy'
                 PROVE  IndexTracks'
    BY DEF IndexTracks
  <2>3. ~busy
    BY ONLY <2>1, <2>2, Zenon
  <2> QED
    BY <1>0, <2>1, <2>3 DEF IndexTracks, Intact, Behind, OwnByte
<1> QED
  BY <1>2, <1>3, <1>4, <1>5, <1>6, <1>7, <1>8, <1>9, <1>10, <1>11, <1>12 DEF StorageStep

LEMMA StepIndexInv == IndexInv /\ [StorageStep]_StorageVars => IndexInv'
BY StepInv, StepHomed, StepWritten, StepWipeProgress, StepIndexTracks DEF IndexInv

LEMMA IndexInvHolds == Spec => [](IndexInv /\ nextSeq \in Seqs)
<1>1. Init => IndexInv /\ nextSeq \in Seqs
  BY InitIndexInv, FlashAssumption DEF Init, Seqs
<1>2. (IndexInv /\ nextSeq \in Seqs) /\ [Next]_vars => (IndexInv /\ nextSeq \in Seqs)'
  BY NextIsStorageStep, NextSeqType, StepIndexInv DEF IndexInv
<1> QED
  BY <1>1, <1>2, PTL DEF Spec

-----------------------------------------------------------------------------
(* Appends write on erased cells.                                          *)

CleanInv ==
  faults = 0 =>
    /\ op.at = "off" => \A a \in Addrs : flash[a] = Erased
    /\ op.at = "idle" =>
         \/ IsSectorStart(index.write)
         \/ \A a \in Addrs : index.write <= a /\ a < SectorEnd(index.write) => flash[a] = Erased
    /\ op.at \in {"program", "verify"} =>
         /\ \A a \in Addrs : op.addr <= a /\ a < SectorEnd(op.start) => flash[a] = Erased
         /\ Intact

CleanRingInv == IndexInv /\ nextSeq \in Seqs /\ CleanInv

LEMMA InitCleanInv == Init => CleanInv
BY DEF Init, CleanInv, Off, Nothing

(* The end of a sector, wrapped, is the start of one.                      *)
LEMMA SectorEndAligned ==
  ASSUME NEW s \in Addrs
  PROVE  IsSectorStart(Wrap(SectorEnd(s)))
<1>1. SectorStart(s) \in Addrs /\ SectorStart(s) \in Nat
  BY SectorInArea, AreaPositive DEF Addrs
<1>2. IsSectorStart(SectorStart(s))
  <2>1. s \in Nat /\ SectorSize \in Nat \ {0}
    BY AreaPositive DEF Addrs
  <2>2. s \div SectorSize \in Nat /\ s = SectorSize * (s \div SectorSize) + (s % SectorSize)
    BY <2>1, DivMod
  <2>3. SectorSize * (s \div SectorSize) \in Nat
    BY <2>1, <2>2
  <2>4. SectorStart(s) = SectorSize * (s \div SectorSize)
    BY <2>1, <2>2, <2>3, ModRange DEF SectorStart
  <2> QED
    BY <2>1, <2>2, <2>4, MultipleMod DEF IsSectorStart
<1>3. NextSector(SectorStart(s)) = SectorEnd(s)
  BY <1>2 DEF NextSector, SectorEnd, IsSectorStart
<1> QED
  BY <1>1, <1>3, NextSectorAligned

(* A frame that has been written whole on erased cells passes its check.   *)
LEMMA IntactIsValid ==
  ASSUME Inv, op.at = "verify", Intact
  PROVE  /\ ValidAt(flash, op.start)
         /\ flash[op.start] = FrameByte(op.seq, op.len, 0)
<1>1. /\ op.start \in Nat /\ op.start \in Addrs /\ op.len \in Lens /\ op.len \in Nat /\ op.len > 0
      /\ op.addr = op.start + op.len /\ op.start + op.len <= SectorEnd(op.start)
  BY LensNat, AreaPositive DEF Inv, StorageType, OpShape, Addrs
<1>2. op.start + op.len <= AreaSize
  BY <1>1, SectorInArea, AreaPositive
<1>3. ASSUME NEW i \in 0 .. op.len - 1
      PROVE  flash[op.start + i] = FrameByte(op.seq, op.len, i)
  <2>1. op.start + i \in Behind
    BY <1>1, <1>2, AreaPositive DEF Behind, Addrs
  <2>2. flash[op.start + i] = FrameByte(op.seq, op.len, (op.start + i) - op.start)
    BY <2>1 DEF Intact, OwnByte
  <2>3. (op.start + i) - op.start = i
    BY <1>1
  <2> QED
    BY <2>2, <2>3
<1>4. flash[op.start] = FrameByte(op.seq, op.len, 0)
  <2>1. 0 \in 0 .. op.len - 1 /\ op.start + 0 = op.start
    BY <1>1
  <2> QED
    BY <1>3, <2>1
<1>5. flash[op.start].len = op.len /\ flash[op.start].off = 0
  BY <1>4 DEF FrameByte
<1>6. ASSUME NEW i \in 1 .. op.len - 1
      PROVE  flash[op.start + i] = [flash[op.start] EXCEPT !.off = i]
  BY <1>1, <1>3, <1>4 DEF FrameByte
<1> QED
  BY <1>1, <1>2, <1>4, <1>5, <1>6 DEF ValidAt

(* The cells of the next page program are erased.                          *)
LEMMA ChunkIsErased ==
  ASSUME Inv, op.at = "program",
         \A a \in Addrs : op.addr <= a /\ a < SectorEnd(op.start) => flash[a] = Erased,
         NEW a \in ChunkCells
  PROVE  flash[a] = Erased
<1>1. a \in Addrs /\ a \in Nat /\ op.addr <= a /\ a < op.addr + Chunk
  BY AreaPositive DEF ChunkCells, Addrs
<1>2. op.addr + Chunk <= op.start + op.len /\ op.start + op.len <= SectorEnd(op.start)
        /\ Chunk \in Nat /\ op.addr \in Nat /\ op.start \in Addrs /\ op.start \in Nat /\ op.len \in Nat
  BY ChunkFits, LensNat, AreaPositive DEF Inv, StorageType, OpShape, Addrs
<1>3. SectorEnd(op.start) \in Nat
  BY <1>2, SectorInArea, AreaPositive
<1> QED
  BY <1>1, <1>2, <1>3

(* Programmed on erased cells a frame stays intact, and the cells behind   *)
(* it stay erased.                                                         *)
LEMMA ProgramKeepsIntact ==
  ASSUME Inv, ProgramPage, Intact,
         \A a \in Addrs : op.addr <= a /\ a < SectorEnd(op.start) => flash[a] = Erased
  PROVE  /\ op'.at \in {"program", "verify"} /\ op'.start = op.start
         /\ \A a \in Addrs : op'.addr <= a /\ a < SectorEnd(op.start) => flash'[a] = Erased
         /\ Intact'
<1>1. /\ op.at = "program"
      /\ flash' = [a \in Addrs |-> IF a \in ChunkCells THEN Programmed(a) ELSE flash[a]]
      /\ op' = [op EXCEPT !.addr = @ + Chunk,
                          !.at = IF op.addr + Chunk = op.start + op.len
                                 THEN "verify" ELSE "program"]
      /\ op \in [at : {"off", "idle", "erase", "program", "verify", "wipe"},
                 addr : 0 .. AreaSize, start : Addrs, len : Lens \cup {0}, seq : Seqs]
  BY DEF ProgramPage, Inv, StorageType
<1>2. /\ op'.at \in {"program", "verify"}
      /\ op'.addr = op.addr + Chunk /\ op'.start = op.start /\ op'.len = op.len /\ op'.seq = op.seq
  BY <1>1
<1>3. /\ Chunk \in Nat \ {0} /\ op.addr \in Nat /\ op.start \in Addrs /\ op.start \in Nat
      /\ op.start <= op.addr
  BY <1>1, ChunkFits, AreaPositive DEF Inv, OpShape, Addrs
<1>4. \A a \in ChunkCells : flash[a] = Erased
  BY <1>1, ChunkIsErased
<1>5. ASSUME NEW a \in Addrs, op.addr + Chunk <= a, a < SectorEnd(op.start)
      PROVE  flash'[a] = Erased
  <2>1. a \in Nat /\ a \notin ChunkCells /\ op.addr <= a
    BY <1>3, <1>5, AreaPositive DEF ChunkCells, Addrs
  <2> QED
    BY <1>1, <1>5, <2>1
<1>6. ASSUME NEW a \in Addrs, op.start <= a, a < op.addr + Chunk
      PROVE  flash'[a] = FrameByte(op.seq, op.len, a - op.start)
  <2>1. a \in Nat
    BY AreaPositive DEF Addrs
  <2>2. CASE a < op.addr
    <3>1. a \in Behind /\ a \notin ChunkCells
      BY <1>3, <1>6, <2>1, <2>2 DEF Behind, ChunkCells
    <3> QED
      BY <1>1, <3>1 DEF Intact, OwnByte
  <2>3. CASE ~(a < op.addr)
    <3>1. a \in ChunkCells
      BY <1>3, <1>6, <2>1, <2>3 DEF ChunkCells
    <3> QED
      BY <1>1, <1>4, <3>1 DEF Programmed
  <2> QED
    BY <2>2, <2>3
<1>7. Intact'
  BY <1>2, <1>6 DEF Intact, Behind, OwnByte
<1> QED
  BY <1>2, <1>5, <1>7

LEMMA StepCleanInv ==
  ASSUME IndexInv, CleanInv, [StorageStep]_StorageVars
  PROVE  CleanInv'
<1> SUFFICES ASSUME faults' = 0
             PROVE  /\ op'.at = "off" => \A a \in Addrs : flash'[a] = Erased
                    /\ op'.at = "idle" =>
                         \/ IsSectorStart(index'.write)
                         \/ \A a \in Addrs : index'.write <= a /\ a < SectorEnd(index'.write)
                                               => flash'[a] = Erased
                    /\ op'.at \in {"program", "verify"} =>
                         /\ \A a \in Addrs : op'.addr <= a /\ a < SectorEnd(op'.start)
                                               => flash'[a] = Erased
                         /\ Intact'
  BY DEF CleanInv
<1>0. Inv /\ Inv'
  BY StepInv DEF IndexInv
<1>a. /\ op \in [at : {"off", "idle", "erase", "program", "verify", "wipe"},
                 addr : 0 .. AreaSize, start : Addrs, len : Lens \cup {0}, seq : Seqs]
      /\ flash \in [Addrs -> Cell] /\ index \in Index /\ faults \in Nat
  BY <1>0 DEF Inv, StorageType
<1>1. CASE Boot
  <2>1. op.at = "off" /\ op' = Nothing /\ flash' = flash /\ faults' = faults /\ Rebuilt(flash, index')
    BY <1>1 DEF Boot
  <2>2. \A a \in Addrs : flash[a] = Erased
    BY <2>1 DEF CleanInv
  <2>3. Frames(flash) = {}
    BY <2>2 DEF Frames, ValidAt, Erased
  <2>4. flash[0] = Erased
    BY <2>2, AreaPositive DEF Addrs
  <2>5. index' = EmptyIndex(0)
    BY <2>1, <2>3, <2>4 DEF Rebuilt, CleanFrom
  <2>6. IsSectorStart(index'.write)
    BY <2>5, AreaPositive, ModRange DEF EmptyIndex, IsSectorStart
  <2> QED
    BY <2>1, <2>6 DEF Nothing
<1>2. ASSUME NEW n \in Lens, NEW s \in Seqs, BeginAppend(n, s)
      PROVE  CleanInv'
  <2> DEFINE p == PlaceFor(n)
  <2>1. /\ op.at = "idle" /\ flash' = flash /\ faults' = faults
        /\ op' = [at |-> IF IsSectorStart(p) THEN "erase" ELSE "program",
                  addr |-> p, start |-> p, len |-> n, seq |-> s]
    BY <1>2 DEF BeginAppend
  <2>2. p \in Addrs
    BY <1>a, PlaceFits
  <2>3. Behind' = {}
    BY <2>1, <2>2, AreaPositive DEF Behind, Addrs
  <2>4. CASE IsSectorStart(p)
    BY <2>1, <2>4 DEF CleanInv
  <2>5. CASE ~IsSectorStart(p)
    <3>1. p = index.write
      <4>1. index.write \in Addrs /\ index.write \in Nat
        BY <1>a, AreaPositive DEF Index, Addrs
      <4>2. Wrap(index.write) = index.write
        BY <4>1, AreaPositive DEF Wrap, Addrs
      <4> QED
        BY <2>5, <4>1, <4>2, NextSectorAligned DEF PlaceFor
    <3>2. \A a \in Addrs : p <= a /\ a < SectorEnd(p) => flash[a] = Erased
      BY <2>1, <2>5, <3>1 DEF CleanInv
    <3>3. op'.at = "program" /\ op'.addr = p /\ op'.start = p
      BY <2>1, <2>5
    <3> QED
      BY <2>1, <2>3, <3>2, <3>3 DEF CleanInv, Intact
  <2> QED
    BY <2>4, <2>5
<1>3. CASE EraseSector
  <2>1. /\ op.at = "erase" /\ faults' = faults
        /\ flash' = [a \in Addrs |-> IF a \in SectorCells(op.addr) THEN Erased ELSE flash[a]]
        /\ op' = [op EXCEPT !.at = "program"]
    BY <1>3 DEF EraseSector
  <2>2. /\ op'.at = "program" /\ op'.addr = op.addr /\ op'.start = op.addr /\ op.addr \in Addrs
    BY <1>0, <1>a, <2>1 DEF Inv, OpShape
  <2>3. Behind' = {}
    BY <2>2, AreaPositive DEF Behind, Addrs
  <2>4. \A a \in Addrs : op.addr <= a /\ a < SectorEnd(op.addr) => flash'[a] = Erased
    BY <2>1 DEF SectorCells
  <2> QED
    BY <2>2, <2>3, <2>4 DEF Intact
<1>4. CASE ProgramPage
  <2>1. op.at = "program" /\ faults' = faults
    BY <1>4 DEF ProgramPage
  <2>2. /\ \A a \in Addrs : op.addr <= a /\ a < SectorEnd(op.start) => flash[a] = Erased
        /\ Intact
    BY <2>1 DEF CleanInv
  <2>3. /\ op'.at \in {"program", "verify"} /\ op'.start = op.start
        /\ \A a \in Addrs : op'.addr <= a /\ a < SectorEnd(op.start) => flash'[a] = Erased
        /\ Intact'
    BY <1>0, <1>4, <2>2, ProgramKeepsIntact
  <2> QED
    BY <2>3
<1>5. CASE Verify
  <2>1. op.at = "verify" /\ op' = Nothing /\ flash' = flash /\ faults' = faults
    BY <1>5 DEF Verify
  <2>2. /\ \A a \in Addrs : op.addr <= a /\ a < SectorEnd(op.start) => flash[a] = Erased
        /\ Intact
    BY <2>1 DEF CleanInv
  <2>3. index'.write = Wrap(op.addr)
    BY <1>0, <1>5, <2>1, <2>2, IntactIsValid DEF Verify, Updated
  <2>4. /\ op.start \in Addrs /\ op.start \in Nat /\ op.addr \in Nat /\ op.len \in Nat
        /\ op.addr = op.start + op.len /\ op.addr <= SectorEnd(op.start)
    BY <1>0, <1>a, <2>1, LensNat, AreaPositive DEF Inv, OpShape, Addrs
  <2>5. SectorEnd(op.start) \in Nat /\ SectorStart(op.start) \in Nat
          /\ SectorStart(op.start) <= op.start /\ SectorEnd(op.start) <= AreaSize
    BY <2>4, SectorInArea, AreaPositive
  <2>6. CASE op.addr = SectorEnd(op.start)
    BY <2>1, <2>3, <2>4, <2>6, SectorEndAligned DEF Nothing
  <2>7. CASE op.addr # SectorEnd(op.start)
    <3>1. op.addr < SectorEnd(op.start) /\ op.addr < AreaSize /\ op.addr \in Addrs
      BY <2>4, <2>5, <2>7, AreaPositive DEF Addrs
    <3>2. index'.write = op.addr
      BY <2>3, <2>4, <3>1, AreaPositive DEF Wrap
    <3>3. SectorStart(op.start) <= op.addr
      BY <2>4, <2>5
    <3>4. SectorEnd(op.addr) = SectorEnd(op.start)
      BY <2>4, <3>1, <3>3, SameSector DEF SectorEnd
    <3> QED
      BY <2>1, <2>2, <3>2, <3>4 DEF Nothing
  <2> QED
    BY <2>6, <2>7
<1>6. CASE StartWipe \/ WipeSector
  <2>1. op'.at = "wipe"
    BY <1>6, <1>a DEF StartWipe, WipeSector, Nothing
  <2> QED
    BY <2>1
<1>7. CASE EndWipe
  <2>1. op' = Nothing /\ index' = EmptyIndex(0)
    BY <1>7 DEF EndWipe
  <2>2. IsSectorStart(index'.write)
    BY <2>1, AreaPositive, ModRange DEF EmptyIndex, IsSectorStart
  <2> QED
    BY <2>1, <2>2 DEF Nothing
<1>8. CASE AppendFails \/ WipeFails \/ PowerLoss
  <2>1. faults' = faults + 1
    BY <1>8 DEF AppendFails, WipeFails, PowerLoss, Fault
  <2> QED
    BY <1>a, <2>1
<1>9. CASE UNCHANGED StorageVars
  <2>1. flash' = flash /\ index' = index /\ op' = op /\ faults' = faults
    BY <1>9 DEF StorageVars
  <2> QED
    BY <2>1 DEF CleanInv, Intact, Behind, OwnByte
<1> QED
  BY <1>1, <1>2, <1>3, <1>4, <1>5, <1>6, <1>7, <1>8, <1>9 DEF StorageStep, CleanInv

LEMMA CleanInvHolds == Spec => []CleanRingInv
<1>1. Init => CleanRingInv
  BY InitIndexInv, InitCleanInv, FlashAssumption DEF Init, CleanRingInv, Seqs
<1>2. CleanRingInv /\ [Next]_vars => CleanRingInv'
  BY NextIsStorageStep, NextSeqType, StepIndexInv, StepCleanInv DEF CleanRingInv, IndexInv
<1> QED
  BY <1>1, <1>2, PTL DEF Spec

(* As long as nothing has failed append programs erased cells only, for    *)
(* every geometry and frame length: each sector is erased before its first *)
(* byte is programmed, and no byte is programmed twice.                    *)
THEOREM AppendOnErasedCells == Spec => []ProgramsErasedCells
<1>1. CleanRingInv => ProgramsErasedCells
  <2> SUFFICES ASSUME CleanRingInv, faults = 0, op.at = "program",
                      NEW a \in Addrs, op.addr <= a, a < op.start + op.len
               PROVE  flash[a] = Erased
    BY DEF ProgramsErasedCells
  <2>1. op.start \in Addrs /\ op.start \in Nat /\ op.len \in Nat /\ a \in Nat
          /\ op.start + op.len <= SectorEnd(op.start)
    BY LensNat, AreaPositive DEF CleanRingInv, IndexInv, Inv, StorageType, OpShape, Addrs
  <2>2. SectorEnd(op.start) \in Nat
    BY <2>1, SectorInArea, AreaPositive
  <2> QED
    BY <2>1, <2>2 DEF CleanRingInv, CleanInv
<1> QED
  BY <1>1, CleanInvHolds, PTL

-----------------------------------------------------------------------------
(* Arithmetic of the sequence numbers.                                     *)

Half == (SeqCount - 1) \div 2

(* How many numbers s is ahead of t on the circle.                         *)
Diff(s, t) == IF s >= t THEN s - t ELSE s - t + SeqCount

LEMMA HalfBound == Half \in Nat /\ 2 * Half < SeqCount /\ SeqCount \in Nat \ {0, 1} /\ 1 <= Half
BY FlashAssumption DEF Half

LEMMA DiffType ==
  ASSUME NEW s \in Seqs, NEW t \in Seqs
  PROVE  /\ Diff(s, t) \in 0 .. SeqCount - 1
         /\ Diff(s, t) = 0 <=> s = t
BY HalfBound DEF Diff, Seqs

LEMMA SmallMod ==
  ASSUME NEW S \in Nat \ {0}, NEW z \in Int, 0 <= z, z < S
  PROVE  z % S = z /\ (z - S) % S = z
OBVIOUS

LEMMA DiffMod ==
  ASSUME NEW s \in Seqs, NEW t \in Seqs
  PROVE  (s - t) % SeqCount = Diff(s, t)
<1>1. s \in Nat /\ t \in Nat /\ s < SeqCount /\ t < SeqCount /\ SeqCount \in Nat \ {0}
  BY HalfBound DEF Seqs
<1>2. CASE s >= t
  BY <1>1, <1>2, SmallMod, s - t \in Int DEF Diff
<1>3. CASE ~(s >= t)
  <2>1. s - t + SeqCount \in Int /\ 0 <= s - t + SeqCount /\ s - t + SeqCount < SeqCount
    BY <1>1, <1>3
  <2>2. ((s - t + SeqCount) - SeqCount) % SeqCount = s - t + SeqCount
    BY <1>1, <2>1, SmallMod
  <2>3. (s - t + SeqCount) - SeqCount = s - t
    BY <1>1
  <2> QED
    BY <1>3, <2>2, <2>3 DEF Diff
<1> QED
  BY <1>2, <1>3

LEMMA NextSeqOf ==
  ASSUME NEW c \in Seqs
  PROVE  /\ (c + 1) % SeqCount \in Seqs
         /\ (c + 1) % SeqCount = IF c + 1 = SeqCount THEN 0 ELSE c + 1
<1>1. c \in Nat /\ c < SeqCount /\ SeqCount \in Nat \ {0}
  BY HalfBound DEF Seqs
<1>2. CASE c + 1 = SeqCount
  BY <1>1, <1>2 DEF Seqs
<1>3. CASE c + 1 # SeqCount
  BY <1>1, <1>3, SmallMod DEF Seqs
<1> QED
  BY <1>2, <1>3

(* Counting on by one number.                                              *)
LEMMA DiffNext ==
  ASSUME NEW c \in Seqs, NEW s \in Seqs, Diff(c, s) + 1 < SeqCount
  PROVE  Diff((c + 1) % SeqCount, s) = Diff(c, s) + 1
<1>1. c \in Nat /\ s \in Nat /\ c < SeqCount /\ s < SeqCount /\ SeqCount \in Nat \ {0}
  BY HalfBound DEF Seqs
<1>2. (c + 1) % SeqCount = IF c + 1 = SeqCount THEN 0 ELSE c + 1
  BY NextSeqOf
<1> DEFINE d == (c + 1) % SeqCount
<1>3. d = IF c + 1 = SeqCount THEN 0 ELSE c + 1
  BY <1>2
<1> HIDE DEF d
<1>4. Diff(d, s) = Diff(c, s) + 1
  BY <1>1, <1>3 DEF Diff
<1> QED
  BY <1>4 DEF d

(* The same distance measured from a number further back.                  *)
LEMMA DiffShift ==
  ASSUME NEW c \in Seqs, NEW d \in Seqs, NEW s \in Seqs, Diff(c, d) <= Diff(c, s)
  PROVE  Diff(d, s) = Diff(c, s) - Diff(c, d)
<1>1. /\ c \in Nat /\ s \in Nat /\ d \in Nat /\ SeqCount \in Nat \ {0}
      /\ c < SeqCount /\ s < SeqCount /\ d < SeqCount
  BY HalfBound DEF Seqs
<1> QED
  BY <1>1 DEF Diff

(* Less than half of the circle behind c, newer means nearer to c.         *)
LEMMA NewerIsNearer ==
  ASSUME NEW c \in Seqs, NEW s \in Seqs, NEW t \in Seqs,
         Diff(c, s) \in 1 .. Half, Diff(c, t) \in 1 .. Half
  PROVE  /\ Newer(s, t) <=> Diff(c, s) < Diff(c, t)
         /\ s = t <=> Diff(c, s) = Diff(c, t)
<1>1. /\ c \in Nat /\ s \in Nat /\ t \in Nat /\ SeqCount \in Nat /\ Half \in Nat
      /\ c < SeqCount /\ s < SeqCount /\ t < SeqCount /\ 2 * Half < SeqCount
  BY HalfBound DEF Seqs
<1>2. Newer(s, t) <=> Diff(s, t) \in 1 .. Half
  BY DiffMod DEF Newer, Half
<1>3. Diff(s, t) = IF Diff(c, s) <= Diff(c, t) THEN Diff(c, t) - Diff(c, s)
                   ELSE Diff(c, t) - Diff(c, s) + SeqCount
  BY <1>1 DEF Diff
<1>4. s = t <=> Diff(c, s) = Diff(c, t)
  BY <1>1 DEF Diff
<1> QED
  BY <1>1, <1>2, <1>3, <1>4

-----------------------------------------------------------------------------
(* Arithmetic of the ring.                                                 *)

LEMMA AheadType ==
  ASSUME NEW a \in Addrs, NEW p \in Addrs
  PROVE  /\ Ahead(a, p) \in 0 .. AreaSize - 1
         /\ \A b \in Addrs : Ahead(a, p) = Ahead(b, p) => a = b
BY AreaPositive DEF Ahead, Addrs

(* From n on to g in the same sector: seen from there every address before *)
(* n, or in a later sector, is nearer by as much, and n is the farthest.   *)
LEMMA Turn ==
  ASSUME NEW n \in Addrs, NEW g \in Nat, n < g, g <= SectorEnd(n)
  PROVE  /\ Wrap(g) \in Addrs
         /\ Ahead(n, Wrap(g)) = AreaSize - (g - n)
         /\ \A a \in Addrs : a < n \/ a >= SectorEnd(n) =>
              Ahead(a, Wrap(g)) = Ahead(a, n) - (g - n)
<1>1. n \in Nat /\ AreaSize \in Nat /\ n < AreaSize /\ SectorEnd(n) \in Nat /\ SectorEnd(n) <= AreaSize
  BY SectorInArea, AreaPositive DEF Addrs
<1>2. Wrap(g) \in Addrs
  BY WrapInArea
<1>3. Ahead(n, Wrap(g)) = AreaSize - (g - n)
  BY <1>1 DEF Wrap, Ahead
<1>4. ASSUME NEW a \in Addrs, a < n \/ a >= SectorEnd(n)
      PROVE  Ahead(a, Wrap(g)) = Ahead(a, n) - (g - n)
  <2>1. a \in Nat /\ a < AreaSize
    BY AreaPositive DEF Addrs
  <2> QED
    BY <1>1, <1>4, <2>1 DEF Wrap, Ahead
<1> QED
  BY <1>2, <1>3, <1>4

-----------------------------------------------------------------------------
(* The order of the frames around the ring.                                *)

(* Seen from address p, the nearer of two frames of S is the older one,    *)
(* counting back from number c.                                            *)
Ordered(fl, S, p, c) ==
  /\ \A a \in S : Diff(c, fl[a].seq) \in 1 .. Half
  /\ \A a, b \in S : Ahead(a, p) < Ahead(b, p) => Diff(c, fl[b].seq) < Diff(c, fl[a].seq)

(* The frames of S in the sector of p end before p.                        *)
EndBefore(fl, S, p) ==
  \A f \in S : SectorStart(f) = SectorStart(p) => f + fl[f].len <= p

Apart(fl, S, p) == IsSectorStart(p) \/ EndBefore(fl, S, p)

(* No frame ends exactly with its sector.                                  *)
NotFilledIn(fl) == \A f \in Frames(fl) : f + fl[f].len # SectorEnd(f)

(* Frames do not overlap.                                                  *)
LEMMA FramesApart ==
  ASSUME NEW fl \in [Addrs -> Cell], NEW f \in Frames(fl), NEW g \in Frames(fl), f < g
  PROVE  f + fl[f].len <= g
<1>1. /\ f \in Nat /\ g \in Nat /\ fl[f].len \in Nat /\ fl[g].off = 0
      /\ \A i \in 0 .. fl[f].len - 1 : fl[f + i].off = i
  BY FrameCells
<1>2. SUFFICES ASSUME g < f + fl[f].len
               PROVE  FALSE
  BY <1>1
<1>3. g - f \in 0 .. fl[f].len - 1 /\ f + (g - f) = g
  BY <1>1, <1>2
<1>4. fl[g].off = g - f
  BY <1>1, <1>3
<1> QED
  BY <1>1, <1>4

(* The order depends on the arcs between the frames only.                  *)
LEMMA OrderedShift ==
  ASSUME NEW fl, NEW S \in SUBSET Addrs, NEW p \in Addrs, NEW q \in Addrs, NEW k \in Int, NEW c,
         Ordered(fl, S, p, c), \A a \in S : Ahead(a, q) = Ahead(a, p) + k
  PROVE  Ordered(fl, S, q, c)
<1> SUFFICES ASSUME NEW a \in S, NEW b \in S, Ahead(a, q) < Ahead(b, q)
             PROVE  Ahead(a, p) < Ahead(b, p)
  BY DEF Ordered
<1>1. Ahead(a, p) \in Int /\ Ahead(b, p) \in Int
  BY AheadType
<1> QED
  BY <1>1

LEMMA OrderedSubset ==
  ASSUME NEW fl, NEW S, NEW gl, NEW T, T \subseteq S, \A a \in T : gl[a].seq = fl[a].seq,
         NEW p, NEW c, Ordered(fl, S, p, c)
  PROVE  Ordered(gl, T, p, c)
BY DEF Ordered

(* Nearer to p is older, both ways.                                        *)
LEMMA OrderedIff ==
  ASSUME NEW fl \in [Addrs -> Cell], NEW S \in SUBSET Addrs, NEW p \in Addrs, NEW c \in Seqs,
         Ordered(fl, S, p, c), NEW a \in S, NEW b \in S
  PROVE  /\ Ahead(a, p) < Ahead(b, p) <=> Diff(c, fl[b].seq) < Diff(c, fl[a].seq)
         /\ Ahead(a, p) <= Ahead(b, p) <=> Diff(c, fl[b].seq) <= Diff(c, fl[a].seq)
         /\ a = b <=> fl[a].seq = fl[b].seq
<1>1. Ahead(a, p) \in Nat /\ Ahead(b, p) \in Nat /\ (Ahead(a, p) = Ahead(b, p) => a = b)
  BY AheadType
<1>2. fl[a].seq \in Seqs /\ fl[b].seq \in Seqs
  BY CellFields
<1>3. Diff(c, fl[a].seq) \in Nat /\ Diff(c, fl[b].seq) \in Nat
  BY <1>2, DiffType, HalfBound
<1>4. /\ Ahead(a, p) < Ahead(b, p) => Diff(c, fl[b].seq) < Diff(c, fl[a].seq)
      /\ Ahead(b, p) < Ahead(a, p) => Diff(c, fl[a].seq) < Diff(c, fl[b].seq)
  BY DEF Ordered
<1> QED
  BY <1>1, <1>3, <1>4

(* The places of FrameJoins alone: where the frames are, seen from behind  *)
(* the one at p, which comes last in its sector.                           *)
LEMMA PlaceJoins ==
  ASSUME NEW fl \in [Addrs -> Cell], HomedIn(fl), NEW p \in Frames(fl),
         EndBefore(fl, Frames(fl) \ {p}, p), NEW e, e = Wrap(p + fl[p].len)
  PROVE  /\ e \in Addrs
         /\ Apart(fl, Frames(fl), e)
         /\ Ahead(p, e) = AreaSize - fl[p].len
         /\ \A a \in Frames(fl) \ {p} : Ahead(a, e) = Ahead(a, p) - fl[p].len
<1> DEFINE F == Frames(fl)
           g == p + fl[p].len
<1>1. /\ p \in Addrs /\ p \in Nat /\ fl[p].len \in Nat /\ fl[p].len > 0 /\ fl[p].off = 0
      /\ F \subseteq Addrs
  BY FrameCells, FramesFinite
<1>2. g \in Nat /\ p < g /\ g <= SectorEnd(p)
  BY <1>1 DEF HomedIn
<1>3. ASSUME NEW a \in F, a # p
      PROVE  a \in Addrs /\ (a < p \/ a >= SectorEnd(p))
  <2>1. a \in Addrs /\ a \in Nat /\ fl[a].len \in Nat /\ fl[a].len > 0
    BY FrameCells
  <2>2. SUFFICES ASSUME p < a, a < SectorEnd(p)
                 PROVE  FALSE
    <3>1. SectorEnd(p) \in Nat
      BY <1>1, SectorInArea, AreaPositive
    <3> QED
      BY <1>1, <1>3, <2>1, <2>2, <3>1
  <2>3. SectorStart(p) \in Nat /\ SectorStart(p) <= p
    BY <1>1, SectorInArea
  <2>4. SectorStart(a) = SectorStart(p)
    BY <1>1, <2>1, <2>2, <2>3, SameSector
  <2>5. a + fl[a].len <= p
    BY <1>3, <2>4 DEF EndBefore
  <2> QED
    BY <1>1, <2>1, <2>2, <2>5
<1>4. /\ e \in Addrs
      /\ Ahead(p, e) = AreaSize - (g - p)
      /\ \A a \in F \ {p} : Ahead(a, e) = Ahead(a, p) - (g - p)
  BY <1>1, <1>2, <1>3, Turn
<1>5. e = Wrap(g) /\ g - p = fl[p].len
  BY <1>1
<1> HIDE DEF g
<1>6. Apart(fl, F, e)
  <2>1. CASE g = SectorEnd(p)
    BY <1>1, <1>5, <2>1, SectorEndAligned DEF Apart
  <2>2. CASE g # SectorEnd(p)
    <3>1. g < SectorEnd(p) /\ SectorEnd(p) <= AreaSize /\ SectorStart(p) \in Nat /\ SectorStart(p) <= p
            /\ SectorEnd(p) \in Nat
      BY <1>1, <1>2, <2>2, SectorInArea, AreaPositive
    <3>2. e = g /\ g \in Addrs
      BY <1>2, <1>5, <3>1, AreaPositive DEF Wrap, Addrs
    <3>3. SectorStart(e) = SectorStart(p)
      BY <1>1, <1>2, <3>1, <3>2, SameSector
    <3>4. ASSUME NEW f \in F, SectorStart(f) = SectorStart(e)
          PROVE  f + fl[f].len <= e
      <4>1. CASE f = p
        BY <1>2, <3>2, <4>1 DEF g
      <4>2. CASE f # p
        <5>1. f + fl[f].len <= p
          BY <3>3, <3>4, <4>2 DEF EndBefore
        <5>2. f \in Nat /\ fl[f].len \in Nat
          BY FrameCells
        <5> QED
          BY <1>1, <1>2, <3>2, <5>1, <5>2
      <4> QED
        BY <4>1, <4>2
    <3> QED
      BY <3>4 DEF Apart, EndBefore
  <2> QED
    BY <2>1, <2>2
<1> QED
  BY <1>4, <1>5, <1>6

(* A frame written at p joins as the youngest: the write pointer goes      *)
(* behind it.                                                              *)
LEMMA FrameJoins ==
  ASSUME NEW fl \in [Addrs -> Cell], HomedIn(fl), NEW p \in Frames(fl), NEW c \in Seqs,
         Ordered(fl, Frames(fl) \ {p}, p, c), EndBefore(fl, Frames(fl) \ {p}, p),
         \A a \in Frames(fl) \ {p} : Diff(c, fl[a].seq) >= 2,
         Diff(c, fl[p].seq) = 1
  PROVE  LET e == Wrap(p + fl[p].len)
         IN  /\ e \in Addrs
             /\ Ordered(fl, Frames(fl), e, c)
             /\ Apart(fl, Frames(fl), e)
             /\ Ahead(p, e) = AreaSize - fl[p].len
             /\ \A a \in Frames(fl) \ {p} : Ahead(a, e) = Ahead(a, p) - fl[p].len
<1> DEFINE F == Frames(fl)
           e == Wrap(p + fl[p].len)
<1>1. /\ p \in Addrs /\ F \subseteq Addrs /\ fl[p].len \in Nat /\ fl[p].len > 0
  BY FrameCells, FramesFinite
<1>2. /\ e \in Addrs /\ Apart(fl, F, e)
      /\ Ahead(p, e) = AreaSize - fl[p].len
      /\ \A a \in F \ {p} : Ahead(a, e) = Ahead(a, p) - fl[p].len
  BY PlaceJoins
<1> HIDE DEF e
<1>3. \A a \in F : fl[a].seq \in Seqs /\ Diff(c, fl[a].seq) \in Nat
  BY <1>1, CellFields, DiffType, HalfBound
<1>4. Ordered(fl, F, e, c)
  <2>1. ASSUME NEW a \in F
        PROVE  Diff(c, fl[a].seq) \in 1 .. Half
    <3>1. CASE a = p
      BY <3>1, HalfBound
    <3>2. CASE a # p
      BY <3>2 DEF Ordered
    <3> QED
      BY <3>1, <3>2
  <2>2. ASSUME NEW a \in F, NEW b \in F, Ahead(a, e) < Ahead(b, e)
        PROVE  Diff(c, fl[b].seq) < Diff(c, fl[a].seq)
    <3>1. Ahead(a, e) \in Nat /\ Ahead(b, e) \in Nat /\ Ahead(a, p) \in Nat /\ Ahead(b, p) \in Nat
            /\ Ahead(a, p) < AreaSize /\ Ahead(b, p) < AreaSize /\ AreaSize \in Nat
      BY <1>1, <1>2, AheadType, AreaPositive
    <3>2. CASE a = p
      <4>1. b # p
        BY <2>2, <3>1, <3>2
      <4> QED
        BY <1>1, <1>2, <2>2, <3>1, <3>2, <4>1
    <3>3. CASE a # p /\ b = p
      BY <1>3, <3>3
    <3>4. CASE a # p /\ b # p
      <4>1. Ahead(a, p) < Ahead(b, p)
        BY <1>1, <1>2, <2>2, <3>1, <3>4
      <4> QED
        BY <3>4, <4>1 DEF Ordered
    <3> QED
      BY <3>2, <3>3, <3>4
  <2> QED
    BY <2>1, <2>2 DEF Ordered
<1> QED
  BY <1>2, <1>4 DEF e

(* After a search of the whole log the index names the true ends, and the  *)
(* order is kept from the new write pointer on, unless the newest frame    *)
(* fills its sector to the last byte.                                      *)
LEMMA RebuiltOrdered ==
  ASSUME NEW fl \in [Addrs -> Cell], HomedIn(fl), NotFilledIn(fl),
         NEW p \in Addrs, NEW c \in Seqs,
         Ordered(fl, Frames(fl), p, c), Apart(fl, Frames(fl), p),
         NEW ix, Rebuilt(fl, ix)
  PROVE  /\ Ordered(fl, Frames(fl), ix.write, c)
         /\ Apart(fl, Frames(fl), ix.write)
         /\ ix.count > 0 =>
              /\ ix.newestSeq = fl[ix.newest].seq
              /\ \A a \in Frames(fl) : Ahead(ix.oldest, ix.write) <= Ahead(a, ix.write)
              /\ \A a \in Frames(fl) : Diff(c, fl[ix.newest].seq) <= Diff(c, fl[a].seq)
<1> DEFINE F == Frames(fl)
<1>1. CASE F = {}
  <2>1. ix.count = 0
    BY <1>1, FS_EmptySet DEF Rebuilt, EmptyIndex
  <2> QED
    BY <1>1, <2>1 DEF Ordered, Apart, EndBefore
<1>2. CASE F # {}
  <2>1. PICK n \in F, o \in F :
          /\ IsNewest(fl, n) /\ IsOldest(fl, o)
          /\ ix = [write |-> CleanFrom(fl, Wrap(n + fl[n].len)),
                   oldest |-> o, newest |-> n, newestSeq |-> fl[n].seq,
                   count |-> Cardinality(F)]
    BY <1>2 DEF Rebuilt
  <2> DEFINE g == n + fl[n].len
             w == CleanFrom(fl, Wrap(g))
  <2>2. /\ n \in Addrs /\ n \in Nat /\ o \in Addrs /\ fl[n].len \in Nat /\ fl[n].len > 0 /\ fl[n].off = 0
        /\ F \subseteq Addrs
    BY FrameCells, FramesFinite
  <2>3. \A a \in F : fl[a].seq \in Seqs /\ Diff(c, fl[a].seq) \in 1 .. Half /\ Diff(c, fl[a].seq) \in Nat
    BY <2>2, CellFields, DiffType DEF Ordered
  <2>4. \A a \in F : Diff(c, fl[n].seq) <= Diff(c, fl[a].seq)
    <3> SUFFICES ASSUME NEW a \in F
                 PROVE  Diff(c, fl[n].seq) <= Diff(c, fl[a].seq)
      OBVIOUS
    <3>1. ~Newer(fl[a].seq, fl[n].seq)
      BY <2>1 DEF IsNewest
    <3>2. ~(Diff(c, fl[a].seq) < Diff(c, fl[n].seq))
      BY <2>3, <3>1, NewerIsNearer
    <3> QED
      BY <2>3, <3>2
  <2>5. \A a \in F : Diff(c, fl[a].seq) <= Diff(c, fl[o].seq)
    <3> SUFFICES ASSUME NEW a \in F
                 PROVE  Diff(c, fl[a].seq) <= Diff(c, fl[o].seq)
      OBVIOUS
    <3>1. ~Newer(fl[o].seq, fl[a].seq)
      BY <2>1 DEF IsOldest
    <3>2. ~(Diff(c, fl[o].seq) < Diff(c, fl[a].seq))
      BY <2>3, <3>1, NewerIsNearer
    <3> QED
      BY <2>3, <3>2
  <2>6. /\ g \in Nat /\ n < g /\ g < SectorEnd(n) /\ SectorEnd(n) \in Nat /\ SectorEnd(n) <= AreaSize
        /\ SectorStart(n) \in Nat /\ SectorStart(n) <= n
    <3>1. g <= SectorEnd(n) /\ g # SectorEnd(n)
      BY <2>2 DEF HomedIn, NotFilledIn
    <3>2. SectorEnd(n) \in Nat /\ SectorEnd(n) <= AreaSize /\ SectorStart(n) \in Nat /\ SectorStart(n) <= n
      BY <2>2, SectorInArea, AreaPositive
    <3> QED
      BY <2>2, <3>1, <3>2
  <2>7. Wrap(g) = g /\ g \in Addrs /\ SectorStart(g) = SectorStart(n) /\ SectorEnd(g) = SectorEnd(n)
    <3>1. Wrap(g) = g /\ g \in Addrs
      BY <2>6, AreaPositive DEF Wrap, Addrs
    <3>2. SectorStart(g) = SectorStart(n)
      BY <2>2, <2>6, <3>1, SameSector
    <3> QED
      BY <3>1, <3>2 DEF SectorEnd
  <2>8. ASSUME NEW a \in F
        PROVE  Ahead(a, p) <= Ahead(n, p)
    BY <2>2, <2>4, OrderedIff
  <2>9. ASSUME NEW a \in F, a > n
        PROVE  a >= SectorEnd(n)
    <3>1. /\ a \in Nat /\ a \in Addrs /\ p \in Nat /\ p \in Addrs /\ a < AreaSize /\ AreaSize \in Nat
          /\ fl[a].len \in Nat /\ fl[a].len > 0
      BY FrameCells, AreaPositive DEF Addrs
    <3>2. SUFFICES ASSUME a < SectorEnd(n)
                   PROVE  FALSE
      BY <2>6, <3>1
    <3>3. n < p /\ p <= a
      BY <2>2, <2>8, <2>9, <3>1 DEF Ahead
    <3>4. SectorStart(p) = SectorStart(n) /\ SectorStart(a) = SectorStart(n)
      <4>1. SectorStart(n) <= p /\ p < SectorEnd(n) /\ SectorStart(n) <= a
        BY <2>2, <2>6, <3>1, <3>2, <3>3
      <4> QED
        BY <2>2, <3>1, <3>2, <4>1, SameSector
    <3>5. ~IsSectorStart(p)
      <4>1. SectorStart(p) # p
        BY <2>2, <2>6, <3>1, <3>3, <3>4
      <4> QED
        BY <4>1, SectorInArea
    <3>6. a + fl[a].len <= p
      BY <3>4, <3>5 DEF Apart, EndBefore
    <3> QED
      BY <3>1, <3>3, <3>6
  <2>20. w = CleanFrom(fl, Wrap(g))
    OBVIOUS
  <2> HIDE DEF g, w
  <2>10. PICK h \in Nat : n < h /\ h <= SectorEnd(n) /\ w = Wrap(h) /\ (h = g \/ h = SectorEnd(n))
    <3>1. CASE fl[g] = Erased
      <4>1. w = g
        BY <2>7, <2>20, <3>1 DEF CleanFrom
      <4> QED
        BY <2>6, <2>7, <4>1
    <3>2. CASE fl[g] # Erased
      <4>1. NextSector(g) = SectorEnd(n)
        <5>1. SectorStart(g) # g
          BY <2>2, <2>6, <2>7
        <5>2. g % SectorSize # 0
          BY <2>7, <5>1, SectorInArea DEF IsSectorStart
        <5>3. NextSector(g) = g + (SectorSize - (g % SectorSize))
          BY <5>2 DEF NextSector
        <5>4. SectorEnd(g) = (g - (g % SectorSize)) + SectorSize
          BY DEF SectorEnd, SectorStart
        <5>5. SectorSize \in Nat /\ g % SectorSize \in Nat
          BY <2>6, AreaPositive, ModRange
        <5> QED
          BY <2>6, <2>7, <5>3, <5>4, <5>5
      <4>2. w = Wrap(SectorEnd(n))
        <5>1. w = Wrap(NextSector(g))
          BY <2>7, <2>20, <3>2, Zenon DEF CleanFrom
        <5> QED
          BY <4>1, <5>1, Zenon
      <4>3. n < SectorEnd(n) /\ SectorEnd(n) <= SectorEnd(n)
        BY <2>2, <2>6
      <4> QED
        BY <2>6, <4>2, <4>3, Zenon
    <3> QED
      BY <3>1, <3>2
  <2>11. /\ w \in Addrs
         /\ Ahead(n, w) = AreaSize - (h - n)
         /\ \A a \in F \ {n} : Ahead(a, w) = Ahead(a, n) - (h - n)
    <3>1. \A a \in F \ {n} : a \in Addrs /\ a \in Nat /\ (a < n \/ a >= SectorEnd(n))
      BY <2>2, <2>9, AreaPositive DEF Addrs
    <3> QED
      BY <2>2, <2>10, <3>1, Turn
  <2>12. \A a \in F : Ahead(a, w) = Ahead(a, p) + (AreaSize - Ahead(n, p) - (h - n))
    <3> SUFFICES ASSUME NEW a \in F
                 PROVE  Ahead(a, w) = Ahead(a, p) + (AreaSize - Ahead(n, p) - (h - n))
      OBVIOUS
    <3>1. AreaSize \in Nat /\ Ahead(n, p) \in Nat /\ Ahead(a, p) \in Nat /\ a \in Addrs /\ a \in Nat
      BY <2>2, AheadType, AreaPositive DEF Addrs
    <3>2. CASE a = n
      BY <2>2, <2>10, <2>11, <3>1, <3>2
    <3>3. CASE a # n
      <4>1. Ahead(a, p) < Ahead(n, p)
        BY <2>2, <2>8, <3>1, <3>3, AheadType
      <4>2. Ahead(a, n) = Ahead(a, p) - Ahead(n, p) + AreaSize
        <5>1. p \in Nat /\ p < AreaSize /\ a < AreaSize /\ n < AreaSize
          BY <2>2, <3>1, AreaPositive DEF Addrs
        <5> QED
          BY <2>2, <3>1, <3>3, <4>1, <5>1 DEF Ahead
      <4> QED
        BY <2>2, <2>10, <2>11, <3>1, <3>3, <4>2
    <3> QED
      BY <3>2, <3>3
  <2>13. Ordered(fl, F, w, c)
    <3>1. AreaSize - Ahead(n, p) - (h - n) \in Int
      BY <2>2, <2>10, AheadType, AreaPositive
    <3> QED
      BY <2>2, <2>11, <2>12, <3>1, OrderedShift
  <2>14. Apart(fl, F, w)
    <3>1. CASE h = SectorEnd(n)
      BY <2>2, <2>10, <3>1, SectorEndAligned DEF Apart
    <3>2. CASE h = g
      <4>1. w = g
        BY <2>7, <2>10, <3>2
      <4>2. ASSUME NEW f \in F, SectorStart(f) = SectorStart(w)
            PROVE  f + fl[f].len <= w
        <5>1. f \in Addrs /\ f \in Nat /\ fl[f].len \in Nat
          BY FrameCells
        <5>2. f < SectorEnd(n)
          BY <2>7, <4>1, <4>2, <5>1, SectorInArea DEF SectorEnd
        <5>3. f <= n
          BY <2>2, <2>6, <2>9, <5>1, <5>2
        <5>4. CASE f = n
          BY <4>1, <5>4 DEF g
        <5>5. CASE f < n
          <6>1. f + fl[f].len <= n
            BY <5>5, FramesApart
          <6> QED
            BY <2>2, <2>6, <4>1, <5>1, <6>1
        <5> QED
          BY <2>2, <5>1, <5>3, <5>4, <5>5
      <4> QED
        BY <4>2 DEF Apart, EndBefore
    <3> QED
      BY <2>10, <3>1, <3>2
  <2>15. ix.write = w /\ ix.oldest = o /\ ix.newest = n /\ ix.newestSeq = fl[n].seq
    BY <2>1 DEF w, g
  <2>16. \A a \in F : Ahead(o, w) <= Ahead(a, w)
    BY <2>2, <2>5, <2>11, <2>13, OrderedIff
  <2> QED
    BY <2>4, <2>13, <2>14, <2>15, <2>16
<1> QED
  BY <1>1, <1>2
=============================================================================
