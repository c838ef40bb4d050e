-------------------------- MODULE FlashOrderProofs --------------------------
(***************************************************************************)
(* Theorems about what a reader of the flash log gets: the next number is  *)
(* newer than every stored one, the index names the true oldest and newest *)
(* frame, a dump has every frame once and by age, and a frame that cannot  *)
(* be read back costs no other.  They hold for every geometry, every set   *)
(* of frame lengths and every pattern of faults, if the numbers outlast    *)
(* the log and, once something has failed, no frame ends with its sector.  *)
(***************************************************************************)
EXTENDS FlashLogProofs

(* What the order in flash rests on besides the code: the search for the   *)
(* newest frame takes a sector whose last frame ends with it for one with  *)
(* room left.  Until something fails that search finds an empty log, and   *)
(* there is no such condition.                                             *)
SectorsNotFilled == faults = 0 \/ NotFilledIn(flash)

(* No frame is shorter than n, and half of the sequence numbers last for   *)
(* one round of the log with such frames, and for one more with each of f  *)
(* faults.  In the program a frame has 18 bytes or more, the log 1 MB and  *)
(* a sequence number 32 bits: enough for some 36 000 faults.               *)
NumbersOutlast(n, f) ==
  /\ \A m \in Lens : n <= m
  /\ 2 * ((f + 1) * (AreaSize + n)) < n * SeqCount

-----------------------------------------------------------------------------
Appending == op.at \in {"erase", "program", "verify"}

(* The frames besides the one that append is writing.                      *)
Settled == IF op.at = "erase" THEN Frames(flash) ELSE Frames(flash) \ {op.start}

(* Frames that will still be there when append writes its own.             *)
Staying == IF op.at = "erase" THEN Frames(flash) \ SectorCells(op.addr) ELSE Settled

(* An index that names the ends of the log fl, the next number being c.    *)
EndsNamed(fl, ix, c) ==
  ix.count > 0 =>
    /\ ix.newestSeq = fl[ix.newest].seq
    /\ \A a \in Frames(fl) : Ahead(ix.oldest, ix.write) <= Ahead(a, ix.write)
    /\ \A a \in Frames(fl) : Diff(c, fl[ix.newest].seq) <= Diff(c, fl[a].seq)

(* From the write pointer on the frames are met by age.  After power-up it *)
(* is not known yet from where and from which number, but there is such a  *)
(* place.                                                                  *)
InOrder(fl, p, c) == Ordered(fl, Frames(fl), p, c) /\ Apart(fl, Frames(fl), p)

(* An append under way: its frame, once readable, is the newest.           *)
AppendInOrder ==
  /\ nextSeq = (op.seq + 1) % SeqCount
  /\ Ordered(flash, Settled, op.start, nextSeq)
  /\ \A a \in Settled : Diff(nextSeq, flash[a].seq) >= 2
  /\ op.at # "erase" =>
       /\ EndBefore(flash, Settled, op.start)
       /\ op.start \in Frames(flash) => /\ flash[op.start].seq = op.seq
                                        /\ flash[op.start].len = op.len
  /\ ~busy /\ index.count > 0 =>
       \A a \in Staying : Ahead(index.oldest, op.start) <= Ahead(a, op.start)

RingInv ==
  /\ op.at = "off" => \E p \in Addrs, c \in Seqs : InOrder(flash, p, c)
  /\ op.at \in {"idle", "wipe"} => InOrder(flash, index.write, nextSeq)
  /\ op.at = "idle" /\ ~busy => EndsNamed(flash, index, nextSeq)
  /\ Appending => AppendInOrder

OrderInv == CleanRingInv /\ RingInv

-----------------------------------------------------------------------------
(* What happens to the frames when cells change.                           *)

(* The cells of a frame are alike.                                         *)
LEMMA FrameAlike ==
  ASSUME NEW fl \in [Addrs -> Cell], NEW f \in Frames(fl), NEW i \in 0 .. fl[f].len - 1
  PROVE  fl[f + i].seq = fl[f].seq /\ fl[f + i].len = fl[f].len
<1>1. f \in Nat /\ f \in Addrs /\ fl[f].len \in Nat /\ fl[f].len > 0
  BY FrameCells
<1>2. CASE i = 0
  BY <1>1, <1>2
<1>3. CASE i # 0
  <2>1. i \in 1 .. fl[f].len - 1
    BY <1>1, <1>3
  <2>2. fl[f + i] = [fl[f] EXCEPT !.off = i]
    BY <2>1 DEF Frames, ValidAt
  <2>3. fl[f] \in [seq : Seqs, len : Lens, off : 0 .. SectorSize - 1]
    BY <1>1 DEF Cell, Erased, Garbage
  <2> QED
    BY <2>2, <2>3
<1> QED
  BY <1>2, <1>3

(* Cells that are wiped, torn or not, take frames away and add none.       *)
Worn(fl, gl) == \A a \in Addrs : gl[a] = fl[a] \/ gl[a].len = 0

LEMMA WornFrames ==
  ASSUME NEW fl \in [Addrs -> Cell], NEW gl \in [Addrs -> Cell], Worn(fl, gl)
  PROVE  Frames(gl) \subseteq Frames(fl) /\ \A f \in Frames(gl) : gl[f] = fl[f]
<1> SUFFICES ASSUME NEW f \in Frames(gl)
             PROVE  f \in Frames(fl) /\ gl[f] = fl[f]
  OBVIOUS
<1>1. /\ f \in Nat /\ f \in Addrs /\ gl[f].len \in Nat /\ gl[f].len > 0
      /\ \A i \in 0 .. gl[f].len - 1 : f + i \in Addrs /\ gl[f + i].len > 0
  BY FrameCells
<1>2. \A i \in 0 .. gl[f].len - 1 : fl[f + i] = gl[f + i]
  BY <1>1 DEF Worn
<1>3. f \in Frames(fl)
  BY <1>2, SameCellsSameFrame
<1> QED
  BY <1>1, <1>3 DEF Worn

(* Cells that are programmed, torn or not, add no frame but the new one.   *)
Filled(gl) ==
  \A a \in Addrs : gl[a] = flash[a] \/ gl[a].len = 0 \/ gl[a] = OwnByte(a)

LEMMA FilledFrames ==
  ASSUME flash \in [Addrs -> Cell], op.start \in Nat, NEW gl \in [Addrs -> Cell], Filled(gl)
  PROVE  /\ Frames(gl) \ {op.start} \subseteq Frames(flash) \ {op.start}
         /\ \A f \in Frames(gl) \ {op.start} : gl[f] = flash[f]
         /\ op.start \in Frames(gl) =>
              \/ op.start \in Frames(flash) /\ gl[op.start] = flash[op.start]
              \/ gl[op.start].seq = op.seq /\ gl[op.start].len = op.len
<1>1. ASSUME NEW f \in Frames(gl)
      PROVE  /\ f \in Nat /\ f \in Addrs /\ gl[f].len \in Nat /\ gl[f].len > 0
             /\ 0 \in 0 .. gl[f].len - 1 /\ f + 0 = f
             /\ \A i \in 0 .. gl[f].len - 1 : /\ f + i \in Addrs
                                              /\ gl[f + i].len > 0 /\ gl[f + i].off = i
  <2>1. /\ f \in Nat /\ f \in Addrs /\ gl[f].len \in Nat /\ gl[f].len > 0
        /\ \A i \in 0 .. gl[f].len - 1 : /\ f + i \in Addrs
                                         /\ gl[f + i].len > 0 /\ gl[f + i].off = i
    BY FrameCells
  <2> QED
    BY <2>1
<1>2. ASSUME NEW f \in Frames(gl), f # op.start
      PROVE  f \in Frames(flash) /\ gl[f] = flash[f]
  <2>1. ASSUME NEW i \in 0 .. gl[f].len - 1
        PROVE  flash[f + i] = gl[f + i]
    <3>1. /\ f + i \in Addrs /\ gl[f + i].len > 0 /\ gl[f + i].off = i
          /\ f \in Nat /\ i \in Int
      BY <1>1
    <3>2. gl[f + i] # OwnByte(f + i)
      <4>1. OwnByte(f + i).off = (f + i) - op.start
        BY DEF OwnByte, FrameByte
      <4>2. \A j \in Int, x, y \in Nat : x # y => (x + j) - y # j
        OBVIOUS
      <4>3. (f + i) - op.start # i
        BY <1>2, <3>1, <4>2
      <4> QED
        BY <3>1, <4>1, <4>3
    <3> QED
      BY <3>1, <3>2 DEF Filled
  <2>2. f \in Frames(flash)
    BY <2>1, SameCellsSameFrame
  <2>3. flash[f + 0] = gl[f + 0] /\ f + 0 = f
    BY <1>1, <2>1
  <2> QED
    BY <2>2, <2>3
<1>3. ASSUME op.start \in Frames(gl)
      PROVE  \/ op.start \in Frames(flash) /\ gl[op.start] = flash[op.start]
             \/ gl[op.start].seq = op.seq /\ gl[op.start].len = op.len
  <2>1. CASE \A i \in 0 .. gl[op.start].len - 1 : flash[op.start + i] = gl[op.start + i]
    <3>1. op.start \in Frames(flash)
      BY <1>3, <2>1, SameCellsSameFrame
    <3>2. 0 \in 0 .. gl[op.start].len - 1 /\ op.start + 0 = op.start
      BY <1>1, <1>3
    <3> QED
      BY <2>1, <3>1, <3>2
  <2>2. ASSUME NEW i \in 0 .. gl[op.start].len - 1, flash[op.start + i] # gl[op.start + i]
        PROVE  gl[op.start].seq = op.seq /\ gl[op.start].len = op.len
    <3>1. op.start + i \in Addrs /\ gl[op.start + i].len > 0
      BY <1>1, <1>3
    <3>2. gl[op.start + i] = OwnByte(op.start + i)
      BY <2>2, <3>1 DEF Filled
    <3>3. gl[op.start + i].seq = op.seq /\ gl[op.start + i].len = op.len
      BY <3>2 DEF OwnByte, FrameByte
    <3> QED
      BY <1>3, <3>3, FrameAlike
  <2> QED
    BY <2>1, <2>2
<1> QED
  BY <1>2, <1>3

(* What a command that was cut short does to the cells.                    *)
LEMMA TornChange ==
  ASSUME Inv, NEW fl, fl = flash \/ Torn(fl)
  PROVE  /\ op.at \in {"erase", "wipe"} => Worn(flash, fl)
         /\ op.at = "program" => Filled(fl)
         /\ op.at \notin {"erase", "wipe", "program"} => fl = flash
<1>1. CASE fl = flash
  BY <1>1 DEF Worn, Filled
<1>2. CASE op.at \in {"erase", "wipe"} /\ TornErase(fl)
  <2>1. \A a \in Addrs : fl[a] = flash[a] \/ fl[a] \in {Erased, Garbage}
    BY <1>2 DEF TornErase
  <2>2. Worn(flash, fl)
    BY <2>1 DEF Worn, Erased, Garbage
  <2> QED
    BY <1>2, <2>2
<1>3. CASE op.at = "program" /\ TornProgram(fl)
  <2>1. PICK torn \in [ChunkCells -> {"old", "new", "bad"}] :
          fl = [b \in Addrs |->
                  IF b \notin ChunkCells THEN flash[b]
                  ELSE CASE torn[b] = "old" -> flash[b]
                         [] torn[b] = "new" -> Programmed(b)
                         [] torn[b] = "bad" -> Garbage]
    BY <1>3 DEF TornProgram
  <2>2. ASSUME NEW a \in Addrs
        PROVE  fl[a] = flash[a] \/ fl[a].len = 0 \/ fl[a] = OwnByte(a)
    <3>1. CASE a \notin ChunkCells
      BY <2>1, <3>1
    <3>2. CASE a \in ChunkCells
      <4>1. torn[a] \in {"old", "new", "bad"}
        BY <3>2
      <4>2. fl[a] = flash[a] \/ fl[a] = Programmed(a) \/ fl[a] = Garbage
        BY <2>1, <3>2, <4>1
      <4> QED
        BY <4>2 DEF Programmed, Garbage, OwnByte
    <3> QED
      BY <3>1, <3>2
  <2> QED
    BY <1>3, <2>2 DEF Filled
<1> QED
  BY <1>1, <1>2, <1>3 DEF Torn

LEMMA InOrderSubset ==
  ASSUME NEW fl, NEW gl, NEW p, NEW c, InOrder(fl, p, c),
         Frames(gl) \subseteq Frames(fl), \A f \in Frames(gl) : gl[f] = fl[f]
  PROVE  InOrder(gl, p, c)
<1>1. Ordered(gl, Frames(gl), p, c)
  <2>1. Ordered(fl, Frames(fl), p, c)
    BY DEF InOrder
  <2> QED
    BY <2>1, OrderedSubset
<1>2. Apart(gl, Frames(gl), p)
  <2>1. CASE IsSectorStart(p)
    BY <2>1 DEF Apart
  <2>2. CASE EndBefore(fl, Frames(fl), p)
    BY <2>2 DEF Apart, EndBefore
  <2> QED
    BY <2>1, <2>2 DEF InOrder, Apart
<1> QED
  BY <1>1, <1>2 DEF InOrder

(* The next number is one further from every frame.                        *)
LEMMA OrderedNext ==
  ASSUME NEW fl \in [Addrs -> Cell], NEW S \in SUBSET Addrs, NEW p \in Addrs, NEW c \in Seqs,
         Ordered(fl, S, p, c), NEW d, d = (c + 1) % SeqCount,
         \A a \in S : Newer(d, fl[a].seq)
  PROVE  /\ Ordered(fl, S, p, d)
         /\ \A a \in S : Diff(d, fl[a].seq) = Diff(c, fl[a].seq) + 1
         /\ \A a \in S : Diff(d, fl[a].seq) >= 2
<1>1. d \in Seqs
  BY NextSeqOf
<1>2. ASSUME NEW a \in S
      PROVE  /\ Diff(d, fl[a].seq) = Diff(c, fl[a].seq) + 1
             /\ Diff(c, fl[a].seq) \in 1 .. Half
             /\ Diff(d, fl[a].seq) \in 1 .. Half
  <2>1. fl[a].seq \in Seqs
    BY CellFields
  <2>2. Diff(c, fl[a].seq) \in 1 .. Half
    BY DEF Ordered
  <2>3. Diff(c, fl[a].seq) + 1 < SeqCount
    BY <2>2, HalfBound
  <2>4. Diff(d, fl[a].seq) \in 1 .. Half
    BY <1>1, <2>1, DiffMod DEF Newer, Half
  <2> QED
    BY <2>1, <2>2, <2>3, <2>4, DiffNext
<1>3. ASSUME NEW a \in S, NEW b \in S, Ahead(a, p) < Ahead(b, p)
      PROVE  Diff(d, fl[b].seq) < Diff(d, fl[a].seq)
  <2>1. Diff(c, fl[b].seq) < Diff(c, fl[a].seq)
    BY <1>3 DEF Ordered
  <2> QED
    BY <1>2, <2>1, HalfBound
<1>4. \A a \in S : Diff(d, fl[a].seq) >= 2
  BY <1>2, HalfBound
<1>5. Ordered(fl, S, p, d)
  BY <1>2, <1>3 DEF Ordered
<1> QED
  BY <1>2, <1>4, <1>5

(* Counting on from the newest frame keeps the order, too.                 *)
LEMMA OrderedRestart ==
  ASSUME NEW fl \in [Addrs -> Cell], NEW S \in SUBSET Addrs, NEW p \in Addrs, NEW c \in Seqs,
         Ordered(fl, S, p, c), NEW n \in S,
         \A a \in S : Diff(c, fl[n].seq) <= Diff(c, fl[a].seq),
         NEW d, d = (fl[n].seq + 1) % SeqCount
  PROVE  /\ Ordered(fl, S, p, d)
         /\ \A a \in S : Diff(d, fl[n].seq) <= Diff(d, fl[a].seq)
         /\ \A a \in S : Diff(d, fl[a].seq) <= Diff(c, fl[a].seq)
<1>1. fl[n].seq \in Seqs
  BY CellFields
<1>2. ASSUME NEW a \in S
      PROVE  /\ Diff(d, fl[a].seq) = Diff(c, fl[a].seq) - Diff(c, fl[n].seq) + 1
             /\ Diff(c, fl[a].seq) \in 1 .. Half
             /\ Diff(c, fl[n].seq) \in 1 .. Half
             /\ Diff(c, fl[n].seq) <= Diff(c, fl[a].seq)
  <2>1. fl[a].seq \in Seqs
    BY CellFields
  <2>2. Diff(c, fl[a].seq) \in 1 .. Half /\ Diff(c, fl[n].seq) \in 1 .. Half
    BY DEF Ordered
  <2>3. Diff(fl[n].seq, fl[a].seq) = Diff(c, fl[a].seq) - Diff(c, fl[n].seq)
    BY <1>1, <2>1, DiffShift
  <2>4. Diff(fl[n].seq, fl[a].seq) + 1 < SeqCount
    BY <2>2, <2>3, HalfBound
  <2>5. Diff(d, fl[a].seq) = Diff(fl[n].seq, fl[a].seq) + 1
    BY <1>1, <2>1, <2>4, DiffNext
  <2> QED
    BY <2>2, <2>3, <2>5
<1>3. ASSUME NEW a \in S, NEW b \in S, Ahead(a, p) < Ahead(b, p)
      PROVE  Diff(d, fl[b].seq) < Diff(d, fl[a].seq)
  <2>1. Diff(c, fl[b].seq) < Diff(c, fl[a].seq)
    BY <1>3 DEF Ordered
  <2> QED
    BY <1>2, <2>1, HalfBound
<1>4. \A a \in S : /\ Diff(d, fl[a].seq) \in 1 .. Half /\ Diff(d, fl[n].seq) <= Diff(d, fl[a].seq)
                  /\ Diff(d, fl[a].seq) <= Diff(c, fl[a].seq)
  <2> SUFFICES ASSUME NEW a \in S
               PROVE  /\ Diff(d, fl[a].seq) \in 1 .. Half /\ Diff(d, fl[n].seq) <= Diff(d, fl[a].seq)
                      /\ Diff(d, fl[a].seq) <= Diff(c, fl[a].seq)
    OBVIOUS
  <2> QED
    BY <1>2, HalfBound
<1> QED
  BY <1>3, <1>4 DEF Ordered

(* Wherever an operation is stopped the frames that it leaves are in order *)
(* seen from some place.                                                   *)
LEMMA StoppedInOrder ==
  ASSUME IndexInv, nextSeq \in Seqs, RingInv, op.at # "off", NEW fl, fl = flash \/ Torn(fl)
  PROVE  \E p \in Addrs : InOrder(fl, p, nextSeq)
<1>1. /\ Inv /\ flash \in [Addrs -> Cell] /\ fl \in [Addrs -> Cell] /\ HomedIn(fl)
      /\ index.write \in Addrs /\ op.start \in Addrs /\ op.seq \in Seqs /\ op.start \in Nat
  BY TornType, TornHomed, AreaPositive DEF IndexInv, Inv, StorageType, Index, Addrs
<1>2. CASE op.at \in {"idle", "wipe"}
  <2>1. Frames(fl) \subseteq Frames(flash) /\ \A f \in Frames(fl) : fl[f] = flash[f]
    <3>1. Worn(flash, fl)
      BY <1>1, <1>2, TornChange DEF Worn
    <3> QED
      BY <1>1, <3>1, WornFrames
  <2>2. InOrder(flash, index.write, nextSeq)
    BY <1>2 DEF RingInv
  <2> QED
    BY <1>1, <2>1, <2>2, InOrderSubset
<1>3. CASE op.at = "erase"
  <2>1. Frames(fl) \subseteq Frames(flash) /\ \A f \in Frames(fl) : fl[f] = flash[f]
    <3>1. Worn(flash, fl)
      BY <1>1, <1>3, TornChange
    <3> QED
      BY <1>1, <3>1, WornFrames
  <2>2. IsSectorStart(op.start)
    BY <1>1, <1>3 DEF Inv, OpShape
  <2>3. Ordered(flash, Frames(flash), op.start, nextSeq)
    BY <1>3 DEF RingInv, Appending, AppendInOrder, Settled
  <2>4. InOrder(flash, op.start, nextSeq)
    BY <2>2, <2>3 DEF InOrder, Apart
  <2> QED
    BY <1>1, <2>1, <2>4, InOrderSubset
<1>4. CASE op.at \in {"program", "verify"}
  <2>1. /\ Frames(fl) \ {op.start} \subseteq Frames(flash) \ {op.start}
        /\ \A f \in Frames(fl) \ {op.start} : fl[f] = flash[f]
        /\ op.start \in Frames(fl) =>
             \/ op.start \in Frames(flash) /\ fl[op.start] = flash[op.start]
             \/ fl[op.start].seq = op.seq /\ fl[op.start].len = op.len
    <3>1. Filled(fl)
      BY <1>1, <1>4, TornChange DEF Filled
    <3> QED
      BY <1>1, <3>1, FilledFrames
  <2>2. /\ nextSeq = (op.seq + 1) % SeqCount
        /\ Ordered(flash, Frames(flash) \ {op.start}, op.start, nextSeq)
        /\ \A a \in Frames(flash) \ {op.start} : Diff(nextSeq, flash[a].seq) >= 2
        /\ EndBefore(flash, Frames(flash) \ {op.start}, op.start)
        /\ op.start \in Frames(flash) => flash[op.start].seq = op.seq
    BY <1>4 DEF RingInv, Appending, AppendInOrder, Settled
  <2>3. /\ Ordered(fl, Frames(fl) \ {op.start}, op.start, nextSeq)
        /\ EndBefore(fl, Frames(fl) \ {op.start}, op.start)
        /\ \A a \in Frames(fl) \ {op.start} : Diff(nextSeq, fl[a].seq) >= 2
    <3>1. Ordered(fl, Frames(fl) \ {op.start}, op.start, nextSeq)
      <4>1. \A a \in Frames(fl) \ {op.start} : fl[a].seq = flash[a].seq
        BY <2>1
      <4> QED
        BY <2>1, <2>2, <4>1, OrderedSubset
    <3> QED
      BY <2>1, <2>2, <3>1 DEF EndBefore
  <2>4. CASE op.start \in Frames(fl)
    <3>1. Diff(nextSeq, fl[op.start].seq) = 1
      <4>1. fl[op.start].seq = op.seq
        BY <2>1, <2>2, <2>4
      <4>2. Diff(op.seq, op.seq) = 0
        BY <1>1, DiffType
      <4>3. Diff(op.seq, op.seq) + 1 < SeqCount
        BY <4>2, HalfBound
      <4>4. Diff((op.seq + 1) % SeqCount, op.seq) = 1
        BY <1>1, <4>2, <4>3, DiffNext
      <4> QED
        BY <2>2, <4>1, <4>4
    <3> DEFINE e == Wrap(op.start + fl[op.start].len)
    <3>2. e \in Addrs /\ Ordered(fl, Frames(fl), e, nextSeq) /\ Apart(fl, Frames(fl), e)
      BY <1>1, <2>3, <2>4, <3>1, FrameJoins
    <3> QED
      BY <3>2 DEF InOrder
  <2>5. CASE op.start \notin Frames(fl)
    <3>1. Frames(fl) \ {op.start} = Frames(fl)
      BY <2>5
    <3> QED
      BY <1>1, <2>3, <3>1 DEF InOrder, Apart
  <2> QED
    BY <2>4, <2>5
<1> QED
  BY <1>1, <1>2, <1>3, <1>4 DEF Inv, StorageType

-----------------------------------------------------------------------------
(* RingInv is inductive, one operation at a time.                          *)

LEMMA InitRingInv == Init => RingInv
<1> SUFFICES ASSUME Init
             PROVE  RingInv
  OBVIOUS
<1>1. op.at = "off" /\ Frames(flash) = {}
  BY DEF Init, Off, Nothing, Frames, ValidAt, Erased
<1>2. 0 \in Addrs /\ 0 \in Seqs
  BY AreaPositive, HalfBound DEF Addrs, Seqs
<1>3. InOrder(flash, 0, 0)
  BY <1>1 DEF InOrder, Ordered, Apart, EndBefore
<1> QED
  BY <1>1, <1>2, <1>3 DEF RingInv, Appending

(* The place of the next frame, seen from the write pointer.               *)
LEMMA PlaceShifts ==
  ASSUME Inv, Apart(flash, Frames(flash), index.write), NEW n \in Lens, NEW p, p = PlaceFor(n)
  PROVE  /\ p \in Addrs
         /\ \E k \in Int : k <= 0 /\ \A a \in Frames(flash) : Ahead(a, p) = Ahead(a, index.write) + k
         /\ ~IsSectorStart(p) => p = index.write
<1> DEFINE w == index.write
           F == Frames(flash)
<1>1. /\ w \in Addrs /\ w \in Nat /\ p \in Addrs /\ F \subseteq Addrs
      /\ flash \in [Addrs -> Cell]
  BY PlaceFits, FramesFinite, AreaPositive
  DEF Inv, StorageType, Index, Addrs
<1>2. Apart(flash, F, w)
  OBVIOUS
<1>3. Wrap(w) = w
  BY <1>1, AreaPositive DEF Wrap, Addrs
<1>4. CASE p = w
  <2>1. PICK k \in Int : k = 0 /\ k <= 0
    OBVIOUS
  <2>2. \A a \in F : Ahead(a, p) = Ahead(a, w) + k
    BY <1>1, <1>4, <2>1, AheadType
  <2> QED
    BY <1>1, <1>4, <2>1, <2>2
<1>5. CASE p # w
  <2>1. p = Wrap(NextSector(w)) /\ w + n > SectorEnd(w)
    BY <1>3, <1>5 DEF PlaceFor
  <2>2. /\ n \in Nat /\ n <= SectorSize /\ SectorSize \in Nat
        /\ SectorEnd(w) = SectorStart(w) + SectorSize /\ SectorStart(w) \in Nat
        /\ w < SectorEnd(w) /\ SectorEnd(w) \in Nat /\ SectorStart(w) <= w
    BY <1>1, LensNat, SectorInArea, AreaPositive
  <2>3. SectorStart(w) # w
    BY <1>1, <2>1, <2>2
  <2>4. ~IsSectorStart(w)
    BY <1>1, <2>3, SectorInArea
  <2>5. NextSector(w) = SectorEnd(w)
    <3>1. NextSector(w) = w + (SectorSize - (w % SectorSize))
      BY <2>4 DEF NextSector, IsSectorStart
    <3>2. SectorEnd(w) = (w - (w % SectorSize)) + SectorSize
      BY DEF SectorEnd, SectorStart
    <3>3. w % SectorSize \in Nat
      BY <1>1, AreaPositive, ModRange
    <3> QED
      BY <1>1, <2>2, <3>1, <3>2, <3>3
  <2>6. ASSUME NEW a \in F
        PROVE  a < w \/ a >= SectorEnd(w)
    <3>1. a \in Addrs /\ a \in Nat /\ flash[a].len \in Nat /\ flash[a].len > 0
      BY <1>1, FrameCells
    <3>2. SUFFICES ASSUME w <= a, a < SectorEnd(w)
                   PROVE  FALSE
      BY <1>1, <2>2, <3>1
    <3>3. SectorStart(a) = SectorStart(w)
      BY <1>1, <2>2, <3>1, <3>2, SameSector
    <3>4. a + flash[a].len <= w
      BY <1>2, <2>4, <3>3 DEF Apart, EndBefore
    <3> QED
      BY <1>1, <3>1, <3>2, <3>4
  <2>7. p = Wrap(SectorEnd(w))
    BY <2>1, <2>5, Zenon
  <2>8. \A a \in F : Ahead(a, Wrap(SectorEnd(w))) = Ahead(a, w) - (SectorEnd(w) - w)
    BY <1>1, <2>2, <2>6, Turn
  <2>9. PICK k \in Int : k = -(SectorEnd(w) - w) /\ k <= 0
    BY <1>1, <2>2
  <2>10. \A a \in F : Ahead(a, p) = Ahead(a, w) + k
    <3> SUFFICES ASSUME NEW a \in F
                 PROVE  Ahead(a, p) = Ahead(a, w) + k
      OBVIOUS
    <3>1. Ahead(a, p) = Ahead(a, w) - (SectorEnd(w) - w)
      BY <2>7, <2>8, Zenon
    <3>2. Ahead(a, w) \in Int
      BY <1>1, AheadType
    <3> QED
      BY <1>1, <2>2, <2>9, <3>1, <3>2
  <2>11. IsSectorStart(p)
    BY <1>1, <2>1, NextSectorAligned
  <2> QED
    BY <1>1, <2>9, <2>10, <2>11
<1> QED
  BY <1>4, <1>5

LEMMA PlaceKeepsOrder ==
  ASSUME OrderInv, op.at = "idle", NEW n \in Lens, NEW p, p = PlaceFor(n)
  PROVE  /\ p \in Addrs
         /\ \E k \in Int : k <= 0 /\ \A a \in Frames(flash) : Ahead(a, p) = Ahead(a, index.write) + k
         /\ Ordered(flash, Frames(flash), p, nextSeq)
         /\ ~IsSectorStart(p) => p = index.write
<1>1. /\ Inv /\ index.write \in Addrs /\ Frames(flash) \subseteq Addrs
      /\ InOrder(flash, index.write, nextSeq)
  BY FramesFinite DEF OrderInv, RingInv, CleanRingInv, IndexInv, Inv, StorageType, Index
<1>2. /\ p \in Addrs
      /\ \E k \in Int : k <= 0 /\ \A a \in Frames(flash) : Ahead(a, p) = Ahead(a, index.write) + k
      /\ ~IsSectorStart(p) => p = index.write
  BY <1>1, PlaceShifts DEF InOrder
<1>3. Ordered(flash, Frames(flash), p, nextSeq)
  BY <1>1, <1>2, OrderedShift DEF InOrder
<1> QED
  BY <1>2, <1>3

(* The oldest frame of the index is still the farthest back when the       *)
(* frames of the next sector have left it.                                 *)
LEMMA InvalidatedOldest ==
  ASSUME NEW fl, NEW s \in Addrs, IsSectorStart(s), NEW ix \in Index, NEW new,
         Frames(fl) \subseteq Addrs, Invalidated(fl, s, ix, new), new.count > 0,
         \A a \in Frames(fl) : Ahead(ix.oldest, s) <= Ahead(a, s)
  PROVE  \A a \in Frames(fl) \ SectorCells(s) : Ahead(new.oldest, s) <= Ahead(a, s)
<1> DEFINE gone == Cardinality(Frames(fl) \cap SectorCells(s))
           g == SectorEnd(s)
<1>1. CASE ix.count = 0
  BY <1>1 DEF Invalidated
<1>2. CASE ix.count # 0 /\ gone >= ix.count
  BY <1>2 DEF Invalidated, EmptyIndex
<1>3. CASE ix.count # 0 /\ ~(gone >= ix.count) /\ ix.oldest \notin SectorCells(s)
  <2>1. new = [ix EXCEPT !.count = @ - gone]
    BY <1>3 DEF Invalidated
  <2>2. new.oldest = ix.oldest
    BY <2>1 DEF Index
  <2> QED
    BY <2>2
<1>4. CASE ix.count # 0 /\ ~(gone >= ix.count) /\ ix.oldest \in SectorCells(s) /\ Frames(fl) # {}
  <2>1. PICK o \in Frames(fl) : /\ \A a \in Frames(fl) : Ahead(o, Wrap(g)) <= Ahead(a, Wrap(g))
                               /\ new = [ix EXCEPT !.count = @ - gone, !.oldest = o]
    BY <1>4 DEF Invalidated
  <2>2. new.oldest = o /\ o \in Addrs
    BY <2>1 DEF Index
  <2>3. SUFFICES ASSUME NEW a \in Frames(fl), a \notin SectorCells(s)
                 PROVE  Ahead(o, s) <= Ahead(a, s)
    BY <2>2
  <2>4. a \in Addrs /\ s \in Nat /\ g \in Nat /\ s < g /\ g <= SectorEnd(s) /\ SectorStart(s) = s
    BY SectorInArea, AreaPositive DEF Addrs
  <2>5. Wrap(g) \in Addrs
    BY <2>4, WrapInArea
  <2>6. o \notin SectorCells(s)
    <3>1. SUFFICES ASSUME o \in SectorCells(s)
                   PROVE  FALSE
      OBVIOUS
    <3>2. Ahead(a, Wrap(g)) < Ahead(o, Wrap(g))
      BY <2>3, <2>4, <3>1, SectorComesLast
    <3>3. Ahead(o, Wrap(g)) <= Ahead(a, Wrap(g))
      BY <2>1, <2>3
    <3>4. Ahead(a, Wrap(g)) \in Int /\ Ahead(o, Wrap(g)) \in Int
      <4>1. \A e \in Addrs : Ahead(a, e) \in Int /\ Ahead(o, e) \in Int
        BY <2>2, <2>4, AheadType
      <4> QED
        BY <2>5, <4>1
    <3> QED
      BY <3>2, <3>3, <3>4
  <2>7. \A b \in Addrs : b \notin SectorCells(s) => Ahead(b, Wrap(g)) = Ahead(b, s) - (g - s)
    <3>1. \A b \in Addrs : b \notin SectorCells(s) => b < s \/ b >= SectorEnd(s)
      BY <2>4, AreaPositive DEF SectorCells, Addrs
    <3> QED
      BY <2>4, <3>1, Turn
  <2>8. Ahead(o, Wrap(g)) <= Ahead(a, Wrap(g))
    BY <2>1, <2>3
  <2>9. Ahead(o, s) \in Int /\ Ahead(a, s) \in Int
    BY <2>2, <2>4, AheadType
  <2> HIDE DEF g
  <2> QED
    BY <2>2, <2>3, <2>4, <2>6, <2>7, <2>8, <2>9
<1> QED
  BY <1>1, <1>2, <1>3, <1>4

(* Where append is going to write: the frames in front of it in its sector *)
(* end before, and the index still names the farthest back of those that   *)
(* stay.                                                                   *)
LEMMA BeginPlaces ==
  ASSUME Inv, NEW n \in Lens, NEW s \in Seqs, BeginAppend(n, s),
         Apart(flash, Frames(flash), index.write),
         ~busy => /\ Counts(index, Frames(flash))
                  /\ index.count > 0 =>
                       \A a \in Frames(flash) : Ahead(index.oldest, index.write) <= Ahead(a, index.write)
  PROVE  /\ op'.at \in {"erase", "program"} /\ op'.start = PlaceFor(n) /\ op'.addr = op'.start /\ op'.seq = s
         /\ op'.at = "erase" <=> IsSectorStart(op'.start)
         /\ Settled' = Frames(flash)
         /\ op'.at = "program" =>
              EndBefore(flash, Frames(flash), op'.start) /\ op'.start \notin Frames(flash)
         /\ ~busy' /\ index'.count > 0 =>
              \A a \in Staying' : Ahead(index'.oldest, op'.start) <= Ahead(a, op'.start)
<1> DEFINE p == PlaceFor(n)
           F == Frames(flash)
<1>1. /\ op.at = "idle" /\ flash' = flash /\ busy' = busy
      /\ op' = [at |-> IF IsSectorStart(p) THEN "erase" ELSE "program",
                addr |-> p, start |-> p, len |-> n, seq |-> s]
      /\ IF IsSectorStart(p) THEN Invalidated(flash, p, index, index') ELSE index' = index
  BY DEF BeginAppend
<1>2. /\ flash \in [Addrs -> Cell] /\ index \in Index /\ index.write \in Addrs
      /\ F \subseteq Addrs
  BY FramesFinite DEF Inv, StorageType, Index
<1>3. PICK k \in Int : k <= 0 /\ \A a \in F : Ahead(a, p) = Ahead(a, index.write) + k
  BY PlaceShifts
<1>4. p \in Addrs /\ (~IsSectorStart(p) => p = index.write)
  BY PlaceShifts
<1>5. op'.start = p /\ op'.addr = p /\ op'.seq = s
      /\ op'.at = IF IsSectorStart(p) THEN "erase" ELSE "program"
  BY <1>1
<1> HIDE DEF p
<1>6. ASSUME ~IsSectorStart(p)
      PROVE  EndBefore(flash, F, p) /\ p \notin F
  <2>1. Apart(flash, F, p)
    BY <1>4, <1>6
  <2>2. EndBefore(flash, F, p)
    BY <1>6, <2>1 DEF Apart
  <2>3. SUFFICES ASSUME p \in F
                 PROVE  FALSE
    BY <2>2
  <2>4. p + flash[p].len <= p
    BY <2>2, <2>3 DEF EndBefore
  <2>5. p \in Nat /\ flash[p].len \in Nat /\ flash[p].len > 0
    BY <1>2, <2>3, FrameCells
  <2> QED
    BY <2>4, <2>5
<1>7. Settled' = F
  BY <1>1, <1>5, <1>6 DEF Settled
<1>8. ASSUME ~busy', index'.count > 0, NEW a \in Staying'
      PROVE  Ahead(index'.oldest, p) <= Ahead(a, p)
  <2>1. ~busy
    BY ONLY <1>1, <1>8, Zenon
  <2>2. ASSUME index.count > 0
        PROVE  /\ index.oldest \in F
               /\ \A b \in F : Ahead(index.oldest, p) <= Ahead(b, p)
    <3>1. index.oldest \in F
      BY <2>1, <2>2 DEF Counts
    <3>2. \A b \in F : Ahead(index.oldest, index.write) <= Ahead(b, index.write)
      BY <2>1, <2>2
    <3>3. ASSUME NEW b \in F
          PROVE  Ahead(index.oldest, p) <= Ahead(b, p)
      <4>1. /\ Ahead(b, p) = Ahead(b, index.write) + k
            /\ Ahead(index.oldest, p) = Ahead(index.oldest, index.write) + k
            /\ Ahead(b, index.write) \in Int /\ Ahead(index.oldest, index.write) \in Int
        BY <1>2, <1>3, <3>1, AheadType
      <4> QED
        BY <3>2, <4>1
    <3> QED
      BY <3>1, <3>3
  <2>3. CASE IsSectorStart(p)
    <3>1. Staying' = F \ SectorCells(p) /\ Invalidated(flash, p, index, index')
      BY <1>1, <1>5, <2>3 DEF Staying
    <3>2. index.count > 0
      <4>1. index.count = Cardinality(F)
        BY <2>1 DEF Counts
      <4>2. ASSUME index.count = 0
            PROVE  FALSE
        <5>1. index' = index
          BY <3>1, <4>2 DEF Invalidated
        <5> QED
          BY <1>8, <4>2, <5>1
      <4> QED
        BY <4>1, <4>2, FramesFinite
    <3> QED
      BY <1>2, <1>4, <1>8, <2>2, <2>3, <3>1, <3>2, InvalidatedOldest
  <2>4. CASE ~IsSectorStart(p)
    <3>1. Staying' = F /\ index' = index
      BY <1>1, <1>5, <1>7, <2>4 DEF Staying
    <3> QED
      BY <1>8, <2>2, <3>1
  <2> QED
    BY <2>3, <2>4
<1> QED
  BY <1>1, <1>5, <1>6, <1>7, <1>8 DEF p

LEMMA StartAppendRing ==
  ASSUME OrderInv, NEW n \in Lens, StartAppend(n), NextSeqIsFresh'
  PROVE  RingInv'
<1> DEFINE p == PlaceFor(n)
           F == Frames(flash)
<1>1. /\ op.at = "idle" /\ flash' = flash /\ busy' = busy
      /\ op' = [at |-> IF IsSectorStart(p) THEN "erase" ELSE "program",
                addr |-> p, start |-> p, len |-> n, seq |-> nextSeq]
      /\ IF IsSectorStart(p) THEN Invalidated(flash, p, index, index') ELSE index' = index
      /\ nextSeq' = (nextSeq + 1) % SeqCount
  BY DEF StartAppend, BeginAppend
<1>2. /\ flash \in [Addrs -> Cell] /\ index \in Index /\ index.write \in Addrs
      /\ F \subseteq Addrs /\ nextSeq \in Seqs
  BY FramesFinite DEF OrderInv, CleanRingInv, IndexInv, Inv, StorageType, Index
<1>3. /\ p \in Addrs /\ Ordered(flash, F, p, nextSeq)
      /\ ~IsSectorStart(p) => p = index.write
  BY <1>1, PlaceKeepsOrder
<1>4. /\ op'.at \in {"erase", "program"} /\ op'.start = p /\ op'.seq = nextSeq
      /\ Settled' = F
      /\ op'.at = "program" => EndBefore(flash, F, op'.start) /\ op'.start \notin F
      /\ ~busy' /\ index'.count > 0 =>
           \A a \in Staying' : Ahead(index'.oldest, op'.start) <= Ahead(a, op'.start)
  <2>1. Inv /\ Apart(flash, F, index.write) /\ BeginAppend(n, nextSeq)
    BY <1>1 DEF OrderInv, RingInv, InOrder, CleanRingInv, IndexInv, StartAppend
  <2>2. ~busy => /\ Counts(index, F)
                 /\ index.count > 0 => \A a \in F : Ahead(index.oldest, index.write) <= Ahead(a, index.write)
    BY <1>1 DEF OrderInv, RingInv, EndsNamed, CleanRingInv, IndexInv, IndexTracks
  <2> QED
    BY <1>2, <2>1, <2>2, BeginPlaces
<1> HIDE DEF p
<1>5. /\ Ordered(flash, F, p, nextSeq')
      /\ \A a \in F : Diff(nextSeq', flash[a].seq) >= 2
  <2>1. \A a \in F : Newer(nextSeq', flash[a].seq)
    BY <1>1, <1>4 DEF NextSeqIsFresh
  <2> QED
    BY <1>1, <1>2, <1>3, <2>1, OrderedNext
<1>6. AppendInOrder'
  <2>1. nextSeq' = (op'.seq + 1) % SeqCount
    BY <1>1, <1>4
  <2>2. Ordered(flash', Settled', op'.start, nextSeq')
    BY <1>1, <1>4, <1>5
  <2>3. \A a \in Settled' : Diff(nextSeq', flash'[a].seq) >= 2
    BY <1>1, <1>4, <1>5
  <2>4. op'.at # "erase" => /\ EndBefore(flash', Settled', op'.start)
                           /\ op'.start \notin Frames(flash')
    BY <1>1, <1>4
  <2> QED
    BY <1>4, <2>1, <2>2, <2>3, <2>4 DEF AppendInOrder
<1> QED
  BY <1>4, <1>6 DEF RingInv

(* Erasing and programming: the other frames stay as they were.            *)
LEMMA WorkingPlaces ==
  ASSUME Inv, HomedIn(flash), EraseSector \/ ProgramPage,
         op.at = "program" =>
           /\ EndBefore(flash, Settled, op.start)
           /\ op.start \in Frames(flash) => flash[op.start].seq = op.seq /\ flash[op.start].len = op.len
  PROVE  /\ op.at \in {"erase", "program"}
         /\ op'.at \in {"program", "verify"}
         /\ op'.start = op.start /\ op'.len = op.len /\ op'.seq = op.seq
         /\ Frames(flash') \ {op.start} \subseteq Staying
         /\ \A a \in Frames(flash') \ {op.start} : flash'[a] = flash[a]
         /\ op.start \in Frames(flash') => flash'[op.start].seq = op.seq /\ flash'[op.start].len = op.len
         /\ EndBefore(flash', Frames(flash') \ {op.start}, op.start)
<1>0. /\ Inv /\ Inv' /\ HomedIn(flash) /\ flash \in [Addrs -> Cell] /\ flash' \in [Addrs -> Cell]
      /\ op \in [at : {"off", "idle", "erase", "program", "verify", "wipe"},
                 addr : 0 .. AreaSize, start : Addrs, len : Lens \cup {0}, seq : Seqs]
      /\ op.start \in Addrs /\ op.start \in Nat
  <2>1. [StorageStep]_StorageVars
    BY DEF StorageStep
  <2>2. Inv'
    BY <2>1, StepInv
  <2> QED
    BY <2>2, AreaPositive DEF Inv, StorageType, Addrs
<1>1. op.at \in {"erase", "program"}
  BY DEF EraseSector, ProgramPage
<1>2. /\ op'.at \in {"program", "verify"}
      /\ op'.start = op.start /\ op'.len = op.len /\ op'.seq = op.seq
  BY <1>0 DEF EraseSector, ProgramPage
<1>3. /\ Frames(flash') \ {op.start} \subseteq Staying
      /\ \A a \in Frames(flash') \ {op.start} : flash'[a] = flash[a]
      /\ op.start \in Frames(flash') => flash'[op.start].seq = op.seq /\ flash'[op.start].len = op.len
      /\ EndBefore(flash', Frames(flash') \ {op.start}, op.start)
  <2>1. CASE EraseSector
    <3>1. /\ op.at = "erase" /\ op.addr = op.start /\ IsSectorStart(op.start)
          /\ flash' = [a \in Addrs |-> IF a \in SectorCells(op.start) THEN Erased ELSE flash[a]]
      BY <1>0, <2>1 DEF EraseSector, Inv, OpShape
    <3>2. Frames(flash') = Frames(flash) \ SectorCells(op.start)
      BY <1>0, <3>1, ErasedFrames
    <3>3. op.start \in SectorCells(op.start)
      BY <1>0, SectorInArea DEF SectorCells
    <3>4. ASSUME NEW f \in Frames(flash')
          PROVE  SectorStart(f) # SectorStart(op.start) /\ flash'[f] = flash[f]
      <4>1. f \in Addrs /\ f \notin SectorCells(op.start)
        BY <3>2, FramesFinite
      <4>2. SectorStart(f) # op.start
        <5>1. SUFFICES ASSUME SectorStart(f) = op.start
                       PROVE  FALSE
          OBVIOUS
        <5>2. op.start <= f /\ f < SectorStart(f) + SectorSize /\ SectorEnd(f) = SectorStart(f) + SectorSize
          BY <4>1, <5>1, SectorInArea
        <5>3. SectorEnd(op.start) = op.start + SectorSize
          BY <1>0, <3>1, SectorInArea
        <5> QED
          BY <4>1, <5>1, <5>2, <5>3 DEF SectorCells
      <4> QED
        BY <1>0, <3>1, <4>1, <4>2, SectorInArea
    <3>5. Staying = Frames(flash')
      BY <3>1, <3>2 DEF Staying
    <3>6. EndBefore(flash', Frames(flash') \ {op.start}, op.start)
      BY <3>4 DEF EndBefore
    <3> QED
      BY <3>2, <3>3, <3>4, <3>5, <3>6
  <2>2. CASE ProgramPage
    <3>1. /\ op.at = "program"
          /\ flash' = [a \in Addrs |-> IF a \in ChunkCells THEN Programmed(a) ELSE flash[a]]
      BY <2>2 DEF ProgramPage
    <3>2. Filled(flash')
      BY <3>1 DEF Filled, Programmed, Garbage, OwnByte
    <3>3. /\ Frames(flash') \ {op.start} \subseteq Frames(flash) \ {op.start}
          /\ \A a \in Frames(flash') \ {op.start} : flash'[a] = flash[a]
          /\ op.start \in Frames(flash') =>
               \/ op.start \in Frames(flash) /\ flash'[op.start] = flash[op.start]
               \/ flash'[op.start].seq = op.seq /\ flash'[op.start].len = op.len
      BY <1>0, <3>2, FilledFrames
    <3>4. /\ EndBefore(flash, Frames(flash) \ {op.start}, op.start)
          /\ op.start \in Frames(flash) => flash[op.start].seq = op.seq /\ flash[op.start].len = op.len
          /\ Staying = Frames(flash) \ {op.start}
      BY <3>1 DEF Settled, Staying
    <3> QED
      BY <3>3, <3>4 DEF EndBefore
  <2> QED
    BY <2>1, <2>2
<1> QED
  BY <1>1, <1>2, <1>3

LEMMA WorkingFrames ==
  ASSUME OrderInv, EraseSector \/ ProgramPage
  PROVE  /\ op.at \in {"erase", "program"} /\ AppendInOrder
         /\ index' = index /\ nextSeq' = nextSeq /\ busy' = busy
         /\ op'.at \in {"program", "verify"}
         /\ op'.start = op.start /\ op'.len = op.len /\ op'.seq = op.seq
         /\ Frames(flash') \ {op.start} \subseteq Staying
         /\ \A a \in Frames(flash') \ {op.start} : flash'[a] = flash[a]
         /\ op.start \in Frames(flash') => flash'[op.start].seq = op.seq /\ flash'[op.start].len = op.len
         /\ EndBefore(flash', Frames(flash') \ {op.start}, op.start)
<1>1. /\ op.at \in {"erase", "program"} /\ AppendInOrder
      /\ index' = index /\ nextSeq' = nextSeq /\ busy' = busy
  BY DEF OrderInv, RingInv, Appending, EraseSector, ProgramPage
<1>2. /\ Inv /\ HomedIn(flash)
      /\ op.at = "program" =>
           /\ EndBefore(flash, Settled, op.start)
           /\ op.start \in Frames(flash) => flash[op.start].seq = op.seq /\ flash[op.start].len = op.len
  BY <1>1 DEF OrderInv, CleanRingInv, IndexInv, AppendInOrder
<1> QED
  BY <1>1, <1>2, WorkingPlaces

LEMMA WorkingRing ==
  ASSUME OrderInv, EraseSector \/ ProgramPage
  PROVE  /\ RingInv'
         /\ Settled' \subseteq Settled /\ \A a \in Settled' : flash'[a].seq = flash[a].seq
<1>1. /\ op.at \in {"erase", "program"} /\ AppendInOrder
      /\ index' = index /\ nextSeq' = nextSeq /\ busy' = busy
  BY WorkingFrames
<1>2. /\ op'.at \in {"program", "verify"}
      /\ op'.start = op.start /\ op'.len = op.len /\ op'.seq = op.seq
  BY WorkingFrames
<1>3. /\ Frames(flash') \ {op.start} \subseteq Staying
      /\ \A a \in Frames(flash') \ {op.start} : flash'[a] = flash[a]
      /\ op.start \in Frames(flash') => flash'[op.start].seq = op.seq /\ flash'[op.start].len = op.len
      /\ EndBefore(flash', Frames(flash') \ {op.start}, op.start)
  BY WorkingFrames
<1>4. Staying \subseteq Settled
  BY DEF Staying, Settled
<1>5. Settled' = Frames(flash') \ {op.start} /\ Staying' = Frames(flash') \ {op.start}
  BY <1>2 DEF Settled, Staying
<1> DEFINE S == Frames(flash') \ {op.start}
<1>6. S \subseteq Settled /\ \A a \in S : flash'[a].seq = flash[a].seq
  BY <1>3, <1>4
<1>7. /\ nextSeq = (op.seq + 1) % SeqCount
      /\ Ordered(flash, Settled, op.start, nextSeq)
      /\ \A a \in Settled : Diff(nextSeq, flash[a].seq) >= 2
  BY <1>1 DEF AppendInOrder
<1>8. Ordered(flash', S, op.start, nextSeq)
  BY <1>6, <1>7, OrderedSubset
<1>9. \A a \in S : Diff(nextSeq, flash'[a].seq) >= 2
  BY <1>6, <1>7
<1>10. ~busy' /\ index'.count > 0 => \A a \in S : Ahead(index'.oldest, op.start) <= Ahead(a, op.start)
  <2>1. SUFFICES ASSUME ~busy', index.count > 0, NEW a \in S
                 PROVE  Ahead(index.oldest, op.start) <= Ahead(a, op.start)
    BY <1>1
  <2>2. ~busy
    BY ONLY <1>1, <2>1, Zenon
  <2> QED
    BY <1>1, <1>3, <2>1, <2>2 DEF AppendInOrder
<1>11. AppendInOrder'
  BY <1>1, <1>2, <1>3, <1>5, <1>7, <1>8, <1>9, <1>10 DEF AppendInOrder
<1> QED
  BY <1>2, <1>5, <1>6, <1>11 DEF RingInv

(* A search of the whole log finds the order it was left in.               *)
LEMMA RebuiltRing ==
  ASSUME NEW fl \in [Addrs -> Cell], HomedIn(fl), NotFilledIn(fl),
         NEW p \in Addrs, NEW c \in Seqs, InOrder(fl, p, c), NEW ix, Rebuilt(fl, ix)
  PROVE  InOrder(fl, ix.write, c) /\ EndsNamed(fl, ix, c)
BY RebuiltOrdered DEF InOrder, EndsNamed

LEMMA VerifyRing ==
  ASSUME OrderInv, Verify, SectorsNotFilled'
  PROVE  RingInv'
<1>0. /\ Inv /\ Inv' /\ HomedIn(flash) /\ Written /\ IndexTracks /\ IndexTracks'
      /\ flash \in [Addrs -> Cell] /\ nextSeq \in Seqs
      /\ op.start \in Addrs /\ op.start \in Nat /\ op.seq \in Seqs
  <2>1. [StorageStep]_StorageVars
    BY DEF StorageStep
  <2>2. Inv /\ IndexInv /\ IndexInv' /\ nextSeq \in Seqs
    BY <2>1, StepIndexInv DEF OrderInv, CleanRingInv, IndexInv
  <2> QED
    BY <2>2, AreaPositive DEF IndexInv, Inv, StorageType, Addrs
<1>1. /\ op.at = "verify" /\ op' = Nothing /\ op'.at = "idle" /\ AppendInOrder
      /\ flash' = flash /\ nextSeq' = nextSeq /\ busy' = busy /\ faults' = faults
  BY DEF OrderInv, RingInv, Appending, Verify, Nothing
<1>2. SUFFICES InOrder(flash, index'.write, nextSeq)
               /\ (~busy' => EndsNamed(flash, index', nextSeq))
  BY <1>1 DEF RingInv, Appending
<1>3. CASE ~ValidAt(flash, op.start)
  <2>1. faults # 0
    BY <1>0, <1>1, <1>3, IntactIsValid DEF OrderInv, CleanRingInv, CleanInv
  <2>2. NotFilledIn(flash)
    BY <1>1, <2>1 DEF SectorsNotFilled
  <2>3. PICK p \in Addrs : InOrder(flash, p, nextSeq)
    BY <1>1, StoppedInOrder DEF OrderInv, CleanRingInv
  <2>4. Rebuilt(flash, index')
    BY <1>3 DEF Verify
  <2> QED
    BY <1>0, <2>2, <2>3, <2>4, RebuiltRing
<1>4. CASE ValidAt(flash, op.start)
  <2> DEFINE s == op.start
             S == Frames(flash) \ {s}
             e == Wrap(s + flash[s].len)
  <2>1. s \in Frames(flash) /\ Intact /\ op.addr > op.start /\ flash[s] = FrameByte(op.seq, op.len, 0)
    BY <1>0, <1>1, <1>4, ReadBackIntact
  <2>2. flash[s].seq = op.seq /\ flash[s].len = op.len /\ op.addr = s + flash[s].len
    BY <1>0, <1>1, <2>1 DEF FrameByte, Inv, OpShape
  <2>3. /\ Ordered(flash, S, s, nextSeq) /\ EndBefore(flash, S, s)
        /\ \A a \in S : Diff(nextSeq, flash[a].seq) >= 2
        /\ nextSeq = (op.seq + 1) % SeqCount
        /\ ~busy /\ index.count > 0 => \A a \in S : Ahead(index.oldest, s) <= Ahead(a, s)
    BY <1>1 DEF AppendInOrder, Settled, Staying
  <2>4. Diff(nextSeq, flash[s].seq) = 1
    <3>1. Diff(op.seq, op.seq) = 0
      BY <1>0, DiffType
    <3>2. Diff(op.seq, op.seq) + 1 < SeqCount
      BY <3>1, HalfBound
    <3>3. Diff((op.seq + 1) % SeqCount, op.seq) = 1
      BY <1>0, <3>1, <3>2, DiffNext
    <3> QED
      BY <2>2, <2>3, <3>3
  <2>5. e \in Addrs /\ Ordered(flash, Frames(flash), e, nextSeq) /\ Apart(flash, Frames(flash), e)
    BY <1>0, <2>1, <2>3, <2>4, FrameJoins
  <2>6. index' = Updated(index, s, flash[s].seq, e)
    <3>1. index' = Updated(index, s, flash[s].seq, Wrap(op.addr))
      BY <1>4 DEF Verify
    <3> QED
      BY <2>2, <3>1
  <2>7. index'.write = e /\ index'.newest = s /\ index'.newestSeq = flash[s].seq
        /\ index'.count = index.count + 1
        /\ index'.oldest = IF index.count = 0 THEN s ELSE index.oldest
    BY <2>6 DEF Updated
  <2> HIDE DEF e
  <2>8. ASSUME ~busy'
        PROVE  EndsNamed(flash, index', nextSeq)
    <3>1. ~busy
      BY ONLY <1>1, <2>8, Zenon
    <3>2. index.count = Cardinality(S) /\ (index.count > 0 => index.oldest \in S)
      BY <1>0, <1>1, <2>1, <3>1 DEF IndexTracks, Counts
    <3>3. IsFiniteSet(S) /\ Cardinality(S) \in Nat /\ (Cardinality(S) = 0 <=> S = {})
      <4>1. IsFiniteSet(S)
        BY FramesFinite, FS_RemoveElement
      <4> QED
        BY <4>1, FS_CardinalityType, FS_EmptySet
    <3>4. ASSUME NEW a \in Frames(flash)
          PROVE  Diff(nextSeq, flash[s].seq) <= Diff(nextSeq, flash[a].seq)
      <4>1. Diff(nextSeq, flash[a].seq) \in 1 .. Half
        BY <2>5 DEF Ordered
      <4> QED
        BY <2>4, <4>1, HalfBound
    <3>5. ASSUME NEW a \in Frames(flash)
          PROVE  Ahead(index'.oldest, e) <= Ahead(a, e)
      <4>1. CASE index.count = 0
        <5>1. S = {} /\ index'.oldest = s
          BY <2>7, <3>2, <3>3, <4>1
        <5>2. a = s
          BY <5>1
        <5>3. Ahead(s, e) \in Nat
          BY <1>0, <2>5, AheadType
        <5> QED
          BY <5>1, <5>2, <5>3
      <4>2. CASE index.count # 0
        <5>1. index.count > 0 /\ index.oldest \in S /\ index'.oldest = index.oldest
          BY <2>7, <3>2, <3>3, <4>2
        <5>2. a \in Addrs /\ index.oldest \in Addrs /\ index.oldest \in Frames(flash)
          BY <5>1, FramesFinite
        <5>3. Ahead(a, s) \in Nat /\ Ahead(index.oldest, s) \in Nat
          BY <1>0, <5>2, AheadType
        <5>4. ASSUME NEW b \in S
              PROVE  Diff(nextSeq, flash[b].seq) <= Diff(nextSeq, flash[index.oldest].seq)
          <6>1. Ahead(index.oldest, s) <= Ahead(b, s)
            BY <2>3, <3>1, <5>1
          <6>2. S \in SUBSET Addrs /\ s \in Addrs /\ Ordered(flash, S, s, nextSeq)
            BY <1>0, <2>3, FramesFinite
          <6> HIDE DEF S, s
          <6>3. Ahead(index.oldest, s) <= Ahead(b, s)
                  <=> Diff(nextSeq, flash[b].seq) <= Diff(nextSeq, flash[index.oldest].seq)
            BY <1>0, <5>1, <6>2, OrderedIff
          <6> QED
            BY <6>1, <6>3
        <5>5. Diff(nextSeq, flash[a].seq) <= Diff(nextSeq, flash[index.oldest].seq)
          <6>1. CASE a = s
            BY <3>4, <5>2, <6>1
          <6>2. CASE a # s
            BY <5>4, <6>2
          <6> QED
            BY <6>1, <6>2
        <5> QED
          BY <1>0, <2>5, <5>1, <5>2, <5>5, OrderedIff, FramesFinite
      <4> QED
        BY <4>1, <4>2
    <3> QED
      BY <2>7, <3>4, <3>5 DEF EndsNamed
  <2> QED
    BY <2>5, <2>7, <2>8 DEF InOrder
<1> QED
  BY <1>3, <1>4

LEMMA BootRing ==
  ASSUME OrderInv, Boot, SectorsNotFilled'
  PROVE  RingInv'
<1>1. /\ op.at = "off" /\ op' = Nothing /\ op'.at = "idle" /\ flash' = flash /\ faults' = faults
      /\ Rebuilt(flash, index')
      /\ nextSeq' = IF index'.count > 0 THEN (index'.newestSeq + 1) % SeqCount ELSE 0
  BY DEF Boot, Nothing
<1>2. flash \in [Addrs -> Cell] /\ HomedIn(flash) /\ Frames(flash) \subseteq Addrs
  BY FramesFinite DEF OrderInv, CleanRingInv, IndexInv, Inv, StorageType
<1>3. SUFFICES InOrder(flash, index'.write, nextSeq') /\ EndsNamed(flash, index', nextSeq')
  BY <1>1 DEF RingInv, Appending
<1>4. Counts(index', Frames(flash)) /\ (index'.count > 0 => index'.newest \in Frames(flash))
  BY <1>1, RebuiltCounts
<1>5. CASE Frames(flash) = {}
  <2>1. index'.count = 0
    BY <1>4, <1>5, FS_EmptySet DEF Counts
  <2> QED
    BY <1>5, <2>1 DEF InOrder, EndsNamed, Ordered, Apart, EndBefore
<1>6. CASE Frames(flash) # {}
  <2>1. index'.count > 0
    <3>1. Cardinality(Frames(flash)) \in Nat /\ Cardinality(Frames(flash)) # 0
      BY <1>6, FramesFinite, FS_EmptySet
    <3> QED
      BY <1>4, <3>1 DEF Counts
  <2>2. faults # 0
    <3>1. SUFFICES ASSUME faults = 0
                   PROVE  FALSE
      OBVIOUS
    <3>2. \A a \in Addrs : flash[a] = Erased
      BY <1>1, <3>1 DEF OrderInv, CleanRingInv, CleanInv
    <3> QED
      BY <1>6, <3>2 DEF Frames, ValidAt, Erased
  <2>3. NotFilledIn(flash)
    BY <1>1, <2>2 DEF SectorsNotFilled
  <2>4. PICK p \in Addrs, c \in Seqs : InOrder(flash, p, c)
    BY <1>1 DEF OrderInv, RingInv
  <2>5. InOrder(flash, index'.write, c) /\ EndsNamed(flash, index', c)
    BY <1>1, <1>2, <2>3, <2>4, RebuiltRing
  <2>6. /\ index'.newest \in Frames(flash) /\ index'.newestSeq = flash[index'.newest].seq
        /\ \A a \in Frames(flash) : Ahead(index'.oldest, index'.write) <= Ahead(a, index'.write)
        /\ \A a \in Frames(flash) : Diff(c, flash[index'.newest].seq) <= Diff(c, flash[a].seq)
        /\ Ordered(flash, Frames(flash), index'.write, c)
        /\ Apart(flash, Frames(flash), index'.write)
    BY <1>4, <2>1, <2>5 DEF EndsNamed, InOrder
  <2>7. nextSeq' = (flash[index'.newest].seq + 1) % SeqCount
    BY <1>1, <2>1, <2>6
  <2>8. index'.write \in Addrs
    BY <1>1, <1>2, RebuiltType DEF Index
  <2>9. /\ Ordered(flash, Frames(flash), index'.write, nextSeq')
        /\ \A a \in Frames(flash) : Diff(nextSeq', flash[index'.newest].seq) <= Diff(nextSeq', flash[a].seq)
    BY <1>2, <2>4, <2>6, <2>7, <2>8, OrderedRestart
  <2> QED
    BY <2>6, <2>9 DEF InOrder, EndsNamed
<1> QED
  BY <1>5, <1>6

LEMMA WipeRing ==
  ASSUME OrderInv, StartWipe \/ WipeSector \/ WipeFails
  PROVE  RingInv'
<1>1. op.at \in {"idle", "wipe"} /\ index' = index /\ nextSeq' = nextSeq /\ op'.at \in {"idle", "wipe"}
  BY DEF StartWipe, WipeSector, WipeFails, Nothing, OrderInv, CleanRingInv, IndexInv, Inv, StorageType
<1>2. InOrder(flash, index.write, nextSeq)
  BY <1>1 DEF OrderInv, RingInv
<1>3. Frames(flash') \subseteq Frames(flash) /\ \A f \in Frames(flash') : flash'[f] = flash[f]
  <2>1. Inv /\ flash \in [Addrs -> Cell]
    BY DEF OrderInv, CleanRingInv, IndexInv, Inv, StorageType
  <2>2. flash' \in [Addrs -> Cell]
    <3>1. [StorageStep]_StorageVars
      BY DEF StorageStep
    <3> QED
      BY <2>1, <3>1, StepInv DEF Inv, StorageType
  <2>3. Worn(flash, flash')
    <3>1. CASE StartWipe
      BY <3>1 DEF StartWipe, Worn
    <3>2. CASE WipeSector
      BY <3>2 DEF WipeSector, Worn, Erased
    <3>3. CASE WipeFails
      BY <2>1, <3>3, TornChange DEF WipeFails
    <3> QED
      BY <3>1, <3>2, <3>3
  <2> QED
    BY <2>1, <2>2, <2>3, WornFrames
<1>4. InOrder(flash', index'.write, nextSeq')
  BY <1>1, <1>2, <1>3, InOrderSubset
<1>5. op'.at = "idle" => busy' = TRUE
  <2>1. CASE WipeFails
    <3>1. busy' = busy /\ op.at = "wipe"
      BY <2>1 DEF WipeFails
    <3>2. WipeProgress
      BY DEF OrderInv, CleanRingInv, IndexInv
    <3> QED
      BY ONLY <3>1, <3>2, Zenon DEF WipeProgress
  <2>2. CASE StartWipe \/ WipeSector
    <3>1. op'.at = "wipe"
      BY <2>2 DEF StartWipe, WipeSector, Nothing, OrderInv, CleanRingInv, IndexInv, Inv, StorageType
    <3> QED
      BY <3>1
  <2> QED
    BY <2>1, <2>2
<1>6. op'.at = "idle" /\ ~busy' => FALSE
  BY ONLY <1>5, Zenon
<1> QED
  BY <1>1, <1>4, <1>6 DEF RingInv, Appending

LEMMA FinishWipeRing ==
  ASSUME OrderInv, FinishWipe
  PROVE  RingInv'
<1>1. op.at = "wipe" /\ op.addr = AreaSize /\ flash' = flash /\ op'.at = "idle" /\ index'.count = 0
  BY DEF FinishWipe, EndWipe, Nothing, EmptyIndex
<1>2. \A a \in Addrs : flash[a] = Erased
  BY <1>1, AreaPositive DEF OrderInv, CleanRingInv, IndexInv, WipeProgress, Addrs
<1>3. Frames(flash') = {}
  BY <1>1, <1>2 DEF Frames, ValidAt, Erased
<1> QED
  BY <1>1, <1>3 DEF RingInv, Appending, InOrder, EndsNamed, Ordered, Apart, EndBefore

LEMMA StoppedRing ==
  ASSUME OrderInv, AppendFails \/ PowerLoss, SectorsNotFilled'
  PROVE  RingInv'
<1>1. /\ op.at # "off" /\ (flash' = flash \/ Torn(flash')) /\ faults' = faults + 1 /\ faults \in Nat
      /\ Inv /\ HomedIn(flash) /\ nextSeq \in Seqs
  BY DEF AppendFails, PowerLoss, Fault, OrderInv, CleanRingInv, IndexInv, Inv, StorageType
<1>2. flash' \in [Addrs -> Cell] /\ HomedIn(flash')
  BY <1>1, TornType, TornHomed
<1>3. PICK p \in Addrs : InOrder(flash', p, nextSeq)
  BY <1>1, StoppedInOrder DEF OrderInv, CleanRingInv
<1>4. CASE PowerLoss
  <2>1. op'.at = "off"
    BY <1>4 DEF PowerLoss, Off, Nothing
  <2> QED
    BY <1>1, <1>3, <2>1 DEF RingInv, Appending
<1>5. CASE AppendFails
  <2>1. op'.at = "idle" /\ nextSeq' = nextSeq /\ Rebuilt(flash', index')
    BY <1>5 DEF AppendFails, Nothing
  <2>2. NotFilledIn(flash')
    BY <1>1 DEF SectorsNotFilled
  <2>3. InOrder(flash', index'.write, nextSeq) /\ EndsNamed(flash', index', nextSeq)
    BY <1>1, <1>2, <1>3, <2>1, <2>2, RebuiltRing
  <2> QED
    BY <2>1, <2>3 DEF RingInv, Appending
<1> QED
  BY <1>4, <1>5

(* The order is kept by every step; only an append asks that the number it *)
(* takes leaves the next one fresh.                                        *)
LEMMA StepRing ==
  ASSUME OrderInv, [Next]_vars, SectorsNotFilled', (\E n \in Lens : StartAppend(n)) => NextSeqIsFresh'
  PROVE  RingInv'
<1>1. CASE UNCHANGED vars
  <2>1. /\ flash' = flash /\ index' = index /\ op' = op /\ nextSeq' = nextSeq /\ busy' = busy
    BY <1>1 DEF vars
  <2>2. CASE op.at = "idle"
    <3>1. InOrder(flash, index.write, nextSeq) /\ (~busy => EndsNamed(flash, index, nextSeq))
      BY <2>2 DEF OrderInv, RingInv
    <3>2. ~busy' => ~busy
      BY ONLY <2>1, Zenon
    <3> QED
      BY <2>1, <2>2, <3>1, <3>2 DEF RingInv, Appending
  <2>3. CASE op.at \in {"off", "wipe"}
    BY <2>1, <2>3 DEF OrderInv, RingInv, Appending
  <2>4. CASE Appending
    <3>1. AppendInOrder
      BY <2>4 DEF OrderInv, RingInv
    <3>2. ~busy' => ~busy
      BY ONLY <2>1, Zenon
    <3>3. AppendInOrder'
      BY <2>1, <3>1, <3>2 DEF AppendInOrder, Settled, Staying
    <3> QED
      BY <2>1, <2>4, <3>3 DEF RingInv, Appending
  <2> QED
    BY <2>2, <2>3, <2>4 DEF OrderInv, CleanRingInv, IndexInv, Inv, StorageType, Appending
<1> QED
  BY <1>1, StartAppendRing, WorkingRing, VerifyRing, BootRing, WipeRing, FinishWipeRing, StoppedRing
  DEF Next

LEMMA StepOrderInv ==
  ASSUME OrderInv, [Next]_vars, SectorsNotFilled', (\E n \in Lens : StartAppend(n)) => NextSeqIsFresh'
  PROVE  OrderInv'
<1>1. CleanRingInv'
  BY NextIsStorageStep, NextSeqType, StepIndexInv, StepCleanInv DEF OrderInv, CleanRingInv, IndexInv
<1> QED
  BY <1>1, StepRing DEF OrderInv

LEMMA InitOrderInv == Init => OrderInv
BY InitRingInv, InitIndexInv, InitCleanInv, FlashAssumption DEF Init, OrderInv, CleanRingInv, Seqs
-----------------------------------------------------------------------------
(* Where the write pointer stands.                                         *)

(* In the middle of a sector a frame goes right behind the newest one of   *)
(* the frames S, counting back from number c.                              *)
RightBehind(fl, S, p, c) ==
  \/ IsSectorStart(p)
  \/ \E w \in S : /\ p = w + fl[w].len
                  /\ \A a \in S : Diff(c, fl[w].seq) <= Diff(c, fl[a].seq)

(* Between operations the write pointer does, and so does the frame being  *)
(* written.                                                                *)
Following ==
  /\ op.at = "idle" => RightBehind(flash, Frames(flash), index.write, nextSeq)
  /\ op.at \in {"program", "verify"} => RightBehind(flash, Settled, op.start, nextSeq)

(* The first frame of a sector finds all its cells erased.                 *)
FirstOfSector ==
  op.at \in {"program", "verify"} /\ IsSectorStart(op.start) =>
    /\ \A a \in Addrs : op.addr <= a /\ a < SectorEnd(op.start) => flash[a] = Erased
    /\ Intact

(* Only an index that a failed erase left stale may point elsewhere.       *)
HealInv == FirstOfSector /\ (~busy => Following)

LEMMA StartAligned == IsSectorStart(0)
BY AreaPositive, ModRange DEF IsSectorStart

(* The frame that no other is newer than is the nearest behind c.          *)
LEMMA NewestIsNearest ==
  ASSUME NEW fl \in [Addrs -> Cell], NEW p, NEW c \in Seqs, Ordered(fl, Frames(fl), p, c),
         NEW n \in Frames(fl), IsNewest(fl, n), NEW a \in Frames(fl)
  PROVE  Diff(c, fl[n].seq) <= Diff(c, fl[a].seq)
<1>1. /\ fl[n].seq \in Seqs /\ fl[a].seq \in Seqs
      /\ Diff(c, fl[n].seq) \in 1 .. Half /\ Diff(c, fl[a].seq) \in 1 .. Half
  BY FramesFinite, CellFields DEF Ordered
<1>2. ~Newer(fl[a].seq, fl[n].seq)
  BY DEF IsNewest
<1>3. ~(Diff(c, fl[a].seq) < Diff(c, fl[n].seq))
  BY <1>1, <1>2, NewerIsNearer
<1> QED
  BY <1>1, <1>3, HalfBound

LEMMA RebuiltFollows ==
  ASSUME NEW fl \in [Addrs -> Cell], NEW p, NEW c \in Seqs, Ordered(fl, Frames(fl), p, c),
         NEW ix, Rebuilt(fl, ix)
  PROVE  RightBehind(fl, Frames(fl), ix.write, c)
<1>1. ASSUME NEW a \in Nat
      PROVE  CleanFrom(fl, a) = a \/ IsSectorStart(CleanFrom(fl, a))
  BY NextSectorAligned DEF CleanFrom
<1>2. CASE Frames(fl) = {} /\ ix = EmptyIndex(CleanFrom(fl, 0))
  <2>1. ix.write = CleanFrom(fl, 0)
    BY <1>2 DEF EmptyIndex
  <2> QED
    BY <1>1, <2>1, StartAligned, 0 \in Nat DEF RightBehind
<1>3. CASE Frames(fl) # {}
  <2>1. PICK n \in Frames(fl) : /\ ix.write = CleanFrom(fl, Wrap(n + fl[n].len))
                                /\ IsNewest(fl, n)
    BY <1>3 DEF Rebuilt
  <2>2. n + fl[n].len \in Nat
    BY FrameCells
  <2>3. Wrap(n + fl[n].len) = n + fl[n].len \/ Wrap(n + fl[n].len) = 0
    BY DEF Wrap
  <2>4. ix.write = n + fl[n].len \/ IsSectorStart(ix.write)
    BY <1>1, <2>1, <2>2, <2>3, StartAligned, 0 \in Nat
  <2>5. \A a \in Frames(fl) : Diff(c, fl[n].seq) <= Diff(c, fl[a].seq)
    BY <2>1, NewestIsNearest
  <2> QED
    BY <2>4, <2>5 DEF RightBehind
<1> QED
  BY <1>2, <1>3 DEF Rebuilt

(* Whatever ends an operation, except an erase that fails half way, leaves *)
(* the write pointer where it should be, wherever it stood before.         *)
LEMMA RestartFollows ==
  ASSUME OrderInv, OrderInv',
         Boot \/ Verify \/ AppendFails \/ PowerLoss \/ StartWipe \/ WipeSector \/ FinishWipe
  PROVE  Following'
<1>1. /\ flash \in [Addrs -> Cell] /\ flash' \in [Addrs -> Cell] /\ nextSeq' \in Seqs
      /\ Inv /\ Written
  BY DEF OrderInv, CleanRingInv, IndexInv, Inv, StorageType
<1>2. op'.at = "idle" => Ordered(flash', Frames(flash'), index'.write, nextSeq')
  BY DEF OrderInv, RingInv, InOrder
<1>3. ASSUME op' = Nothing, Rebuilt(flash', index')
      PROVE  Following'
  <2>1. op'.at = "idle"
    BY <1>3 DEF Nothing
  <2>2. RightBehind(flash', Frames(flash'), index'.write, nextSeq')
    BY <1>1, <1>2, <1>3, <2>1, RebuiltFollows
  <2> QED
    BY <2>1, <2>2 DEF Following
<1>4. CASE Boot \/ AppendFails
  BY <1>3, <1>4 DEF Boot, AppendFails
<1>5. CASE Verify
  <2>1. op.at = "verify" /\ op' = Nothing /\ op'.at = "idle" /\ flash' = flash /\ nextSeq' = nextSeq
    BY <1>5 DEF Verify, Nothing
  <2>2. CASE ~ValidAt(flash, op.start)
    <3>1. Rebuilt(flash', index')
      BY <1>5, <2>1, <2>2 DEF Verify
    <3> QED
      BY <1>3, <2>1, <3>1
  <2>3. CASE ValidAt(flash, op.start)
    <3> DEFINE s == op.start
    <3>1. /\ s \in Frames(flash) /\ op.addr = s + flash[s].len
          /\ flash[s].seq = op.seq /\ op.seq \in Seqs
      <4>1. s \in Frames(flash) /\ flash[s] = FrameByte(op.seq, op.len, 0)
        BY <1>1, <2>1, <2>3, ReadBackIntact
      <4> QED
        BY <1>1, <2>1, <4>1 DEF FrameByte, Inv, OpShape, StorageType
    <3>2. index'.write = Wrap(s + flash[s].len)
      BY <1>5, <2>3, <3>1 DEF Verify, Updated
    <3>3. Diff(nextSeq, flash[s].seq) = 1
      <4>1. nextSeq = (op.seq + 1) % SeqCount
        BY <2>1 DEF OrderInv, RingInv, Appending, AppendInOrder
      <4>2. Diff(op.seq, op.seq) = 0
        BY <3>1, DiffType
      <4>3. Diff((op.seq + 1) % SeqCount, op.seq) = 1
        BY <3>1, <4>2, DiffNext, HalfBound
      <4> QED
        BY <3>1, <4>1, <4>3
    <3>4. ASSUME NEW a \in Frames(flash)
          PROVE  Diff(nextSeq, flash[s].seq) <= Diff(nextSeq, flash[a].seq)
      <4>1. Diff(nextSeq, flash[a].seq) \in 1 .. Half
        BY <1>2, <2>1 DEF Ordered
      <4> QED
        BY <3>3, <4>1, HalfBound
    <3>5. index'.write = s + flash[s].len \/ index'.write = 0
      BY <3>2 DEF Wrap
    <3>6. RightBehind(flash, Frames(flash), index'.write, nextSeq)
      BY <3>1, <3>4, <3>5, StartAligned DEF RightBehind
    <3> QED
      BY <2>1, <3>6 DEF Following
  <2> QED
    BY <2>2, <2>3
<1>6. CASE StartWipe \/ WipeSector \/ PowerLoss
  <2>1. op'.at \in {"wipe", "off"}
    BY <1>1, <1>6 DEF StartWipe, WipeSector, PowerLoss, Nothing, Off, Inv, StorageType
  <2> QED
    BY <2>1 DEF Following
<1>7. CASE FinishWipe
  <2>1. op'.at = "idle" /\ index'.write = 0
    BY <1>7 DEF FinishWipe, EndWipe, EmptyIndex, Nothing
  <2> QED
    BY <2>1, StartAligned DEF Following, RightBehind
<1> QED
  BY <1>4, <1>5, <1>6, <1>7

(* The steps of an append keep it so.                                      *)
LEMMA StartAppendFollows ==
  ASSUME OrderInv, Following, NEW n \in Lens, StartAppend(n)
  PROVE  Following'
<1> DEFINE p == PlaceFor(n)
<1>1. /\ op.at = "idle" /\ flash' = flash
      /\ op'.at = (IF IsSectorStart(p) THEN "erase" ELSE "program") /\ op'.start = p
      /\ nextSeq' = (nextSeq + 1) % SeqCount
  BY DEF StartAppend, BeginAppend
<1>2. ~IsSectorStart(p) => p = index.write
  BY <1>1, PlaceKeepsOrder
<1> HIDE DEF p
<1>3. CASE IsSectorStart(p)
  BY <1>1, <1>3 DEF Following, RightBehind
<1>4. CASE ~IsSectorStart(p)
  <2>1. op'.at = "program" /\ op'.start = p /\ p = index.write
    BY <1>1, <1>2, <1>4
  <2>2. PICK w \in Frames(flash) :
          /\ p = w + flash[w].len
          /\ \A a \in Frames(flash) : Diff(nextSeq, flash[w].seq) <= Diff(nextSeq, flash[a].seq)
    BY <1>1, <1>4, <2>1 DEF Following, RightBehind
  <2>3. /\ Ordered(flash, Frames(flash), index.write, nextSeq)
        /\ nextSeq \in Seqs /\ flash \in [Addrs -> Cell] /\ Frames(flash) \subseteq Addrs
    BY <1>1, FramesFinite DEF OrderInv, RingInv, InOrder, CleanRingInv, IndexInv, Inv, StorageType
  <2>4. ASSUME NEW a \in Frames(flash)
        PROVE  /\ Diff(nextSeq', flash[a].seq) = Diff(nextSeq, flash[a].seq) + 1
               /\ Diff(nextSeq, flash[a].seq) \in Nat
    <3>1. Diff(nextSeq, flash[a].seq) \in 1 .. Half /\ flash[a].seq \in Seqs
      BY <2>3, CellFields DEF Ordered
    <3>2. Diff(nextSeq, flash[a].seq) \in Nat /\ Diff(nextSeq, flash[a].seq) + 1 < SeqCount
      BY <3>1, HalfBound, FlashAssumption
    <3> QED
      BY <1>1, <2>3, <3>1, <3>2, DiffNext
  <2>5. ASSUME NEW a \in Frames(flash)
        PROVE  Diff(nextSeq', flash[w].seq) <= Diff(nextSeq', flash[a].seq)
    <3>1. Diff(nextSeq, flash[w].seq) <= Diff(nextSeq, flash[a].seq)
      BY <2>2
    <3> QED
      BY <2>2, <2>4, <3>1
  <2>6. w \in Nat /\ flash[w].len \in Nat /\ flash[w].len > 0
    BY <2>2, <2>3, FrameCells
  <2>7. Settled' = Frames(flash) \ {p} /\ w # p
    BY <1>1, <2>1, <2>2, <2>6 DEF Settled
  <2>8. RightBehind(flash, Frames(flash) \ {p}, p, nextSeq')
    BY <2>2, <2>5, <2>7 DEF RightBehind
  <2> QED
    BY <1>1, <2>1, <2>7, <2>8 DEF Following
<1> QED
  BY <1>3, <1>4

LEMMA ProgramFollows ==
  ASSUME OrderInv, Following, ProgramPage
  PROVE  Following'
<1>1. /\ op.at = "program"
      /\ flash' = [a \in Addrs |-> IF a \in ChunkCells THEN Programmed(a) ELSE flash[a]]
      /\ op'.at \in {"program", "verify"} /\ op'.start = op.start
      /\ Inv /\ flash \in [Addrs -> Cell] /\ flash' \in [Addrs -> Cell]
      /\ nextSeq' = nextSeq
      /\ Settled' \subseteq Settled /\ \A a \in Settled' : flash'[a].seq = flash[a].seq
  <2>1. [StorageStep]_StorageVars
    BY DEF StorageStep
  <2>2. Inv /\ flash' \in [Addrs -> Cell]
    BY <2>1, StepInv DEF OrderInv, CleanRingInv, IndexInv, Inv, StorageType
  <2> QED
    BY <2>2, WorkingRing, WorkingFrames DEF ProgramPage, Inv, StorageType
<1>2. op.addr \in Nat /\ op.start \in Nat /\ op.start <= op.addr
  BY <1>1, AreaPositive DEF Inv, StorageType, OpShape, Addrs
<1>3. CASE IsSectorStart(op.start)
  BY <1>1, <1>3 DEF Following, RightBehind
<1>4. CASE ~IsSectorStart(op.start)
  <2>1. PICK w \in Settled :
          /\ op.start = w + flash[w].len
          /\ \A a \in Settled : Diff(nextSeq, flash[w].seq) <= Diff(nextSeq, flash[a].seq)
    BY <1>1, <1>4 DEF Following, RightBehind
  <2>2. /\ w \in Frames(flash) /\ w \in Nat /\ w \in Addrs /\ flash[w].len \in Nat /\ flash[w].len > 0
        /\ \A i \in 0 .. flash[w].len - 1 : w + i \in Addrs
    <3>1. w \in Frames(flash)
      BY <1>1, <2>1 DEF Settled
    <3> QED
      BY <1>1, <3>1, FrameCells
  <2>3. ASSUME NEW i \in 0 .. flash[w].len - 1
        PROVE  flash'[w + i] = flash[w + i]
    <3>1. w + i \in Addrs /\ w + i \notin ChunkCells
      BY <1>2, <2>1, <2>2 DEF ChunkCells
    <3> QED
      BY <1>1, <3>1
  <2>4. w \in Frames(flash')
    BY <1>1, <2>2, <2>3, SameCellsSameFrame
  <2>5. flash'[w] = flash[w] /\ w # op.start
    <3>1. 0 \in 0 .. flash[w].len - 1 /\ w + 0 = w
      BY <2>2
    <3> QED
      BY <2>1, <2>2, <2>3, <3>1
  <2>6. w \in Settled'
    BY <1>1, <2>4, <2>5 DEF Settled
  <2>7. RightBehind(flash', Settled', op.start, nextSeq)
    BY <1>1, <2>1, <2>5, <2>6 DEF RightBehind
  <2> QED
    BY <1>1, <2>7 DEF Following
<1> QED
  BY <1>3, <1>4

LEMMA WorkFollows ==
  ASSUME OrderInv, Following,
         (\E n \in Lens : StartAppend(n)) \/ EraseSector \/ ProgramPage \/ UNCHANGED vars
  PROVE  Following'
<1>1. CASE EraseSector
  <2>1. op'.at = "program" /\ IsSectorStart(op'.start)
    BY <1>1 DEF EraseSector, OrderInv, CleanRingInv, IndexInv, Inv, StorageType, OpShape
  <2> QED
    BY <2>1 DEF Following, RightBehind
<1>2. CASE UNCHANGED vars
  <2>1. flash' = flash /\ index' = index /\ op' = op /\ nextSeq' = nextSeq
    BY <1>2 DEF vars
  <2>2. Settled' = Settled
    BY <2>1 DEF Settled
  <2> QED
    BY <2>1, <2>2 DEF Following
<1> QED
  BY <1>1, <1>2, StartAppendFollows, ProgramFollows

LEMMA StepFirst ==
  ASSUME OrderInv, FirstOfSector, [Next]_vars
  PROVE  FirstOfSector'
<1>1. /\ Inv /\ op \in [at : {"off", "idle", "erase", "program", "verify", "wipe"},
                 addr : 0 .. AreaSize, start : Addrs, len : Lens \cup {0}, seq : Seqs]
  BY DEF OrderInv, CleanRingInv, IndexInv, Inv, StorageType
<1>2. CASE EraseSector
  <2>1. /\ op'.at = "program" /\ op'.addr = op.addr /\ op'.start = op.addr /\ op.addr \in Addrs
        /\ flash' = [a \in Addrs |-> IF a \in SectorCells(op.addr) THEN Erased ELSE flash[a]]
    BY <1>1, <1>2 DEF EraseSector, Inv, OpShape
  <2>2. Behind' = {}
    BY <2>1, AreaPositive DEF Behind, Addrs
  <2>3. \A a \in Addrs : op.addr <= a /\ a < SectorEnd(op.addr) => flash'[a] = Erased
    BY <2>1 DEF SectorCells
  <2> QED
    BY <2>1, <2>2, <2>3 DEF FirstOfSector, Intact
<1>3. CASE ProgramPage
  <2>1. op.at = "program" /\ op'.start = op.start
    BY <1>1, <1>3 DEF ProgramPage
  <2>2. ASSUME IsSectorStart(op.start)
        PROVE  /\ \A a \in Addrs : op'.addr <= a /\ a < SectorEnd(op.start) => flash'[a] = Erased
               /\ Intact'
    <3>1. /\ \A a \in Addrs : op.addr <= a /\ a < SectorEnd(op.start) => flash[a] = Erased
          /\ Intact
      BY <2>1, <2>2 DEF FirstOfSector
    <3> QED
      BY <1>1, <1>3, <3>1, ProgramKeepsIntact
  <2> QED
    BY <2>1, <2>2 DEF FirstOfSector
<1>4. CASE \E n \in Lens : StartAppend(n)
  <2>1. PICK n \in Lens : StartAppend(n)
    BY <1>4
  <2>2. /\ op'.at = (IF IsSectorStart(PlaceFor(n)) THEN "erase" ELSE "program")
        /\ op'.start = PlaceFor(n)
    BY <2>1 DEF StartAppend, BeginAppend
  <2> QED
    BY <2>2 DEF FirstOfSector
<1>5. CASE \/ Boot \/ Verify \/ StartWipe \/ WipeSector \/ FinishWipe
           \/ AppendFails \/ WipeFails \/ PowerLoss
  <2>1. op'.at \in {"idle", "wipe", "off"}
    BY <1>1, <1>5 DEF Boot, Verify, StartWipe, WipeSector, FinishWipe, EndWipe, AppendFails, WipeFails,
                      PowerLoss, Nothing, Off
  <2> QED
    BY <2>1 DEF FirstOfSector
<1>6. CASE UNCHANGED vars
  <2>1. flash' = flash /\ op' = op
    BY <1>6 DEF vars
  <2>2. Intact' <=> Intact
    BY <2>1 DEF Intact, Behind, OwnByte
  <2> QED
    BY <2>1, <2>2 DEF FirstOfSector
<1> QED
  BY <1>2, <1>3, <1>4, <1>5, <1>6 DEF Next

LEMMA StepHeal ==
  ASSUME OrderInv, OrderInv', HealInv, [Next]_vars
  PROVE  HealInv'
<1>1. FirstOfSector'
  BY StepFirst DEF HealInv
<1>2. SUFFICES ASSUME ~busy'
               PROVE  Following'
  BY <1>1 DEF HealInv
<1>3. CASE WipeFails
  <2>1. busy' = busy /\ busy = TRUE
    BY <1>3 DEF WipeFails, OrderInv, CleanRingInv, IndexInv, WipeProgress
  <2> QED
    BY ONLY <1>2, <2>1
<1>4. CASE (\E n \in Lens : StartAppend(n)) \/ EraseSector \/ ProgramPage \/ UNCHANGED vars
  <2>1. busy' = busy
    BY <1>4 DEF StartAppend, BeginAppend, EraseSector, ProgramPage, vars
  <2>2. ~busy
    BY ONLY <1>2, <2>1, Zenon
  <2>3. Following
    BY <2>2 DEF HealInv
  <2> QED
    BY <1>4, <2>3, WorkFollows
<1> QED
  BY <1>3, <1>4, RestartFollows DEF Next

(* A frame that cannot be read back, put where it should be, sends the     *)
(* write pointer to the next sector.                                       *)
LEMMA HealsAtVerify ==
  ASSUME OrderInv, FirstOfSector, Following, Verify, ~ValidAt(flash, op.start)
  PROVE  /\ index'.write = Wrap(SectorEnd(op.start)) /\ IsSectorStart(index'.write)
         /\ Settled = Frames(flash)
<1> DEFINE p == op.start
           F == Frames(flash)
<1>1. /\ op.at = "verify" /\ Rebuilt(flash, index')
      /\ Inv /\ Written /\ flash \in [Addrs -> Cell] /\ nextSeq \in Seqs
      /\ p \in Addrs /\ p \in Nat /\ F \in SUBSET Addrs
  BY FramesFinite, AreaPositive
  DEF Verify, OrderInv, CleanRingInv, IndexInv, Inv, StorageType, Addrs
<1>2. ~IsSectorStart(p)
  BY <1>1, IntactIsValid DEF FirstOfSector
<1>3. Settled = F /\ Ordered(flash, F, p, nextSeq)
  <2>1. op.start \notin Frames(flash)
    BY DEF Frames
  <2> QED
    BY <1>1, <2>1 DEF Settled, OrderInv, RingInv, Appending, AppendInOrder
<1>4. PICK w \in F : /\ p = w + flash[w].len
                     /\ \A a \in F : Diff(nextSeq, flash[w].seq) <= Diff(nextSeq, flash[a].seq)
  BY <1>1, <1>2, <1>3 DEF Following, RightBehind
<1>5. PICK n \in F : IsNewest(flash, n) /\ index'.write = CleanFrom(flash, Wrap(n + flash[n].len))
  BY <1>1, <1>4 DEF Rebuilt
<1>6. n = w
  <2>1. /\ Diff(nextSeq, flash[w].seq) \in 1 .. Half /\ Diff(nextSeq, flash[n].seq) \in 1 .. Half
        /\ flash[w].seq \in Seqs /\ flash[n].seq \in Seqs
    BY <1>1, <1>3, <1>4, <1>5, CellFields DEF Ordered
  <2>2. Diff(nextSeq, flash[w].seq) <= Diff(nextSeq, flash[n].seq)
    BY <1>4, <1>5
  <2>3. Diff(nextSeq, flash[n].seq) <= Diff(nextSeq, flash[w].seq)
    BY <1>1, <1>3, <1>4, <1>5, NewestIsNearest
  <2>4. Diff(nextSeq, flash[w].seq) = Diff(nextSeq, flash[n].seq)
    BY <2>1, <2>2, <2>3, HalfBound
  <2>5. flash[w].seq = flash[n].seq
    BY <1>1, <2>1, <2>4, NewerIsNearer
  <2> HIDE DEF p, F
  <2>6. p \in Addrs /\ F \in SUBSET Addrs /\ Ordered(flash, F, p, nextSeq) /\ w \in F /\ n \in F
    BY <1>1, <1>3, <1>4, <1>5
  <2>7. w = n <=> flash[w].seq = flash[n].seq
    BY <1>1, <2>6, OrderedIff
  <2> QED
    BY <2>5, <2>7
<1>7. flash[p] # Erased
  <2>1. p \in Behind /\ op.len \in Lens /\ op.seq \in Seqs
    BY <1>1, LensNat, AreaPositive DEF Behind, Inv, StorageType, OpShape
  <2>2. flash[p] \in {OwnByte(p), Garbage}
    BY <1>1, <2>1 DEF Written
  <2> QED
    BY <1>1, <2>1, <2>2, CellKinds DEF OwnByte
<1>8. index'.write = Wrap(NextSector(p))
  <2>1. Wrap(p) = p
    BY <1>1, AreaPositive DEF Wrap, Addrs
  <2> QED
    BY <1>4, <1>5, <1>6, <1>7, <2>1 DEF CleanFrom
<1>9. NextSector(p) = SectorEnd(p)
  <2>1. SectorSize \in Nat \ {0} /\ p % SectorSize \in 0 .. SectorSize - 1 /\ p % SectorSize # 0
    BY <1>1, <1>2, AreaPositive, ModRange DEF IsSectorStart
  <2> QED
    BY <1>1, <2>1 DEF NextSector, SectorEnd, SectorStart
<1> QED
  BY <1>1, <1>3, <1>8, <1>9, NextSectorAligned

-----------------------------------------------------------------------------
(* Numbers last.  Every frame is as many numbers old as the frames behind  *)
(* it have room for, and a few more for each fault: a failed append takes  *)
(* a number and stores nothing, and a search of the whole log may set the  *)
(* write pointer back.                                                     *)

(* A number that is still stored in a log of A cells, with frames of n     *)
(* cells or more, is less than half of S numbers old.                      *)
LEMMA YoungEnough ==
  ASSUME NEW n \in Nat \ {0}, NEW d \in Nat, NEW A \in Nat, NEW S \in Nat,
         n * d <= A, 2 * (A + n) < n * S
  PROVE  2 * (d + 1) < S
<1>1. SUFFICES ASSUME S <= 2 * (d + 1)
               PROVE  FALSE
  OBVIOUS
<1>2. n * S <= n * (2 * (d + 1))
  BY <1>1
<1>3. n * (2 * (d + 1)) = 2 * (n * d) + 2 * n
  OBVIOUS
<1> QED
  BY <1>2, <1>3

(* Room for the ages: one turn around the log, and one more with a number  *)
(* lost for each fault.  Until the write pointer stands where it should    *)
(* the last of these is not used up.                                       *)
FullAt(n, x) == AreaSize + x * (AreaSize + n)
Full(n) == FullAt(n, faults)
Room(n) == IF Following THEN Full(n) ELSE Full(n) - (AreaSize + n)

Aged(n) ==
  /\ op.at = "off" => \E p \in Addrs, c \in Seqs :
       /\ InOrder(flash, p, c)
       /\ \A a \in Frames(flash) : n * Diff(c, flash[a].seq) <= Full(n) - AreaSize
  /\ op.at \in {"idle", "wipe"} =>
       \A a \in Frames(flash) :
         n * Diff(nextSeq, flash[a].seq) + Ahead(a, index.write) <= Room(n)
  /\ Appending =>
       \A a \in Settled :
         n * (Diff(nextSeq, flash[a].seq) - 1) + Ahead(a, op.start) <= Room(n)

(* Up to f faults the frames are in order and not too old.                 *)
AgedInv(n, f) == CleanRingInv /\ (faults <= f => RingInv /\ HealInv /\ Aged(n))

LEMMA FullType ==
  ASSUME NEW n \in Nat \ {0}, NEW x \in Nat
  PROVE  /\ FullAt(n, x) \in Nat /\ AreaSize <= FullAt(n, x)
         /\ FullAt(n, x + 1) = FullAt(n, x) + AreaSize + n
<1> DEFINE k == AreaSize + n
           y == x * k
<1>1. AreaSize \in Nat /\ k \in Nat
  BY AreaPositive
<1>2. FullAt(n, x) = AreaSize + y
  BY DEF FullAt
<1>3. FullAt(n, x + 1) = AreaSize + (x + 1) * k
  BY DEF FullAt
<1>4. k = AreaSize + n
  OBVIOUS
<1> HIDE DEF k
<1>5. (x + 1) * k = y + k /\ y \in Nat
  BY <1>1
<1> HIDE DEF y
<1> QED
  BY <1>1, <1>2, <1>3, <1>4, <1>5

(* What there is room for lies between the bounds for one fault more and   *)
(* one less.                                                               *)
LEMMA RoomType ==
  ASSUME NEW n \in Nat \ {0}, faults \in Nat
  PROVE  /\ Full(n) \in Nat /\ AreaSize <= Full(n) /\ Room(n) \in Int
         /\ Room(n) <= Full(n) /\ Full(n) <= Room(n) + AreaSize + n
         /\ Following => Room(n) = Full(n)
<1>1. Full(n) \in Nat /\ AreaSize <= Full(n) /\ AreaSize \in Nat
  BY FullType, AreaPositive DEF Full
<1> QED
  BY <1>1 DEF Room

(* No step but a loss of power leaves less room.                           *)
LEMMA RoomKept ==
  ASSUME NEW n \in Nat \ {0}, OrderInv, OrderInv', [Next]_vars, ~PowerLoss, ~Boot
  PROVE  Room(n) <= Room(n)'
<1>1. faults \in Nat /\ faults' \in Nat
  BY DEF OrderInv, CleanRingInv, IndexInv, Inv, StorageType
<1>2. AreaSize \in Nat /\ Full(n) \in Nat /\ Room(n) \in Int /\ Room(n) <= Full(n)
  BY <1>1, RoomType, AreaPositive
<1>3. Full(n)' = FullAt(n, faults') /\ Full(n) = FullAt(n, faults)
  BY DEF Full
<1>4. Room(n)' = IF Following' THEN Full(n)' ELSE Full(n)' - (AreaSize + n)
  BY DEF Room
<1>5. CASE AppendFails \/ WipeFails
  <2>1. Full(n)' = Full(n) + AreaSize + n
    BY <1>1, <1>3, <1>5, FullType DEF AppendFails, WipeFails, Fault
  <2> QED
    BY <1>2, <1>4, <2>1
<1>6. CASE ~AppendFails /\ ~WipeFails
  <2>1. faults' = faults
    BY <1>6 DEF Next, vars, StartAppend, BeginAppend, EraseSector, ProgramPage, Verify, StartWipe,
                WipeSector, FinishWipe, EndWipe
  <2>2. Full(n)' = Full(n)
    BY <1>3, <2>1
  <2>3. Following => Following'
    BY <1>6, RestartFollows, WorkFollows DEF Next
  <2> QED
    BY <1>2, <1>4, <2>2, <2>3 DEF Room
<1> QED
  BY <1>5, <1>6

(* The order says that the next number is newer than every stored one.     *)
LEMMA OrderIsFresh == OrderInv => NextSeqIsFresh
<1> SUFFICES ASSUME OrderInv, op.at # "off", NEW a \in Frames(flash)
             PROVE  Newer(nextSeq, flash[a].seq)
  BY DEF NextSeqIsFresh
<1>1. /\ nextSeq \in Seqs /\ flash \in [Addrs -> Cell] /\ a \in Addrs /\ op.seq \in Seqs
      /\ op.at \in {"idle", "wipe"} \/ Appending
  BY FramesFinite DEF OrderInv, CleanRingInv, IndexInv, Inv, StorageType, Appending
<1>2. flash[a].seq \in Seqs
  BY <1>1, CellFields
<1>3. Diff(nextSeq, flash[a].seq) \in 1 .. Half
  <2>1. CASE op.at \in {"idle", "wipe"}
    BY <2>1 DEF OrderInv, RingInv, InOrder, Ordered
  <2>2. CASE Appending /\ a \in Settled
    BY <2>2 DEF OrderInv, RingInv, AppendInOrder, Ordered
  <2>3. CASE Appending /\ a \notin Settled
    <3>1. a = op.start /\ flash[a].seq = op.seq /\ nextSeq = (op.seq + 1) % SeqCount
      BY <2>3 DEF OrderInv, RingInv, AppendInOrder, Settled
    <3>2. Diff(op.seq, op.seq) = 0
      BY <1>1, DiffType
    <3>3. Diff((op.seq + 1) % SeqCount, op.seq) = 1
      BY <1>1, <3>2, DiffNext, HalfBound
    <3> QED
      BY <3>1, <3>3, HalfBound
  <2> QED
    BY <1>1, <2>1, <2>2, <2>3
<1> QED
  BY <1>1, <1>2, <1>3, DiffMod DEF Newer, Half

(* The room that f faults make.                                            *)
LEMMA FullBound ==
  ASSUME NEW n \in Nat \ {0}, NEW f \in Nat, faults \in Nat, faults <= f
  PROVE  /\ Full(n) <= AreaSize + f * (AreaSize + n)
         /\ AreaSize + f * (AreaSize + n) \in Nat
         /\ AreaSize + f * (AreaSize + n) + n = (f + 1) * (AreaSize + n)
<1> DEFINE k == AreaSize + n
<1>1. k \in Nat /\ AreaSize \in Nat
  BY AreaPositive
<1> HIDE DEF k
<1>2. faults * k <= f * k /\ faults * k \in Nat /\ f * k \in Nat /\ (f + 1) * k = f * k + k
  BY <1>1
<1>3. Full(n) = AreaSize + faults * k
  BY DEF Full, FullAt, k
<1> DEFINE x == faults * k
           y == f * k
<1>4. x <= y /\ x \in Nat /\ y \in Nat
  BY <1>2
<1>5. (f + 1) * k = y + k
  BY <1>2
<1> HIDE DEF x, y
<1>6. AreaSize + x <= AreaSize + y /\ AreaSize + y \in Nat
  BY <1>1, <1>4
<1>7. AreaSize + y + n = y + (AreaSize + n)
  BY <1>1, <1>4
<1> QED
  BY <1>3, <1>5, <1>6, <1>7 DEF x, y, k

(* Appending keeps numbers fresh as long as no frame is too old.           *)
LEMMA AppendKeepsFresh ==
  ASSUME NEW n \in Nat \ {0}, NEW f \in Nat, NumbersOutlast(n, f), faults <= f,
         OrderInv, Aged(n), NEW m \in Lens, StartAppend(m)
  PROVE  /\ NextSeqIsFresh'
         /\ \A a \in Frames(flash) : Diff(nextSeq', flash[a].seq) = Diff(nextSeq, flash[a].seq) + 1
<1>1. op.at = "idle" /\ flash' = flash /\ nextSeq' = (nextSeq + 1) % SeqCount
  BY DEF StartAppend, BeginAppend
<1> SUFFICES ASSUME NEW a \in Frames(flash)
             PROVE  /\ Newer(nextSeq', flash[a].seq)
                    /\ Diff(nextSeq', flash[a].seq) = Diff(nextSeq, flash[a].seq) + 1
  BY <1>1 DEF NextSeqIsFresh
<1>2. /\ nextSeq \in Seqs /\ nextSeq' \in Seqs /\ flash[a].seq \in Seqs
      /\ a \in Addrs /\ index.write \in Addrs /\ faults \in Nat
  BY <1>1, FramesFinite, CellFields, NextSeqOf
  DEF OrderInv, CleanRingInv, IndexInv, Inv, StorageType, Index
<1> DEFINE d == Diff(nextSeq, flash[a].seq)
           R == AreaSize + f * (AreaSize + n)
<1>3. d \in 1 .. Half
  BY <1>1 DEF OrderInv, RingInv, InOrder, Ordered
<1>4. n * d + Ahead(a, index.write) <= Room(n)
  BY <1>1 DEF Aged
<1>5. d \in Nat /\ d + 1 < SeqCount
  BY <1>3, HalfBound
<1>6. Diff(nextSeq', flash[a].seq) = d + 1
  BY <1>1, <1>2, <1>5, DiffNext
<1>7. Room(n) \in Int /\ Room(n) <= R /\ R \in Nat /\ 2 * (R + n) < n * SeqCount
  <2>1. Full(n) <= R /\ R \in Nat /\ R + n = (f + 1) * (AreaSize + n)
    BY <1>2, FullBound
  <2>2. Full(n) \in Nat /\ Room(n) \in Int /\ Room(n) <= Full(n)
    BY <1>2, RoomType
  <2>3. 2 * (R + n) < n * SeqCount
    BY <2>1 DEF NumbersOutlast
  <2> HIDE DEF R
  <2> QED
    BY <2>1, <2>2, <2>3
<1> HIDE DEF d, R
<1>8. n * d <= R
  <2>1. n * d \in Nat /\ Ahead(a, index.write) \in Nat
    BY <1>2, <1>5, AheadType
  <2> DEFINE x == n * d
  <2>2. x \in Nat /\ x + Ahead(a, index.write) <= Room(n)
    BY <1>4, <2>1 DEF d
  <2> HIDE DEF x
  <2>3. x <= R
    BY <1>7, <2>1, <2>2
  <2> QED
    BY <2>3 DEF x
<1>9. 2 * (d + 1) < SeqCount
  BY <1>5, <1>7, <1>8, HalfBound, YoungEnough
<1>10. d + 1 \in 1 .. Half
  BY <1>5, <1>9, HalfBound DEF Half
<1>11. Newer(nextSeq', flash[a].seq)
  BY <1>2, <1>6, <1>10, DiffMod DEF Newer, Half
<1> QED
  BY <1>6, <1>11 DEF d

LEMMA OrderTypes ==
  ASSUME OrderInv
  PROVE  /\ flash \in [Addrs -> Cell] /\ nextSeq \in Seqs /\ index.write \in Addrs
         /\ op.start \in Addrs /\ op.start \in Nat /\ AreaSize \in Nat /\ faults \in Nat
         /\ Inv /\ HomedIn(flash) /\ Written
BY AreaPositive DEF OrderInv, CleanRingInv, IndexInv, Inv, StorageType, Index, Addrs

(* A number more costs n.                                                  *)
LEMMA OneOlder ==
  ASSUME NEW n \in Nat \ {0}, NEW d \in Nat
  PROVE  n * d \in Nat /\ n * (d - 1) \in Int /\ n * d = n * (d - 1) + n
OBVIOUS

LEMMA StartAppendAged ==
  ASSUME NEW n \in Nat \ {0}, NEW f \in Nat, NumbersOutlast(n, f), faults <= f,
         OrderInv, Aged(n), NEW m \in Lens, StartAppend(m),
         Room(n)' \in Int, Room(n) <= Room(n)'
  PROVE  Aged(n)'
<1> DEFINE p == PlaceFor(m)
<1>1. /\ op.at = "idle" /\ flash' = flash /\ op'.at \in {"erase", "program"} /\ op'.start = p
  BY DEF StartAppend, BeginAppend
<1>2. PICK k \in Int : k <= 0 /\ \A a \in Frames(flash) : Ahead(a, p) = Ahead(a, index.write) + k
  BY <1>1, PlaceKeepsOrder
<1> HIDE DEF p
<1>3. Settled' \subseteq Frames(flash)
  BY <1>1 DEF Settled
<1>4. ASSUME NEW a \in Frames(flash)
      PROVE  n * (Diff(nextSeq', flash[a].seq) - 1) + Ahead(a, p) <= Room(n)'
  <2> DEFINE d == Diff(nextSeq, flash[a].seq)
             x == n * d
  <2>1. Diff(nextSeq', flash[a].seq) = d + 1
    BY AppendKeepsFresh
  <2>2. d \in Nat
    <3>1. d \in 1 .. Half
      BY <1>1 DEF OrderInv, RingInv, InOrder, Ordered
    <3> QED
      BY <3>1, HalfBound
  <2>3. x \in Nat /\ Ahead(a, index.write) \in Nat /\ Room(n) \in Int
    BY <2>2, OrderTypes, RoomType, AheadType, FramesFinite
  <2>4. x + Ahead(a, index.write) <= Room(n)
    BY <1>1 DEF Aged
  <2>5. Diff(nextSeq', flash[a].seq) - 1 = d
    BY <2>1, <2>2
  <2>6. Ahead(a, p) = Ahead(a, index.write) + k
    BY <1>2
  <2>7. x + Ahead(a, p) <= Room(n)'
    <3> HIDE DEF x, d
    <3> QED
      BY <1>2, <2>3, <2>4, <2>6
  <2> QED
    BY <2>5, <2>7
<1> QED
  BY <1>1, <1>3, <1>4 DEF Aged, Appending

LEMMA WorkAged ==
  ASSUME NEW n \in Nat \ {0}, OrderInv, Aged(n), EraseSector \/ ProgramPage,
         Room(n)' \in Int, Room(n) <= Room(n)'
  PROVE  Aged(n)'
<1>1. /\ Settled' \subseteq Settled /\ \A a \in Settled' : flash'[a].seq = flash[a].seq
      /\ op.at \in {"erase", "program"} /\ op'.at \in {"program", "verify"}
      /\ op'.start = op.start /\ nextSeq' = nextSeq
  BY WorkingRing, WorkingFrames
<1>2. ASSUME NEW a \in Settled'
      PROVE  n * (Diff(nextSeq', flash'[a].seq) - 1) + Ahead(a, op'.start) <= Room(n)'
  <2> DEFINE d == Diff(nextSeq, flash[a].seq)
  <2>1. n * (d - 1) + Ahead(a, op.start) <= Room(n)
    BY <1>1 DEF Aged, Appending
  <2>2. n * (d - 1) \in Int /\ Ahead(a, op.start) \in Int /\ Room(n) \in Int
    <3>1. a \in Frames(flash)
      BY <1>1 DEF Settled
    <3>2. d \in 1 .. Half
      BY <1>1, <3>1 DEF OrderInv, RingInv, Appending, AppendInOrder, Ordered
    <3> QED
      BY <3>1, <3>2, HalfBound, OneOlder, OrderTypes, RoomType, AheadType, FramesFinite
  <2> DEFINE x == n * (d - 1)
  <2>3. x + Ahead(a, op.start) <= Room(n)'
    <3>1. x \in Int /\ x + Ahead(a, op.start) <= Room(n)
      BY <2>1, <2>2
    <3> HIDE DEF x
    <3> QED
      BY <2>2, <3>1
  <2> QED
    BY <1>1, <2>3
<1> QED
  BY <1>1, <1>2 DEF Aged, Appending

(* A frame that is stored moves the write pointer on by its length.        *)
LEMMA StoredAged ==
  ASSUME NEW n \in Nat \ {0}, \A m \in Lens : n <= m, OrderInv, Aged(n), Verify,
         ValidAt(flash, op.start),
         Room(n)' \in Int, Room(n) <= Room(n)', AreaSize <= Room(n)'
  PROVE  Aged(n)'
<1>0. /\ flash \in [Addrs -> Cell] /\ nextSeq \in Seqs /\ AreaSize \in Nat
      /\ op.start \in Addrs /\ op.start \in Nat /\ Inv /\ HomedIn(flash) /\ Written
  BY OrderTypes
<1>1. op.at = "verify" /\ op'.at = "idle" /\ flash' = flash /\ nextSeq' = nextSeq /\ AppendInOrder
  BY DEF Verify, Nothing, OrderInv, RingInv, Appending
<1> DEFINE s == op.start
           S == Frames(flash) \ {s}
           e == Wrap(s + flash[s].len)
<1>2. s \in Frames(flash) /\ flash[s] = FrameByte(op.seq, op.len, 0)
  BY <1>0, <1>1, ReadBackIntact
<1>3. flash[s].seq = op.seq /\ flash[s].len = op.len /\ op.addr = s + flash[s].len
      /\ op.len \in Lens /\ op.len \in Nat /\ n <= op.len /\ op.seq \in Seqs
  BY <1>0, <1>1, <1>2, LensNat DEF FrameByte, Inv, OpShape, StorageType
<1>4. index'.write = e
  BY <1>3 DEF Verify, Updated
<1>5. /\ Ordered(flash, S, s, nextSeq) /\ EndBefore(flash, S, s)
      /\ \A a \in S : Diff(nextSeq, flash[a].seq) >= 2
      /\ nextSeq = (op.seq + 1) % SeqCount
  BY <1>1 DEF AppendInOrder, Settled
<1>6. Diff(nextSeq, flash[s].seq) = 1
  <2>1. Diff(op.seq, op.seq) = 0
    BY <1>3, DiffType
  <2>2. Diff((op.seq + 1) % SeqCount, op.seq) = 1
    BY <1>3, <2>1, DiffNext, HalfBound
  <2> QED
    BY <1>3, <1>5, <2>2
<1>7. /\ Ahead(s, e) = AreaSize - op.len
      /\ \A a \in S : Ahead(a, e) = Ahead(a, s) - op.len
  BY <1>0, <1>2, <1>3, <1>5, <1>6, FrameJoins
<1> HIDE DEF e
<1>8. ASSUME NEW a \in Frames(flash)
      PROVE  n * Diff(nextSeq, flash[a].seq) + Ahead(a, e) <= Room(n)'
  <2>1. CASE a = s
    BY <1>0, <1>3, <1>6, <1>7, <2>1
  <2>2. CASE a # s
    <3>1. n * (Diff(nextSeq, flash[a].seq) - 1) + Ahead(a, s) <= Room(n)
      BY <1>1, <2>2 DEF Aged, Appending, Settled
    <3>2. Ahead(a, e) = Ahead(a, s) - op.len /\ Ahead(a, s) \in Nat
      BY <1>0, <1>7, <2>2, AheadType, FramesFinite
    <3> DEFINE d == Diff(nextSeq, flash[a].seq)
               x == n * (d - 1)
    <3>3. d \in Nat
      BY <1>5, <2>2, HalfBound DEF Ordered
    <3>4. x \in Int /\ n * d = x + n
      BY <3>3
    <3>5. x + Ahead(a, s) <= Room(n) /\ Room(n) \in Int
      BY <3>1, OrderTypes, RoomType
    <3> HIDE DEF x
    <3>6. x + n + Ahead(a, e) <= Room(n)'
      BY <1>0, <1>3, <3>2, <3>4, <3>5
    <3> QED
      BY <3>4, <3>6
  <2> QED
    BY <2>1, <2>2
<1> QED
  BY <1>1, <1>4, <1>8 DEF Aged, Appending

(* One that cannot be read back moves it on as well, to the next sector,   *)
(* if it was put where it should be; if not, there is room left.           *)
LEMMA NotStoredAged ==
  ASSUME NEW n \in Nat \ {0}, \A m \in Lens : n <= m, OrderInv, OrderInv', FirstOfSector, Aged(n),
         Verify, ~ValidAt(flash, op.start),
         Room(n)' \in Int, Room(n) <= Room(n)', ~Following => Room(n) + AreaSize + n <= Room(n)'
  PROVE  Aged(n)'
<1>0. /\ flash \in [Addrs -> Cell] /\ nextSeq \in Seqs /\ AreaSize \in Nat
      /\ op.start \in Addrs /\ op.start \in Nat /\ Inv /\ HomedIn(flash) /\ Room(n) \in Int
      /\ index'.write \in Addrs
  BY OrderTypes, RoomType DEF OrderInv, CleanRingInv, IndexInv, Inv, StorageType, Index
<1>1. op.at = "verify" /\ op'.at = "idle" /\ flash' = flash /\ nextSeq' = nextSeq /\ AppendInOrder
  BY DEF Verify, Nothing, OrderInv, RingInv, Appending
<1>2. Settled = Frames(flash)
  BY <1>1 DEF Settled, Frames
<1> DEFINE s == op.start
           w == index'.write
<1>3. ASSUME NEW a \in Frames(flash)
      PROVE  n * Diff(nextSeq, flash[a].seq) + Ahead(a, w) <= Room(n)'
  <2> DEFINE d == Diff(nextSeq, flash[a].seq)
             x == n * (d - 1)
  <2>1. x + Ahead(a, s) <= Room(n)
    BY <1>1, <1>2 DEF Aged, Appending
  <2>2. /\ a \in Addrs /\ a \in Nat /\ Ahead(a, s) \in Nat /\ Ahead(a, w) \in Nat /\ Ahead(a, w) <= AreaSize
    <3>1. a \in Addrs /\ s \in Addrs /\ w \in Addrs
      BY <1>0, FramesFinite
    <3> HIDE DEF s, w
    <3>2. Ahead(a, s) \in 0 .. AreaSize - 1 /\ Ahead(a, w) \in 0 .. AreaSize - 1
      BY <3>1, AheadType
    <3> QED
      BY <1>0, <3>1, <3>2 DEF Addrs
  <2>3. x \in Int /\ n * d = x + n
    <3>1. d \in 1 .. Half
      BY <1>1, <1>2 DEF AppendInOrder, Ordered
    <3> QED
      BY <3>1, HalfBound, OneOlder
  <2> HIDE DEF x
  <2>4. CASE ~Following
    <3>1. Room(n) + AreaSize + n <= Room(n)'
      BY <2>4
    <3>2. x + n + Ahead(a, w) <= Room(n)'
      <4>1. x <= Room(n)
        <5> HIDE DEF w, s
        <5> QED
          BY <1>0, <2>1, <2>2, <2>3
      <4> QED
        BY <1>0, <2>2, <2>3, <3>1, <4>1
    <3> QED
      BY <2>3, <3>2
  <2>5. CASE Following
    <3>1. w = Wrap(SectorEnd(s))
      BY <2>5, HealsAtVerify
    <3>2. op.len \in Nat /\ n <= op.len /\ s + op.len <= SectorEnd(s) /\ op.len > 0
          /\ SectorEnd(s) \in Nat
      <4>1. op.len \in Lens /\ s + op.len <= SectorEnd(s)
        BY <1>0, <1>1 DEF Inv, OpShape
      <4>2. op.len \in Nat /\ op.len > 0 /\ n <= op.len
        BY <4>1, LensNat
      <4>3. SectorEnd(s) \in Nat
        BY <1>0, SectorInArea, AreaPositive
      <4> QED
        BY <4>1, <4>2, <4>3
    <3>3. a < s \/ a >= SectorEnd(s)
      <4>1. SUFFICES ASSUME s <= a, a < SectorEnd(s)
                     PROVE  FALSE
        BY <1>0, <2>2, <3>2
      <4>2. SectorStart(a) = SectorStart(s)
        <5>1. /\ SectorStart(s) \in Nat /\ SectorStart(s) <= s /\ SectorEnd(s) = SectorStart(s) + SectorSize
          BY <1>0, SectorInArea
        <5> QED
          BY <1>0, <2>2, <4>1, <5>1, SameSector
      <4>3. EndBefore(flash, Frames(flash), s)
        BY <1>1, <1>2 DEF AppendInOrder
      <4>4. a + flash[a].len <= s /\ flash[a].len \in Nat /\ flash[a].len > 0
        BY <1>0, <4>2, <4>3, FrameCells DEF EndBefore
      <4> QED
        BY <1>0, <2>2, <4>1, <4>4
    <3>4. Ahead(a, w) = Ahead(a, s) - (SectorEnd(s) - s)
      BY <1>0, <2>2, <3>1, <3>2, <3>3, Turn
    <3>5. x + n + Ahead(a, w) <= Room(n)'
      <4> HIDE DEF w, s
      <4>1. n <= SectorEnd(s) - s
        BY <1>0, <3>2 DEF s
      <4> QED
        BY <1>0, <2>1, <2>2, <2>3, <3>2, <3>4, <4>1 DEF s
    <3> QED
      BY <2>3, <3>5
  <2> QED
    BY <2>4, <2>5
<1> QED
  BY <1>1, <1>3 DEF Aged, Appending

(* Wherever an operation is stopped: its frames are settled ones and the   *)
(* one it was writing.                                                     *)
LEMMA StoppedFrames ==
  ASSUME OrderInv, Appending, NEW fl, fl = flash \/ Torn(fl), NEW a \in Frames(fl)
  PROVE  \/ a \in Settled /\ fl[a].seq = flash[a].seq
         \/ a = op.start /\ fl[a].seq = op.seq
<1>1. /\ Inv /\ flash \in [Addrs -> Cell] /\ fl \in [Addrs -> Cell] /\ op.start \in Nat
  BY OrderTypes, TornType
<1>2. CASE op.at = "erase"
  <2>1. Worn(flash, fl)
    BY <1>1, <1>2, TornChange
  <2>2. a \in Frames(flash) /\ fl[a] = flash[a]
    BY <1>1, <2>1, WornFrames
  <2> QED
    BY <1>2, <2>2 DEF Settled
<1>3. CASE op.at \in {"program", "verify"}
  <2>1. Filled(fl)
    BY <1>1, <1>3, TornChange DEF Filled
  <2>2. /\ Frames(fl) \ {op.start} \subseteq Frames(flash) \ {op.start}
        /\ \A f \in Frames(fl) \ {op.start} : fl[f] = flash[f]
        /\ op.start \in Frames(fl) =>
             \/ op.start \in Frames(flash) /\ fl[op.start] = flash[op.start]
             \/ fl[op.start].seq = op.seq /\ fl[op.start].len = op.len
    BY <1>1, <2>1, FilledFrames
  <2>3. op.start \in Frames(flash) => flash[op.start].seq = op.seq
    BY <1>3 DEF OrderInv, RingInv, AppendInOrder
  <2> QED
    BY <1>3, <2>2, <2>3 DEF Settled
<1> QED
  BY <1>2, <1>3 DEF Appending

LEMMA StoppedAges ==
  ASSUME NEW n \in Nat \ {0}, OrderInv, Aged(n), op.at # "off",
         NEW fl, fl = flash \/ Torn(fl), NEW a \in Frames(fl)
  PROVE  /\ Diff(nextSeq, fl[a].seq) \in Nat
         /\ n * Diff(nextSeq, fl[a].seq) \in Nat
         /\ n * Diff(nextSeq, fl[a].seq) <= Full(n) + n
<1>1. /\ Inv /\ flash \in [Addrs -> Cell] /\ fl \in [Addrs -> Cell]
      /\ nextSeq \in Seqs /\ index.write \in Addrs /\ op.start \in Addrs /\ op.seq \in Seqs
      /\ Full(n) \in Nat /\ Room(n) \in Int /\ Room(n) <= Full(n)
  BY OrderTypes, TornType, RoomType DEF Inv, StorageType
<1> DEFINE d == Diff(nextSeq, fl[a].seq)
           x == n * d
<1>2. CASE op.at \in {"idle", "wipe"}
  <2>1. Worn(flash, fl)
    BY <1>1, <1>2, TornChange DEF Worn
  <2>2. a \in Frames(flash) /\ fl[a] = flash[a] /\ a \in Addrs
    BY <1>1, <2>1, WornFrames, FramesFinite
  <2>3. x + Ahead(a, index.write) <= Room(n)
    BY <1>2, <2>2 DEF Aged
  <2>4. d \in Nat
    <3>1. d \in 1 .. Half
      BY <1>2, <2>2 DEF OrderInv, RingInv, InOrder, Ordered
    <3> QED
      BY <3>1, HalfBound
  <2>5. x \in Nat
    BY <2>4
  <2>6. Ahead(a, index.write) \in Nat
    BY <1>1, <2>2, AheadType
  <2>7. x <= Full(n) + n
    <3> HIDE DEF x
    <3> QED
      BY <1>1, <2>3, <2>5, <2>6
  <2> QED
    BY <2>4, <2>5, <2>7
<1>3. CASE Appending
  <2>1. CASE a \in Settled /\ fl[a].seq = flash[a].seq
    <3> DEFINE y == n * (d - 1)
    <3>1. a \in Frames(flash) /\ a \in Addrs
      BY <2>1, FramesFinite DEF Settled
    <3>2. y + Ahead(a, op.start) <= Room(n)
      BY <1>3, <2>1 DEF Aged
    <3>3. d \in Nat
      <4>1. d \in 1 .. Half
        BY <1>3, <2>1 DEF OrderInv, RingInv, AppendInOrder, Ordered
      <4> QED
        BY <4>1, HalfBound
    <3> HIDE DEF d
    <3>4. x \in Nat /\ y \in Int /\ x = y + n
      BY <3>3, OneOlder
    <3>5. Ahead(a, op.start) \in Nat
      BY <1>1, <3>1, AheadType
    <3>6. x <= Full(n) + n
      <4> HIDE DEF x, y
      <4> QED
        BY <1>1, <3>2, <3>4, <3>5
    <3> QED
      BY <3>3, <3>4, <3>6 DEF d
  <2>2. CASE a = op.start /\ fl[a].seq = op.seq
    <3>1. nextSeq = (op.seq + 1) % SeqCount
      BY <1>3 DEF OrderInv, RingInv, AppendInOrder
    <3>2. Diff(op.seq, op.seq) = 0
      BY <1>1, DiffType
    <3>3. Diff((op.seq + 1) % SeqCount, op.seq) = 1
      BY <1>1, <3>2, DiffNext, HalfBound
    <3>4. d = 1
      BY <2>2, <3>1, <3>3
    <3> HIDE DEF d
    <3>5. x = n
      BY <3>4
    <3> QED
      BY <1>1, <3>4, <3>5 DEF d
  <2> QED
    BY <1>3, <2>1, <2>2, StoppedFrames
<1> QED
  BY <1>1, <1>2, <1>3 DEF Appending, Inv, StorageType

LEMMA FailedAged ==
  ASSUME NEW n \in Nat \ {0}, OrderInv, OrderInv', Aged(n), AppendFails,
         Room(n)' = Full(n) + AreaSize + n
  PROVE  Aged(n)'
<1>1. /\ op.at # "off" /\ (flash' = flash \/ Torn(flash')) /\ nextSeq' = nextSeq /\ op'.at = "idle"
  BY DEF AppendFails, Nothing
<1>2. index'.write \in Addrs /\ AreaSize \in Nat /\ Full(n) \in Nat
  BY OrderTypes, RoomType DEF OrderInv, CleanRingInv, IndexInv, Inv, StorageType, Index
<1>3. ASSUME NEW a \in Frames(flash')
      PROVE  n * Diff(nextSeq, flash'[a].seq) + Ahead(a, index'.write) <= Room(n)'
  <2> DEFINE x == n * Diff(nextSeq, flash'[a].seq)
  <2>1. x \in Nat /\ x <= Full(n) + n
    BY <1>1, StoppedAges
  <2>2. Ahead(a, index'.write) \in 0 .. AreaSize - 1
    BY <1>2, AheadType, FramesFinite
  <2> HIDE DEF x
  <2>3. x + Ahead(a, index'.write) <= Room(n)'
    BY <1>2, <2>1, <2>2
  <2> QED
    BY <2>3 DEF x
<1> QED
  BY <1>1, <1>3 DEF Aged, Appending

LEMMA PowerLossAged ==
  ASSUME NEW n \in Nat \ {0}, OrderInv, Aged(n), PowerLoss, Full(n)' = Full(n) + AreaSize + n
  PROVE  Aged(n)'
<1>1. /\ op.at # "off" /\ (flash' = flash \/ Torn(flash')) /\ op'.at = "off"
  BY DEF PowerLoss, Off, Nothing
<1>2. AreaSize \in Nat /\ Full(n) \in Nat /\ nextSeq \in Seqs
  BY OrderTypes, RoomType
<1>3. PICK p \in Addrs : InOrder(flash', p, nextSeq)
  BY <1>1, StoppedInOrder DEF OrderInv, CleanRingInv
<1>4. ASSUME NEW a \in Frames(flash')
      PROVE  n * Diff(nextSeq, flash'[a].seq) <= Full(n)' - AreaSize
  <2> DEFINE x == n * Diff(nextSeq, flash'[a].seq)
  <2>1. x \in Nat /\ x <= Full(n) + n
    BY <1>1, StoppedAges
  <2> HIDE DEF x
  <2>2. x <= Full(n)' - AreaSize
    BY <1>2, <2>1
  <2> QED
    BY <2>2 DEF x
<1> QED
  BY <1>1, <1>2, <1>3, <1>4 DEF Aged, Appending

LEMMA BootAged ==
  ASSUME NEW n \in Nat \ {0}, OrderInv, OrderInv', Aged(n), Boot, Room(n)' = Full(n)
  PROVE  Aged(n)'
<1>1. /\ op.at = "off" /\ op'.at = "idle" /\ flash' = flash /\ Rebuilt(flash, index')
      /\ nextSeq' = IF index'.count > 0 THEN (index'.newestSeq + 1) % SeqCount ELSE 0
  BY DEF Boot, Nothing
<1>2. /\ flash \in [Addrs -> Cell] /\ AreaSize \in Nat /\ Full(n) \in Nat /\ index'.write \in Addrs
      /\ Frames(flash) \in SUBSET Addrs
  BY OrderTypes, RoomType, FramesFinite DEF OrderInv, CleanRingInv, IndexInv, Inv, StorageType, Index
<1>3. PICK p \in Addrs, c \in Seqs :
        /\ Ordered(flash, Frames(flash), p, c)
        /\ \A a \in Frames(flash) : n * Diff(c, flash[a].seq) <= Full(n) - AreaSize
  BY <1>1 DEF Aged, InOrder
<1>4. ASSUME NEW a \in Frames(flash)
      PROVE  n * Diff(nextSeq', flash[a].seq) + Ahead(a, index'.write) <= Room(n)'
  <2>1. PICK w \in Frames(flash) : /\ IsNewest(flash, w) /\ index'.newestSeq = flash[w].seq
                                   /\ index'.count = Cardinality(Frames(flash))
    BY <1>1 DEF Rebuilt
  <2>2. index'.count > 0
    <3>1. Cardinality(Frames(flash)) \in Nat /\ Cardinality(Frames(flash)) # 0
      BY FramesFinite, FS_EmptySet
    <3> QED
      BY <2>1, <3>1
  <2>3. nextSeq' = (flash[w].seq + 1) % SeqCount
    BY <1>1, <2>1, <2>2
  <2>4. \A b \in Frames(flash) : Diff(c, flash[w].seq) <= Diff(c, flash[b].seq)
    BY <1>2, <1>3, <2>1, NewestIsNearest
  <2>5. /\ Diff(nextSeq', flash[a].seq) <= Diff(c, flash[a].seq)
        /\ Ordered(flash, Frames(flash), p, nextSeq')
    BY <1>2, <1>3, <2>3, <2>4, OrderedRestart
  <2> DEFINE d == Diff(nextSeq', flash[a].seq)
             e == Diff(c, flash[a].seq)
  <2>6. d \in Nat /\ e \in Nat /\ d <= e
    <3>1. d \in 1 .. Half /\ e \in 1 .. Half
      BY <1>3, <2>5 DEF Ordered
    <3> QED
      BY <2>5, <3>1, HalfBound
  <2>7. n * e <= Full(n) - AreaSize
    BY <1>3
  <2> HIDE DEF d, e
  <2>8. n * d <= n * e /\ n * d \in Nat /\ n * e \in Nat
    BY <2>6
  <2> DEFINE x == n * d
             y == n * e
  <2>9. x <= y /\ x \in Nat /\ y \in Nat /\ y <= Full(n) - AreaSize
    BY <2>7, <2>8
  <2>10. Ahead(a, index'.write) \in 0 .. AreaSize - 1
    BY <1>2, AheadType
  <2> HIDE DEF x, y
  <2>11. x + Ahead(a, index'.write) <= Room(n)'
    BY <1>2, <2>9, <2>10
  <2> QED
    BY <2>11 DEF x, d
<1> QED
  BY <1>1, <1>4 DEF Aged, Appending

LEMMA WipeAged ==
  ASSUME NEW n \in Nat \ {0}, OrderInv, Aged(n), StartWipe \/ WipeSector \/ WipeFails,
         Room(n)' \in Int, Room(n) <= Room(n)'
  PROVE  Aged(n)'
<1>1. /\ op.at \in {"idle", "wipe"} /\ op'.at \in {"idle", "wipe"}
      /\ index' = index /\ nextSeq' = nextSeq
  BY OrderTypes DEF StartWipe, WipeSector, WipeFails, Nothing, Inv, StorageType
<1>2. Inv /\ flash \in [Addrs -> Cell] /\ flash' \in [Addrs -> Cell] /\ index.write \in Addrs
      /\ Room(n) \in Int
  <2>1. [StorageStep]_StorageVars
    BY DEF StorageStep
  <2> QED
    BY <2>1, OrderTypes, RoomType, StepInv DEF Inv, StorageType
<1>3. Worn(flash, flash')
  <2>1. CASE StartWipe
    BY <2>1 DEF StartWipe, Worn
  <2>2. CASE WipeSector
    BY <2>2 DEF WipeSector, Worn, Erased
  <2>3. CASE WipeFails
    BY <1>2, <2>3, TornChange DEF WipeFails
  <2> QED
    BY <2>1, <2>2, <2>3
<1>4. Frames(flash') \subseteq Frames(flash) /\ \A f \in Frames(flash') : flash'[f] = flash[f]
  BY <1>2, <1>3, WornFrames
<1>5. ASSUME NEW a \in Frames(flash)
      PROVE  n * Diff(nextSeq, flash[a].seq) + Ahead(a, index.write) <= Room(n)'
  <2> DEFINE x == n * Diff(nextSeq, flash[a].seq)
  <2>1. x + Ahead(a, index.write) <= Room(n)
    BY <1>1 DEF Aged
  <2>2. x \in Nat /\ Ahead(a, index.write) \in Nat
    <3>1. Diff(nextSeq, flash[a].seq) \in 1 .. Half
      BY <1>1 DEF OrderInv, RingInv, InOrder, Ordered
    <3>2. Diff(nextSeq, flash[a].seq) \in Nat
      BY <3>1, HalfBound
    <3> QED
      BY <1>2, <3>2, AheadType, FramesFinite
  <2> HIDE DEF x
  <2>3. x + Ahead(a, index.write) <= Room(n)'
    BY <1>2, <2>1, <2>2
  <2> QED
    BY <2>3 DEF x
<1>6. ASSUME NEW a \in Frames(flash')
      PROVE  n * Diff(nextSeq', flash'[a].seq) + Ahead(a, index'.write) <= Room(n)'
  BY <1>1, <1>4, <1>5
<1> QED
  BY <1>1, <1>6 DEF Aged, Appending

LEMMA FinishWipeAged ==
  ASSUME NEW n, OrderInv, FinishWipe
  PROVE  Aged(n)'
<1>1. op.at = "wipe" /\ op.addr = AreaSize /\ flash' = flash /\ op'.at = "idle"
  BY DEF FinishWipe, EndWipe, Nothing
<1>2. \A a \in Addrs : flash[a] = Erased
  BY <1>1, AreaPositive DEF OrderInv, CleanRingInv, IndexInv, WipeProgress, Addrs
<1>3. Frames(flash') = {}
  BY <1>1, <1>2 DEF Frames, ValidAt, Erased
<1> QED
  BY <1>1, <1>3 DEF Aged, Appending

LEMMA StepAged ==
  ASSUME NEW n \in Nat \ {0}, NEW f \in Nat, NumbersOutlast(n, f), faults <= f,
         OrderInv, OrderInv', FirstOfSector, Aged(n), [Next]_vars
  PROVE  Aged(n)'
<1>0. /\ faults \in Nat /\ faults' \in Nat /\ AreaSize \in Nat
      /\ Full(n) \in Nat /\ AreaSize <= Full(n) /\ Room(n) \in Int /\ Room(n) <= Full(n)
      /\ \A m \in Lens : n <= m
  <2>1. faults' \in Nat
    BY DEF OrderInv, CleanRingInv, IndexInv, Inv, StorageType
  <2> QED
    BY <2>1, OrderTypes, RoomType DEF NumbersOutlast
<1>1. /\ faults' = faults => Full(n)' = Full(n)
      /\ faults' = faults + 1 => Full(n)' = Full(n) + AreaSize + n
      /\ Room(n)' = IF Following' THEN Full(n)' ELSE Full(n)' - (AreaSize + n)
  <2>1. Full(n)' = FullAt(n, faults') /\ Full(n) = FullAt(n, faults)
    BY DEF Full
  <2>2. Room(n)' = IF Following' THEN Full(n)' ELSE Full(n)' - (AreaSize + n)
    BY DEF Room
  <2> QED
    BY <1>0, <2>1, <2>2, FullType
<1>2. faults' = faults \/ faults' = faults + 1
  BY DEF Next, vars, Boot, StartAppend, BeginAppend, EraseSector, ProgramPage, Verify, StartWipe,
         WipeSector, FinishWipe, EndWipe, AppendFails, WipeFails, PowerLoss, Fault
<1>3. Room(n)' \in Int
  <2>1. Full(n)' \in Int
    BY <1>0, <1>1, <1>2
  <2> QED
    BY <1>0, <1>1, <2>1
<1>4. CASE UNCHANGED vars
  <2>1. flash' = flash /\ index' = index /\ op' = op /\ nextSeq' = nextSeq /\ faults' = faults
    BY <1>4 DEF vars
  <2>2. Following' = Following /\ Settled' = Settled /\ (Appending' <=> Appending)
    BY <2>1 DEF Following, Settled, Appending
  <2> QED
    BY <2>1, <2>2 DEF Aged, Room, Full
<1>5. CASE \E m \in Lens : StartAppend(m)
  <2>1. ~PowerLoss /\ ~Boot
    BY <1>5 DEF StartAppend, BeginAppend, PowerLoss, Boot, Off, Nothing
  <2> QED
    BY <1>3, <1>5, <2>1, RoomKept, StartAppendAged
<1>6. CASE EraseSector \/ ProgramPage
  <2>1. ~PowerLoss /\ ~Boot
    BY <1>6, WorkingFrames DEF PowerLoss, Boot, Off, Nothing
  <2> QED
    BY <1>3, <1>6, <2>1, RoomKept, WorkAged
<1>7. CASE Verify
  <2>1. ~PowerLoss /\ ~Boot /\ faults' = faults
    BY <1>7 DEF Verify, PowerLoss, Boot, Off, Nothing
  <2>2. Room(n) <= Room(n)'
    BY <2>1, RoomKept
  <2>3. Following'
    BY <1>7, RestartFollows
  <2>4. Room(n)' = Full(n)
    BY <1>1, <2>1, <2>3
  <2>5. CASE ValidAt(flash, op.start)
    BY <1>0, <1>3, <1>7, <2>2, <2>4, <2>5, StoredAged
  <2>6. CASE ~ValidAt(flash, op.start)
    <3>1. ~Following => Room(n) + AreaSize + n <= Room(n)'
      BY <1>0, <2>4 DEF Room
    <3> QED
      BY <1>0, <1>3, <1>7, <2>2, <2>6, <3>1, NotStoredAged
  <2> QED
    BY <2>5, <2>6
<1>8. CASE StartWipe \/ WipeSector \/ WipeFails
  <2>1. ~PowerLoss /\ ~Boot
    <3>1. op'.at \in {"idle", "wipe"} /\ op.at \in {"idle", "wipe"}
      BY <1>8, OrderTypes DEF StartWipe, WipeSector, WipeFails, Nothing, Inv, StorageType
    <3> QED
      BY <3>1 DEF PowerLoss, Boot, Off, Nothing
  <2> QED
    BY <1>3, <1>8, <2>1, RoomKept, WipeAged
<1>9. CASE AppendFails
  <2>1. Following' /\ faults' = faults + 1
    BY <1>9, RestartFollows DEF AppendFails, Fault
  <2>2. Room(n)' = Full(n) + AreaSize + n
    BY <1>1, <2>1
  <2> QED
    BY <1>9, <2>2, FailedAged
<1>10. CASE PowerLoss
  <2>1. faults' = faults + 1
    BY <1>10 DEF PowerLoss, Fault
  <2> QED
    BY <1>1, <1>10, <2>1, PowerLossAged
<1>11. CASE Boot
  <2>1. Following' /\ faults' = faults
    BY <1>11, RestartFollows DEF Boot
  <2>2. Room(n)' = Full(n)
    BY <1>1, <2>1
  <2> QED
    BY <1>11, <2>2, BootAged
<1> QED
  BY <1>4, <1>5, <1>6, <1>7, <1>8, <1>9, <1>10, <1>11, FinishWipeAged DEF Next

(* Up to f faults everything stays so, if no frame ends with its sector    *)
(* once something has failed.                                              *)
LEMMA StepAgedInv ==
  ASSUME NEW n \in Nat \ {0}, NEW f \in Nat, NumbersOutlast(n, f), AgedInv(n, f), [Next]_vars,
         faults' <= f => SectorsNotFilled'
  PROVE  AgedInv(n, f)'
<1>1. CleanRingInv'
  BY NextIsStorageStep, NextSeqType, StepIndexInv, StepCleanInv DEF AgedInv, CleanRingInv, IndexInv
<1>2. SUFFICES ASSUME faults' <= f
               PROVE  RingInv' /\ HealInv' /\ Aged(n)'
  BY <1>1 DEF AgedInv
<1>3. faults <= f
  <2>1. faults \in Nat
    BY DEF AgedInv, CleanRingInv, IndexInv, Inv, StorageType
  <2>2. faults' = faults \/ faults' = faults + 1
    BY DEF Next, vars, Boot, StartAppend, BeginAppend, EraseSector, ProgramPage, Verify, StartWipe,
           WipeSector, FinishWipe, EndWipe, AppendFails, WipeFails, PowerLoss, Fault
  <2> QED
    BY <1>2, <2>1, <2>2
<1>4. OrderInv /\ HealInv /\ FirstOfSector /\ Aged(n)
  BY <1>3 DEF AgedInv, OrderInv, HealInv
<1>5. (\E m \in Lens : StartAppend(m)) => NextSeqIsFresh'
  BY <1>3, <1>4, AppendKeepsFresh
<1>6. OrderInv'
  BY <1>2, <1>4, <1>5, StepOrderInv
<1> QED
  BY <1>3, <1>4, <1>6, StepHeal, StepAged DEF OrderInv

LEMMA InitAgedInv ==
  ASSUME NEW n, NEW f
  PROVE  Init => AgedInv(n, f)
<1>1. Init => HealInv
  BY DEF Init, Off, Nothing, HealInv, FirstOfSector, Following
<1>2. Init => Aged(n)
  <2> SUFFICES ASSUME Init
               PROVE  Aged(n)
    OBVIOUS
  <2>1. op.at = "off" /\ Frames(flash) = {}
    BY DEF Init, Off, Nothing, Frames, ValidAt, Erased
  <2>2. 0 \in Addrs /\ 0 \in Seqs
    BY AreaPositive, HalfBound DEF Addrs, Seqs
  <2>3. InOrder(flash, 0, 0)
    BY <2>1 DEF InOrder, Ordered, Apart, EndBefore
  <2> QED
    BY <2>1, <2>2, <2>3 DEF Aged, Appending
<1> QED
  BY <1>1, <1>2, InitOrderInv DEF AgedInv, OrderInv

-----------------------------------------------------------------------------
(* What holds in every run.                                                *)

LEMMA FaultsBounded == Spec => [](faults <= MaxFaults)
<1>1. Init => faults <= MaxFaults
  BY FlashAssumption DEF Init
<1>2. TypeOK /\ faults <= MaxFaults /\ [Next]_vars => (faults <= MaxFaults)'
  <2> SUFFICES ASSUME TypeOK, faults <= MaxFaults, [Next]_vars
               PROVE  faults' <= MaxFaults
    OBVIOUS
  <2>1. faults \in Nat /\ MaxFaults \in Nat
    BY FlashAssumption DEF TypeOK
  <2>2. faults' = faults \/ (faults' = faults + 1 /\ faults < MaxFaults)
    BY DEF Next, vars, Boot, StartAppend, BeginAppend, EraseSector, ProgramPage, Verify, StartWipe,
           WipeSector, FinishWipe, EndWipe, AppendFails, WipeFails, PowerLoss, Fault
  <2> QED
    BY <2>1, <2>2
<1> QED
  BY <1>1, <1>2, TypeCorrect, PTL DEF Spec

(* Whatever fails, if there are numbers enough for all the faults there    *)
(* can be.                                                                 *)
LEMMA OrderHolds ==
  ASSUME NEW n \in Nat \ {0}, NumbersOutlast(n, MaxFaults)
  PROVE  Spec /\ []SectorsNotFilled => [](OrderInv /\ HealInv)
<1> DEFINE I == AgedInv(n, MaxFaults)
<1>1. Init => I
  BY InitAgedInv
<1>2. I /\ [Next]_vars /\ SectorsNotFilled' => I'
  BY StepAgedInv, FlashAssumption
<1>3. I /\ faults <= MaxFaults => OrderInv /\ HealInv
  BY DEF AgedInv, OrderInv
<1> HIDE DEF I
<1> QED
  BY <1>1, <1>2, <1>3, FaultsBounded, PTL DEF Spec

(* Until something fails, whatever the frames.                             *)
LEMMA OrderHoldsWithoutFaults ==
  ASSUME NEW n \in Nat \ {0}, NumbersOutlast(n, 0)
  PROVE  Spec => [](faults = 0 => OrderInv)
<1> DEFINE I == AgedInv(n, 0)
<1>1. Init => I
  BY InitAgedInv
<1>2. I /\ [Next]_vars /\ TypeOK' => I'
  <2> SUFFICES ASSUME I, [Next]_vars, TypeOK'
               PROVE  I'
    OBVIOUS
  <2>1. faults' \in Nat
    BY DEF TypeOK
  <2>2. faults' <= 0 => SectorsNotFilled'
    BY <2>1 DEF SectorsNotFilled
  <2> QED
    BY <2>2, StepAgedInv
<1>3. I => (faults = 0 => OrderInv)
  BY DEF AgedInv, OrderInv
<1> HIDE DEF I
<1> QED
  BY <1>1, <1>2, <1>3, TypeCorrect, PTL DEF Spec

(* The next number is newer than every stored one, whatever fails and      *)
(* whenever power goes, as long as the numbers outlast the log and, once   *)
(* something has failed, no frame ends with its sector.                    *)
THEOREM NumbersStayFresh ==
  ASSUME NEW n \in Nat \ {0}, NumbersOutlast(n, MaxFaults)
  PROVE  Spec /\ []SectorsNotFilled => []NextSeqIsFresh
BY OrderHolds, OrderIsFresh, PTL

(* Until something fails it is so whatever the frames.                     *)
THEOREM NumbersFreshWithoutFaults ==
  ASSUME NEW n \in Nat \ {0}, NumbersOutlast(n, 0)
  PROVE  Spec => [](faults = 0 => NextSeqIsFresh)
<1>1. (faults = 0 => OrderInv) => (faults = 0 => NextSeqIsFresh)
  BY OrderIsFresh
<1> QED
  BY <1>1, OrderHoldsWithoutFaults, PTL

-----------------------------------------------------------------------------
(* What the order means for the index.                                     *)

(* The numbers decide as the places do.                                    *)
LEMMA AgeIsPlace ==
  ASSUME OrderInv, op.at = "idle", NEW a \in Frames(flash), NEW b \in Frames(flash)
  PROVE  /\ Newer(flash[a].seq, flash[b].seq) <=> Diff(nextSeq, flash[a].seq) < Diff(nextSeq, flash[b].seq)
         /\ Ahead(a, index.write) <= Ahead(b, index.write)
              <=> Diff(nextSeq, flash[b].seq) <= Diff(nextSeq, flash[a].seq)
         /\ flash[a].seq = flash[b].seq => a = b
         /\ Diff(nextSeq, flash[a].seq) \in Nat
<1>1. /\ InOrder(flash, index.write, nextSeq)
      /\ flash \in [Addrs -> Cell] /\ index.write \in Addrs /\ nextSeq \in Seqs
      /\ Frames(flash) \in SUBSET Addrs
  BY FramesFinite DEF OrderInv, RingInv, CleanRingInv, IndexInv, Inv, StorageType, Index
<1>2. Ordered(flash, Frames(flash), index.write, nextSeq)
  BY <1>1 DEF InOrder
<1>3. flash[a].seq \in Seqs /\ flash[b].seq \in Seqs
  BY <1>1, CellFields
<1>4. Diff(nextSeq, flash[a].seq) \in 1 .. Half /\ Diff(nextSeq, flash[b].seq) \in 1 .. Half
  BY <1>2 DEF Ordered
<1>5. Newer(flash[a].seq, flash[b].seq) <=> Diff(nextSeq, flash[a].seq) < Diff(nextSeq, flash[b].seq)
  BY <1>1, <1>3, <1>4, NewerIsNearer
<1>6. /\ Ahead(a, index.write) <= Ahead(b, index.write)
           <=> Diff(nextSeq, flash[b].seq) <= Diff(nextSeq, flash[a].seq)
      /\ flash[a].seq = flash[b].seq => a = b
  <2> DEFINE F == Frames(flash)
             p == index.write
  <2>1. /\ F \in SUBSET Addrs /\ flash \in [Addrs -> Cell] /\ p \in Addrs /\ nextSeq \in Seqs
        /\ Ordered(flash, F, p, nextSeq) /\ a \in F /\ b \in F
    BY <1>1, <1>2
  <2> HIDE DEF F, p
  <2>2. /\ Ahead(a, p) < Ahead(b, p) <=> Diff(nextSeq, flash[b].seq) < Diff(nextSeq, flash[a].seq)
        /\ Ahead(a, p) <= Ahead(b, p) <=> Diff(nextSeq, flash[b].seq) <= Diff(nextSeq, flash[a].seq)
        /\ a = b <=> flash[a].seq = flash[b].seq
    BY <2>1, OrderedIff
  <2> QED
    BY <2>2 DEF p
<1>7. Diff(nextSeq, flash[a].seq) \in Nat
  BY <1>4, HalfBound
<1> QED
  BY <1>5, <1>6, <1>7, Zenon

LEMMA OrderMatchesIndex == OrderInv => IndexMatchesFlash
<1> SUFFICES ASSUME OrderInv, op.at = "idle", ~busy
             PROVE  /\ index.count = Cardinality(Frames(flash))
                    /\ index.count > 0 => /\ index.oldest \in Frames(flash)
                                          /\ index.newest \in Frames(flash)
                                          /\ IsOldest(flash, index.oldest)
                                          /\ IsNewest(flash, index.newest)
                                          /\ index.newestSeq = flash[index.newest].seq
  BY DEF IndexMatchesFlash
<1>1. /\ index.count = Cardinality(Frames(flash))
      /\ index.count > 0 => index.oldest \in Frames(flash) /\ index.newest \in Frames(flash)
  BY DEF OrderInv, CleanRingInv, IndexInv, IndexTracks, Counts
<1>2. SUFFICES ASSUME index.count > 0
               PROVE  /\ IsOldest(flash, index.oldest) /\ IsNewest(flash, index.newest)
                      /\ index.newestSeq = flash[index.newest].seq
  BY <1>1
<1>3. /\ InOrder(flash, index.write, nextSeq) /\ EndsNamed(flash, index, nextSeq)
      /\ flash \in [Addrs -> Cell] /\ index.write \in Addrs /\ nextSeq \in Seqs
      /\ Frames(flash) \subseteq Addrs
  BY FramesFinite DEF OrderInv, RingInv, CleanRingInv, IndexInv, Inv, StorageType, Index
<1> DEFINE o == index.oldest
           w == index.newest
<1>4. /\ o \in Frames(flash) /\ w \in Frames(flash) /\ index.newestSeq = flash[w].seq
      /\ \A a \in Frames(flash) : Ahead(o, index.write) <= Ahead(a, index.write)
      /\ \A a \in Frames(flash) : Diff(nextSeq, flash[w].seq) <= Diff(nextSeq, flash[a].seq)
      /\ Ordered(flash, Frames(flash), index.write, nextSeq)
  BY <1>1, <1>2, <1>3 DEF EndsNamed, InOrder
<1> HIDE DEF o, w
<1>5. ASSUME NEW a \in Frames(flash), NEW b \in Frames(flash)
      PROVE  /\ Newer(flash[a].seq, flash[b].seq) <=> Diff(nextSeq, flash[a].seq) < Diff(nextSeq, flash[b].seq)
             /\ Ahead(a, index.write) <= Ahead(b, index.write)
                  <=> Diff(nextSeq, flash[b].seq) <= Diff(nextSeq, flash[a].seq)
             /\ flash[a].seq = flash[b].seq => a = b
             /\ Diff(nextSeq, flash[a].seq) \in Nat
  BY AgeIsPlace
<1>6. ASSUME NEW a \in Frames(flash)
      PROVE  /\ ~Newer(flash[o].seq, flash[a].seq)
             /\ flash[a].seq = flash[o].seq => a = o
             /\ ~Newer(flash[a].seq, flash[w].seq)
             /\ flash[a].seq = flash[w].seq => a = w
  <2>1. Diff(nextSeq, flash[a].seq) <= Diff(nextSeq, flash[o].seq)
    BY <1>4, <1>5
  <2>2. ~(Diff(nextSeq, flash[o].seq) < Diff(nextSeq, flash[a].seq))
    BY <1>4, <1>5, <2>1
  <2>3. ~(Diff(nextSeq, flash[a].seq) < Diff(nextSeq, flash[w].seq))
    <3>1. /\ Diff(nextSeq, flash[w].seq) <= Diff(nextSeq, flash[a].seq)
          /\ Diff(nextSeq, flash[w].seq) \in Nat /\ Diff(nextSeq, flash[a].seq) \in Nat
      BY <1>4, <1>5
    <3> QED
      BY <3>1
  <2>4. ~Newer(flash[o].seq, flash[a].seq)
    BY <1>4, <1>5, <2>2
  <2>5. ~Newer(flash[a].seq, flash[w].seq)
    BY <1>4, <1>5, <2>3
  <2>6. (flash[a].seq = flash[o].seq => a = o) /\ (flash[a].seq = flash[w].seq => a = w)
    BY <1>4, <1>5
  <2> QED
    BY <2>4, <2>5, <2>6
<1>7. o \in Nat /\ w \in Nat
  BY <1>3, <1>4, AreaPositive DEF Addrs
<1>8. IsOldest(flash, o) /\ IsNewest(flash, w)
  BY <1>6, <1>7 DEF IsOldest, IsNewest
<1> QED
  BY <1>4, <1>8 DEF o, w

(* The index names the true oldest and newest frame and counts them all,   *)
(* whatever fails and whenever power goes, as long as the numbers outlast  *)
(* the log and, once something has failed, no frame ends with its sector.  *)
THEOREM IndexTrue ==
  ASSUME NEW n \in Nat \ {0}, NumbersOutlast(n, MaxFaults)
  PROVE  Spec /\ []SectorsNotFilled => []IndexMatchesFlash
BY OrderHolds, OrderMatchesIndex, PTL

(* Until something fails it does so whatever the frames.                   *)
THEOREM IndexTrueWithoutFaults ==
  ASSUME NEW n \in Nat \ {0}, NumbersOutlast(n, 0)
  PROVE  Spec => [](faults = 0 => IndexMatchesFlash)
<1>1. (faults = 0 => OrderInv) => (faults = 0 => IndexMatchesFlash)
  BY OrderMatchesIndex
<1> QED
  BY <1>1, OrderHoldsWithoutFaults, PTL

-----------------------------------------------------------------------------
(* What the order means for a dump.                                        *)

(* The elements of S that come before a in the order of key.               *)
Below(S, key, a) == {b \in S : key[b] < key[a]}

Rank(S, key, a) == Cardinality(Below(S, key, a))

(* In a finite set without ties each place in the order is taken once.     *)
LEMMA RanksAreOneToOne ==
  ASSUME NEW S, IsFiniteSet(S), NEW key \in [S -> Int],
         \A a, b \in S : key[a] = key[b] => a = b
  PROVE  /\ \A a \in S : Rank(S, key, a) \in 0 .. Cardinality(S) - 1
         /\ \A a, b \in S : Rank(S, key, a) = Rank(S, key, b) => a = b
         /\ \A i \in 0 .. Cardinality(S) - 1 : \E a \in S : Rank(S, key, a) = i
<1>1. Cardinality(S) \in Nat
  BY FS_CardinalityType
<1>2. ASSUME NEW a \in S
      PROVE  /\ IsFiniteSet(Below(S, key, a)) /\ Rank(S, key, a) \in Nat
             /\ Rank(S, key, a) <= Cardinality(S) - 1
  <2>1. Below(S, key, a) \in SUBSET (S \ {a})
    <3>1. key[a] \in Int
      OBVIOUS
    <3> QED
      BY <3>1 DEF Below
  <2>2. IsFiniteSet(S \ {a}) /\ Cardinality(S \ {a}) = Cardinality(S) - 1
    BY FS_RemoveElement
  <2>3. IsFiniteSet(Below(S, key, a)) /\ Cardinality(Below(S, key, a)) <= Cardinality(S \ {a})
    BY <2>1, <2>2, FS_Subset
  <2>4. Cardinality(Below(S, key, a)) \in Nat
    BY <2>3, FS_CardinalityType
  <2> QED
    BY <2>2, <2>3, <2>4 DEF Rank
<1>3. ASSUME NEW a \in S, NEW b \in S, key[a] < key[b]
      PROVE  Rank(S, key, a) # Rank(S, key, b)
  <2>1. key[a] \in Int /\ key[b] \in Int /\ \A x \in S : key[x] \in Int
    OBVIOUS
  <2>2. Below(S, key, a) \in SUBSET Below(S, key, b)
    BY <1>3, <2>1 DEF Below
  <2>3. a \in Below(S, key, b) /\ a \notin Below(S, key, a)
    BY <1>3, <2>1 DEF Below
  <2>4. Cardinality(Below(S, key, b)) = Cardinality(Below(S, key, a)) => Below(S, key, b) = Below(S, key, a)
    BY <1>2, <2>2, FS_Subset
  <2> QED
    BY <2>3, <2>4 DEF Rank
<1>4. ASSUME NEW a \in S, NEW b \in S, Rank(S, key, a) = Rank(S, key, b)
      PROVE  a = b
  <2>1. key[a] \in Int /\ key[b] \in Int
    OBVIOUS
  <2>2. ~(key[a] < key[b]) /\ ~(key[b] < key[a])
    BY <1>3, <1>4
  <2>3. key[a] = key[b]
    BY <2>1, <2>2
  <2> QED
    BY <2>3
<1> DEFINE T == 0 .. Cardinality(S) - 1
           f == [a \in S |-> Rank(S, key, a)]
<1>5. \A a \in S : Rank(S, key, a) \in T
  BY <1>1, <1>2
<1>6. f \in Injection(S, T)
  BY <1>4, <1>5 DEF Injection, IsInjective
<1>7. IsFiniteSet(T) /\ Cardinality(T) = Cardinality(S)
  <2>1. 0 \in Int /\ Cardinality(S) - 1 \in Int
    BY <1>1
  <2>2. IsFiniteSet(T) /\ Cardinality(T) = IF 0 > Cardinality(S) - 1 THEN 0 ELSE Cardinality(S) - 1 - 0 + 1
    BY <2>1, FS_Interval
  <2> QED
    BY <1>1, <2>2
<1>8. f \in Surjection(S, T)
  BY <1>6, <1>7, FS_Injection
<1>9. \A i \in T : \E a \in S : Rank(S, key, a) = i
  BY <1>8 DEF Surjection
<1> QED
  BY <1>4, <1>5, <1>9

(* A function on 1 .. n is a sequence of length n.                         *)
LEMMA FunctionIsSequence ==
  ASSUME NEW S, NEW n \in Nat, NEW f \in [1 .. n -> S]
  PROVE  f \in Seq(S) /\ Len(f) = n
<1>1. f \in Seq(S)
  BY SeqDef
<1>2. DOMAIN f = 1 .. n /\ DOMAIN f = 1 .. Len(f) /\ Len(f) \in Nat
  BY <1>1, LenProperties
<1> QED
  BY <1>1, <1>2

(* The same distance measured from an address further on.                  *)
LEMMA AheadShift ==
  ASSUME NEW a \in Addrs, NEW o \in Addrs, NEW p \in Addrs, Ahead(o, p) <= Ahead(a, p)
  PROVE  Ahead(a, o) = Ahead(a, p) - Ahead(o, p)
<1>1. a \in Nat /\ o \in Nat /\ p \in Nat /\ a < AreaSize /\ o < AreaSize /\ p < AreaSize /\ AreaSize \in Nat
  BY AreaPositive DEF Addrs
<1> QED
  BY <1>1 DEF Ahead

(* Going around from the oldest frame the frames are met by age, and the   *)
(* newest comes last.                                                      *)
LEMMA MetByAge ==
  ASSUME OrderInv, op.at = "idle", ~busy, index.count > 0
  PROVE  /\ \A a, b \in Frames(flash) :
              Ahead(b, index.oldest) < Ahead(a, index.oldest)
                <=> \/ Newer(flash[a].seq, flash[b].seq)
                    \/ flash[b].seq = flash[a].seq /\ b < a
         /\ \A a, b \in Frames(flash) : Ahead(a, index.oldest) = Ahead(b, index.oldest) => a = b
         /\ \A a \in Frames(flash) : /\ Ahead(a, index.oldest) \in Int
                                     /\ flash[a].seq = index.newestSeq <=> a = index.newest
                                     /\ a # index.newest => Ahead(a, index.oldest) < Ahead(index.newest, index.oldest)
         /\ index.newest \in Frames(flash)
<1> DEFINE o == index.oldest
           w == index.newest
           p == index.write
<1>1. /\ EndsNamed(flash, index, nextSeq)
      /\ flash \in [Addrs -> Cell] /\ p \in Addrs /\ nextSeq \in Seqs
      /\ Frames(flash) \subseteq Addrs
      /\ o \in Frames(flash) /\ w \in Frames(flash)
  BY FramesFinite DEF OrderInv, RingInv, CleanRingInv, IndexInv, Inv, StorageType, Index, IndexTracks, Counts
<1>2. /\ index.newestSeq = flash[w].seq
      /\ \A a \in Frames(flash) : Ahead(o, p) <= Ahead(a, p)
      /\ \A a \in Frames(flash) : Diff(nextSeq, flash[w].seq) <= Diff(nextSeq, flash[a].seq)
  BY <1>1 DEF EndsNamed
<1>3. \A a, b \in Frames(flash) :
        /\ Newer(flash[a].seq, flash[b].seq) <=> Diff(nextSeq, flash[a].seq) < Diff(nextSeq, flash[b].seq)
        /\ Ahead(a, p) <= Ahead(b, p) <=> Diff(nextSeq, flash[b].seq) <= Diff(nextSeq, flash[a].seq)
        /\ flash[a].seq = flash[b].seq => a = b
        /\ Diff(nextSeq, flash[a].seq) \in Nat
  BY AgeIsPlace
<1> HIDE DEF o, w, p
<1>4. ASSUME NEW a \in Frames(flash)
      PROVE  /\ Ahead(a, o) = Ahead(a, p) - Ahead(o, p)
             /\ Ahead(a, p) \in Int /\ Ahead(o, p) \in Int /\ Ahead(a, o) \in Int
             /\ a \in Nat
  <2>1. a \in Addrs /\ o \in Addrs /\ Ahead(o, p) <= Ahead(a, p) /\ p \in Addrs
    BY <1>1, <1>2
  <2>2. Ahead(a, p) \in Int /\ Ahead(o, p) \in Int /\ a \in Nat
    BY <2>1, AheadType, AreaPositive DEF Addrs
  <2>3. Ahead(a, o) = Ahead(a, p) - Ahead(o, p)
    BY <2>1, AheadShift
  <2> QED
    BY <2>2, <2>3
<1>5. ASSUME NEW a \in Frames(flash), NEW b \in Frames(flash)
      PROVE  /\ Ahead(b, o) < Ahead(a, o) <=> Newer(flash[a].seq, flash[b].seq)
             /\ Ahead(a, o) = Ahead(b, o) => a = b
             /\ ~(flash[b].seq = flash[a].seq /\ b < a)
  <2>1. /\ Ahead(a, p) <= Ahead(b, p) <=> Diff(nextSeq, flash[b].seq) <= Diff(nextSeq, flash[a].seq)
        /\ Diff(nextSeq, flash[a].seq) \in Nat /\ Diff(nextSeq, flash[b].seq) \in Nat
        /\ Newer(flash[a].seq, flash[b].seq) <=> Diff(nextSeq, flash[a].seq) < Diff(nextSeq, flash[b].seq)
        /\ flash[a].seq = flash[b].seq => a = b
    BY <1>3
  <2>2. /\ Ahead(a, o) = Ahead(a, p) - Ahead(o, p) /\ Ahead(b, o) = Ahead(b, p) - Ahead(o, p)
        /\ Ahead(a, p) \in Int /\ Ahead(b, p) \in Int /\ Ahead(o, p) \in Int /\ a \in Nat /\ b \in Nat
    BY <1>4
  <2>3. Ahead(b, o) < Ahead(a, o) <=> Newer(flash[a].seq, flash[b].seq)
    <3>1. Ahead(b, o) < Ahead(a, o) <=> Diff(nextSeq, flash[a].seq) < Diff(nextSeq, flash[b].seq)
      BY <2>1, <2>2
    <3> QED
      BY <2>1, <3>1, Zenon
  <2>4. Ahead(a, o) = Ahead(b, o) => a = b
    <3>1. Ahead(a, o) = Ahead(b, o) => Ahead(a, p) = Ahead(b, p)
      BY <2>2
    <3> QED
      BY <3>1, <1>1, AheadType
  <2>5. ~(flash[b].seq = flash[a].seq /\ b < a)
    BY <2>1, <2>2
  <2> QED
    BY <2>3, <2>4, <2>5, Zenon
<1>6. ASSUME NEW a \in Frames(flash)
      PROVE  /\ flash[a].seq = index.newestSeq <=> a = w
             /\ a # w => Ahead(a, o) < Ahead(w, o)
  <2>1. flash[a].seq = index.newestSeq <=> a = w
    BY <1>1, <1>2, <1>3
  <2>2. ASSUME a # w
        PROVE  Ahead(a, o) < Ahead(w, o)
    <3>1. Ahead(a, o) # Ahead(w, o) /\ (Ahead(w, o) < Ahead(a, o) <=> Newer(flash[a].seq, flash[w].seq))
      BY <1>1, <1>5, <2>2
    <3>2. ~Newer(flash[a].seq, flash[w].seq)
      <4>1. /\ Diff(nextSeq, flash[w].seq) <= Diff(nextSeq, flash[a].seq)
            /\ Diff(nextSeq, flash[w].seq) \in Nat /\ Diff(nextSeq, flash[a].seq) \in Nat
            /\ Newer(flash[a].seq, flash[w].seq) <=> Diff(nextSeq, flash[a].seq) < Diff(nextSeq, flash[w].seq)
        BY <1>1, <1>2, <1>3
      <4>2. ~(Diff(nextSeq, flash[a].seq) < Diff(nextSeq, flash[w].seq))
        BY <4>1
      <4> QED
        BY <4>1, <4>2, Zenon
    <3>3. Ahead(a, o) \in Int /\ Ahead(w, o) \in Int
      BY <1>1, <1>4
    <3> QED
      BY <3>1, <3>2, <3>3
  <2> QED
    BY <2>1, <2>2
<1>7. \A a, b \in Frames(flash) :
        Ahead(b, o) < Ahead(a, o) <=> \/ Newer(flash[a].seq, flash[b].seq)
                                      \/ flash[b].seq = flash[a].seq /\ b < a
  BY <1>5, Zenon
<1>8. \A a, b \in Frames(flash) : Ahead(a, o) = Ahead(b, o) => a = b
  BY <1>5
<1>9. \A a \in Frames(flash) : /\ Ahead(a, o) \in Int
                               /\ flash[a].seq = index.newestSeq <=> a = w
                               /\ a # w => Ahead(a, o) < Ahead(w, o)
  BY <1>4, <1>6
<1> QED
  BY <1>1, <1>7, <1>8, <1>9, Zenon DEF o, w

(* The walk from the oldest frame to the first with the newest number      *)
(* meets all frames, by age.                                               *)
LEMMA WalkIsByAge ==
  ASSUME OrderInv, op.at = "idle", ~busy
  PROVE  /\ Walk = ByAge
         /\ ByAge \in Seq(Addrs)
         /\ Len(ByAge) = index.count
<1> DEFINE F == Frames(flash)
           N == Cardinality(F)
           o == index.oldest
           around == [i \in 1 .. N |-> CHOOSE a \in F :
                        Cardinality({b \in F : Ahead(b, o) < Ahead(a, o)}) = i - 1]
           aged == [i \in 1 .. N |-> CHOOSE a \in F :
                      Cardinality({b \in F : \/ Newer(flash[a].seq, flash[b].seq)
                                             \/ flash[b].seq = flash[a].seq /\ b < a}) = i - 1]
           stops == {i \in DOMAIN around : flash[around[i]].seq = index.newestSeq}
           last == IF stops = {} THEN Len(around)
                   ELSE CHOOSE i \in stops : \A j \in stops : i <= j
<1>1. ByAge = aged
  BY DEF ByAge, Sorted
<1>2. Walk = IF index.count = 0 THEN <<>> ELSE SubSeq(around, 1, last)
  BY DEF Walk, Sorted
<1>3. /\ IsFiniteSet(F) /\ F \subseteq Addrs /\ N \in Nat /\ index.count = N
      /\ flash \in [Addrs -> Cell]
  <2>1. IsFiniteSet(F) /\ F \subseteq Addrs
    BY FramesFinite DEF OrderInv, CleanRingInv, IndexInv, Inv, StorageType
  <2>2. index.count = N /\ flash \in [Addrs -> Cell]
    BY DEF OrderInv, CleanRingInv, IndexInv, Inv, StorageType, IndexTracks, Counts
  <2> QED
    BY <2>1, <2>2, FS_CardinalityType
<1>4. CASE N = 0
  <2>1. aged \in [1 .. 0 -> Addrs]
    BY <1>4
  <2>2. aged \in Seq(Addrs) /\ Len(aged) = 0
    <3> HIDE DEF aged
    <3> QED
      BY <2>1, 0 \in Nat, FunctionIsSequence
  <2>3. aged = <<>>
    BY <2>2, EmptySeq
  <2> QED
    BY <1>1, <1>2, <1>3, <1>4, <2>2, <2>3
<1>5. CASE N # 0
  <2>1. /\ \A a, b \in F : Ahead(b, o) < Ahead(a, o)
             <=> \/ Newer(flash[a].seq, flash[b].seq)
                 \/ flash[b].seq = flash[a].seq /\ b < a
        /\ \A a, b \in F : Ahead(a, o) = Ahead(b, o) => a = b
        /\ \A a \in F : /\ Ahead(a, o) \in Int
                        /\ flash[a].seq = index.newestSeq <=> a = index.newest
                        /\ a # index.newest => Ahead(a, o) < Ahead(index.newest, o)
        /\ index.newest \in F
    <3>1. index.count > 0
      BY <1>3, <1>5
    <3> QED
      BY <3>1, MetByAge, Zenon
  <2> DEFINE key == [a \in F |-> Ahead(a, o)]
  <2>2. /\ \A a \in F : Rank(F, key, a) \in 0 .. N - 1
        /\ \A a, b \in F : Rank(F, key, a) = Rank(F, key, b) => a = b
        /\ \A i \in 0 .. N - 1 : \E a \in F : Rank(F, key, a) = i
    <3>1. key \in [F -> Int] /\ \A a, b \in F : key[a] = key[b] => a = b
      BY <2>1
    <3> HIDE DEF key, F
    <3> QED
      BY <1>3, <3>1, RanksAreOneToOne
  <2>3. ASSUME NEW a \in F
        PROVE  /\ {b \in F : Ahead(b, o) < Ahead(a, o)} = Below(F, key, a)
               /\ {b \in F : \/ Newer(flash[a].seq, flash[b].seq)
                             \/ flash[b].seq = flash[a].seq /\ b < a} = Below(F, key, a)
    <3>1. {b \in F : Ahead(b, o) < Ahead(a, o)} = Below(F, key, a)
      BY DEF Below
    <3>2. \A b \in F : Ahead(b, o) < Ahead(a, o)
             <=> \/ Newer(flash[a].seq, flash[b].seq)
                 \/ flash[b].seq = flash[a].seq /\ b < a
      BY <2>1, Zenon
    <3>3. {b \in F : \/ Newer(flash[a].seq, flash[b].seq)
                     \/ flash[b].seq = flash[a].seq /\ b < a}
            = {b \in F : Ahead(b, o) < Ahead(a, o)}
      BY ONLY <3>2, Zenon
    <3> QED
      BY <3>1, <3>3
  <2>4. ASSUME NEW i \in 1 .. N
        PROVE  /\ around[i] \in F /\ Rank(F, key, around[i]) = i - 1
               /\ aged[i] \in F /\ Rank(F, key, aged[i]) = i - 1
    <3>1. PICK a \in F : Rank(F, key, a) = i - 1
      <4>1. i - 1 \in 0 .. N - 1
        BY <1>3
      <4> QED
        BY <4>1, <2>2, Zenon
    <3>2. /\ Cardinality({b \in F : Ahead(b, o) < Ahead(a, o)}) = i - 1
          /\ Cardinality({b \in F : \/ Newer(flash[a].seq, flash[b].seq)
                                    \/ flash[b].seq = flash[a].seq /\ b < a}) = i - 1
      BY <2>3, <3>1, Zenon DEF Rank
    <3>3. /\ around[i] \in F
          /\ Cardinality({b \in F : Ahead(b, o) < Ahead(around[i], o)}) = i - 1
      BY <3>2, Zenon
    <3>4. /\ aged[i] \in F
          /\ Cardinality({b \in F : \/ Newer(flash[aged[i]].seq, flash[b].seq)
                                    \/ flash[b].seq = flash[aged[i]].seq /\ b < aged[i]}) = i - 1
      BY <3>2, Zenon
    <3> HIDE DEF around, aged, key, F
    <3> QED
      BY <3>3, <3>4, <2>3, Zenon DEF Rank
  <2>5. around \in [1 .. N -> F] /\ aged \in [1 .. N -> F]
    BY <2>4
  <2> HIDE DEF around, aged, key, F
  <2>6. ASSUME NEW i \in 1 .. N
        PROVE  around[i] = aged[i]
    <3>1. /\ around[i] \in F /\ Rank(F, key, around[i]) = i - 1
          /\ aged[i] \in F /\ Rank(F, key, aged[i]) = i - 1
      BY <2>4
    <3>2. Rank(F, key, around[i]) = Rank(F, key, aged[i])
      BY <3>1
    <3> QED
      BY <3>1, <3>2, <2>2
  <2>7. /\ around \in Seq(Addrs) /\ Len(around) = N
        /\ aged \in Seq(Addrs) /\ Len(aged) = N
    <3>1. around \in [1 .. N -> Addrs] /\ aged \in [1 .. N -> Addrs]
      BY <1>3, <2>5
    <3> HIDE DEF N
    <3> QED
      BY <1>3, <3>1, FunctionIsSequence
  <2>8. around = aged
    BY <2>6, <2>7, SeqEqual
  <2>9. Rank(F, key, index.newest) = N - 1
    <3>1. \A a \in F : a # index.newest <=> key[a] < key[index.newest]
      <4>1. \A a \in F : key[a] = Ahead(a, o)
        BY DEF key
      <4>2. Ahead(index.newest, o) \in Int
        BY <2>1
      <4> QED
        BY <2>1, <4>1, <4>2
    <3>2. Below(F, key, index.newest) = F \ {index.newest}
      BY <3>1 DEF Below
    <3>3. Cardinality(F \ {index.newest}) = N - 1
      BY <1>3, <2>1, FS_RemoveElement
    <3> QED
      BY <3>2, <3>3 DEF Rank
  <2>10. N \in 1 .. N /\ around[N] = index.newest
    <3>1. N \in 1 .. N
      BY <1>3, <1>5
    <3>2. around[N] \in F /\ Rank(F, key, around[N]) = N - 1
      BY <3>1, <2>4
    <3> QED
      BY <2>1, <2>2, <2>9, <3>1, <3>2
  <2>11. stops = {N}
    <3>1. DOMAIN around = 1 .. N
      BY <2>5
    <3>2. ASSUME NEW i \in 1 .. N
          PROVE  flash[around[i]].seq = index.newestSeq <=> i = N
      <4>1. flash[around[i]].seq = index.newestSeq <=> around[i] = index.newest
        BY <2>1, <2>4
      <4>2. around[i] = index.newest => i - 1 = N - 1
        BY <2>4, <2>9
      <4> QED
        BY <1>3, <2>10, <4>1, <4>2
    <3> QED
      BY <2>10, <3>1, <3>2
  <2>12. last = N
    BY <2>10, <2>11, <1>3
  <2> HIDE DEF last, stops
  <2>13. SubSeq(around, 1, last) = aged
    BY <2>8, <2>7, <2>12, SubSeqFull
  <2> QED
    BY <1>1, <1>2, <1>3, <1>5, <2>7, <2>13
<1> QED
  BY <1>4, <1>5

LEMMA OrderMeansDumps == OrderInv => SendsAllOldestFirst /\ SendsLatest
<1> SUFFICES ASSUME OrderInv, op.at = "idle", ~busy
             PROVE  /\ Walk = ByAge
                    /\ \A n \in 1 .. Len(ByAge) + 1 :
                         Latest(n) = SubSeq(ByAge, IF n > Len(ByAge) THEN 1 ELSE Len(ByAge) - n + 1, Len(ByAge))
  BY DEF SendsAllOldestFirst, SendsLatest
<1>1. Walk = ByAge /\ ByAge \in Seq(Addrs) /\ Len(ByAge) = index.count
  BY WalkIsByAge
<1>2. Len(ByAge) \in Nat
  BY <1>1, LenProperties
<1>3. ASSUME NEW n \in 1 .. Len(ByAge) + 1
      PROVE  Latest(n) = SubSeq(ByAge, IF n > Len(ByAge) THEN 1 ELSE Len(ByAge) - n + 1, Len(ByAge))
  <2> DEFINE target == IF n > index.count THEN index.count ELSE n
  <2>1. Latest(n) = SubSeq(ByAge, Len(ByAge) - target + 1, Len(ByAge))
    BY <1>1 DEF Latest
  <2>2. Len(ByAge) - target + 1 = IF n > Len(ByAge) THEN 1 ELSE Len(ByAge) - n + 1
    BY <1>1, <1>2
  <2> HIDE DEF target
  <2> QED
    BY <2>1, <2>2
<1> QED
  BY <1>1, <1>3

(* Command 'a' sends every stored frame once, oldest first, for every      *)
(* geometry, every set of frame lengths and every pattern of faults, under *)
(* the conditions of IndexTrue.                                            *)
THEOREM DumpsOldestFirst ==
  ASSUME NEW n \in Nat \ {0}, NumbersOutlast(n, MaxFaults)
  PROVE  Spec /\ []SectorsNotFilled => []SendsAllOldestFirst
BY OrderHolds, OrderMeansDumps, PTL

(* Command 'lN' sends the N newest, under the same conditions.             *)
THEOREM LatestAreLatest ==
  ASSUME NEW n \in Nat \ {0}, NumbersOutlast(n, MaxFaults)
  PROVE  Spec /\ []SectorsNotFilled => []SendsLatest
BY OrderHolds, OrderMeansDumps, PTL

(* Until something fails both send what they should, whatever the frames.  *)
THEOREM DumpsWithoutFaults ==
  ASSUME NEW n \in Nat \ {0}, NumbersOutlast(n, 0)
  PROVE  Spec => [](faults = 0 => SendsAllOldestFirst /\ SendsLatest)
<1>1. (faults = 0 => OrderInv) => (faults = 0 => SendsAllOldestFirst /\ SendsLatest)
  BY OrderMeansDumps
<1> QED
  BY <1>1, OrderHoldsWithoutFaults, PTL

-----------------------------------------------------------------------------
(* What a failed read-back leaves behind.                                  *)

(* A frame that fails its read-back costs one frame: the next one goes to  *)
(* a sector that will be erased first.  This holds for every geometry and  *)
(* every pattern of faults, under the conditions of IndexTrue.             *)
THEOREM ReadBackHeals ==
  ASSUME NEW n \in Nat \ {0}, NumbersOutlast(n, MaxFaults)
  PROVE  Spec /\ []SectorsNotFilled => VerifyFailureHeals
<1>1. OrderInv /\ HealInv /\ [Next]_vars =>
        [op.at = "verify" /\ ~busy /\ ~ValidAt(flash, op.start) => CleanPlace(index'.write)]_vars
  <2> SUFFICES ASSUME OrderInv, HealInv, Next, op.at = "verify", ~busy, ~ValidAt(flash, op.start)
               PROVE  CleanPlace(index'.write)
    OBVIOUS
  <2>1. Verify \/ PowerLoss
    BY DEF Next, Boot, StartAppend, BeginAppend, EraseSector, ProgramPage, StartWipe, WipeSector,
           FinishWipe, EndWipe, AppendFails, WipeFails
  <2>2. CASE PowerLoss
    <3>1. index'.write = 0
      BY <2>2 DEF PowerLoss, EmptyIndex
    <3> QED
      BY <3>1, StartAligned DEF CleanPlace
  <2>3. CASE Verify
    <3>1. IsSectorStart(index'.write)
      BY <2>3, HealsAtVerify DEF HealInv
    <3> QED
      BY <3>1 DEF CleanPlace
  <2> QED
    BY <2>1, <2>2, <2>3
<1> QED
  BY <1>1, OrderHolds, PTL DEF VerifyFailureHeals, Spec
=============================================================================
