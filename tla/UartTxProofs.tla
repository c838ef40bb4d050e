---------------------------- MODULE UartTxProofs ----------------------------
(***************************************************************************)
(* Theorems about UartTx, for every ring size, chunk limit and frame size: *)
(* the transmit path implements the bounded FIFO of ByteFifo.              *)
(***************************************************************************)
EXTENDS UartTx, SequenceTheorems, TLAPS

(* A transfer under way covers the oldest bytes of the ring and does not   *)
(* wrap; without one the ring is empty.                                    *)
DmaShape ==
  /\ running => /\ active \in 1 .. Used
                /\ tail + active <= TxSize
                /\ left \in 0 .. active
                /\ rd = tail + active - left
                /\ pending <=> left = 0
  /\ ~running => /\ head = tail
                 /\ active = 0 /\ left = 0 /\ ~pending

(* The ring holds the youngest accepted bytes, the wire has had the others *)
(* and the first bytes of the transfer under way.                          *)
RingContents ==
  /\ Used <= Len(accepted)
  /\ Len(wire) = Len(accepted) - Used + active - left
  /\ \A p \in Slots : Wrap(p - tail) < Used =>
       buf[p] = accepted[Len(accepted) - Used + 1 + Wrap(p - tail)]
  /\ \A i \in 1 .. Len(wire) : wire[i] = accepted[i]

(* The inductive invariant.                                                *)
Inv == TypeOK /\ DmaShape /\ RingContents

-----------------------------------------------------------------------------
(* Ring arithmetic.                                                        *)

LEMMA Sizes == TxSize \in Nat /\ TxSize >= 2 /\ ChunkMax \in Nat \ {0}
BY UartAssumption

LEMMA RingArithmetic ==
  ASSUME TypeOK
  PROVE  /\ Used \in 0 .. TxSize - 1
         /\ Free = TxSize - 1 - Used
         /\ Used = 0 <=> head = tail
         /\ Wrap(head + 1) # tail <=> Free >= 1
BY Sizes DEF TypeOK, Used, Free, Wrap, Slots

(* A transfer started on a ring that is not empty.                         *)
LEMMA ChunkInRing ==
  ASSUME NEW h \in Slots, NEW t \in Slots, h # t
  PROVE  /\ ChunkSize(h, t) \in 1 .. Wrap(h - t)
         /\ t + ChunkSize(h, t) <= TxSize
BY Sizes DEF ChunkSize, Wrap, Slots

LEMMA FrameBytesType ==
  ASSUME NEW who \in {"log", "dump"}, NEW k \in Nat, NEW n \in Nat
  PROVE  FrameBytes(who, k, n) \in Seq(Byte) /\ Len(FrameBytes(who, k, n)) = n
BY DEF FrameBytes, Byte

-----------------------------------------------------------------------------
(* Pushing bytes and starting the DMA keeps the ring invariant.            *)
LEMMA PushKeeps ==
  ASSUME Inv, NEW data \in Seq(Byte), Len(data) >= 1, Len(data) <= Free,
         Push(data), StartDma(Wrap(head + Len(data)), tail, running),
         UNCHANGED <<tail, pending, wire>>
  PROVE  /\ DmaShape' /\ RingContents'
         /\ buf' \in [Slots -> Byte] /\ head' \in Slots /\ accepted' \in Seq(Byte)
         /\ running' \in BOOLEAN /\ active' \in 0 .. TxSize
         /\ rd' \in 0 .. TxSize /\ left' \in 0 .. TxSize
         /\ Len(accepted') = Len(accepted) + Len(data)
         /\ SubSeq(accepted', 1, Len(accepted)) = accepted
         /\ Used' = Used + Len(data)
<1> DEFINE n == Len(data)
<1>1. n \in Nat /\ n >= 1 /\ n <= Free
  OBVIOUS
<1>2. head' = Wrap(head + n) /\ tail' = tail /\ tail \in Slots /\ head \in Slots
  BY DEF Push, Inv, TypeOK
<1>3. Used \in 0 .. TxSize - 1 /\ Free = TxSize - 1 - Used
  BY RingArithmetic DEF Inv
<1>4. Used' = Used + n /\ head' \in Slots
  BY <1>1, <1>2, <1>3, Sizes DEF Used, Wrap, Slots
<1>5. accepted' = accepted \o data /\ accepted \in Seq(Byte)
  BY DEF Push, Inv, TypeOK
<1>6. /\ accepted' \in Seq(Byte) /\ Len(accepted') = Len(accepted) + n
      /\ \A i \in 1 .. Len(accepted) : accepted'[i] = accepted[i]
      /\ \A i \in 1 .. n : accepted'[Len(accepted) + i] = data[i]
      /\ Len(accepted) \in Nat
  BY <1>5
<1>7. SubSeq(accepted', 1, Len(accepted)) = accepted
  BY <1>5, <1>6
<1>8. \A p \in Slots : Wrap(p - head) \in 0 .. TxSize - 1
  BY <1>2, Sizes DEF Wrap, Slots
<1>9. buf' = [p \in Slots |-> IF Wrap(p - head) < n THEN data[Wrap(p - head) + 1] ELSE buf[p]]
  BY DEF Push
<1>10. buf' \in [Slots -> Byte]
  <2>1. \A p \in Slots : Wrap(p - head) < n => data[Wrap(p - head) + 1] \in Byte
    BY <1>1, <1>8
  <2> QED
    BY <1>9, <2>1 DEF Inv, TypeOK
<1>11. DmaShape' /\ running' \in BOOLEAN /\ active' \in 0 .. TxSize /\ rd' \in 0 .. TxSize
         /\ left' \in 0 .. TxSize /\ active' - left' = active - left
  <2>1. CASE running
    <3>1. UNCHANGED <<running, active, rd, left, pending>>
      BY <2>1 DEF StartDma
    <3> QED
      BY <2>1, <3>1, <1>1, <1>2, <1>3, <1>4, Sizes DEF DmaShape, Inv, TypeOK
  <2>2. CASE ~running
    <3>1. head = tail /\ active = 0 /\ left = 0 /\ ~pending
      BY <2>2 DEF Inv, DmaShape
    <3>2. head' # tail /\ Wrap(head' - tail) = Used'
      BY <1>1, <1>2, <1>3, <1>4, <3>1, Sizes DEF Used, Wrap, Slots
    <3>3. running' = TRUE /\ active' = ChunkSize(head', tail) /\ rd' = tail /\ left' = ChunkSize(head', tail)
      BY <2>2, <1>2, <3>2 DEF StartDma
    <3>4. ChunkSize(head', tail) \in 1 .. Used' /\ tail + ChunkSize(head', tail) <= TxSize
      BY <1>2, <1>4, <3>2, ChunkInRing
    <3> QED
      BY <1>1, <1>2, <1>3, <1>4, <3>1, <3>3, <3>4, Sizes DEF DmaShape, Slots
  <2> QED
    BY <2>1, <2>2 DEF Inv, TypeOK
<1>12. RingContents'
  <2>1. Used' <= Len(accepted') /\ Len(wire') = Len(accepted') - Used' + active' - left'
    <3>1. wire' = wire /\ Len(wire) \in Nat /\ active \in Int /\ left \in Int /\ active' \in Int /\ left' \in Int
      BY <1>11, Sizes DEF Inv, TypeOK
    <3>2. Used <= Len(accepted) /\ Len(wire) = Len(accepted) - Used + active - left
      BY DEF Inv, RingContents
    <3>3. Len(wire') = Len(wire)
      BY <3>1
    <3>4. active' - left' = active - left /\ Used' = Used + n
            /\ Len(accepted') = Len(accepted) + n /\ Len(accepted) \in Nat
      BY <1>4, <1>6, <1>11
    <3>5. Len(accepted') - Used' = Len(accepted) - Used /\ Used' <= Len(accepted')
      BY <1>1, <1>3, <3>2, <3>4
    <3>6. Len(accepted) - Used \in Int /\ Len(accepted') - Used' \in Int
      BY <1>1, <1>3, <3>4, <3>5
    <3> QED
      BY <3>1, <3>2, <3>3, <3>4, <3>5, <3>6
  <2>2. ASSUME NEW p \in Slots, Wrap(p - tail) < Used'
        PROVE  buf'[p] = accepted'[Len(accepted') - Used' + 1 + Wrap(p - tail)]
    <3>1. Len(accepted') - Used' = Len(accepted) - Used
      BY <1>1, <1>3, <1>4, <1>6
    <3>2. Wrap(p - tail) \in 0 .. TxSize - 1
      BY <1>2, Sizes DEF Wrap, Slots
    <3>3. CASE Wrap(p - tail) < Used
      <4>1. ~(Wrap(p - head) < n)
        BY <1>1, <1>2, <1>3, <3>3, Sizes DEF Used, Wrap, Slots
      <4>2. buf'[p] = buf[p] /\ buf[p] = accepted[Len(accepted) - Used + 1 + Wrap(p - tail)]
        BY <1>9, <3>3, <4>1 DEF Inv, RingContents
      <4>3. Len(accepted) - Used + 1 + Wrap(p - tail) \in 1 .. Len(accepted)
        BY <1>3, <1>6, <3>2, <3>3 DEF Inv, RingContents
      <4> QED
        BY <1>6, <3>1, <4>2, <4>3
    <3>4. CASE ~(Wrap(p - tail) < Used)
      <4>1. Wrap(p - head) = Wrap(p - tail) - Used /\ Wrap(p - head) < n
        BY <1>1, <1>2, <1>3, <1>4, <2>2, <3>4, Sizes DEF Used, Wrap, Slots
      <4>2. buf'[p] = data[Wrap(p - head) + 1]
        BY <1>9, <4>1
      <4>3. Wrap(p - head) + 1 \in 1 .. n
        BY <1>1, <1>8, <4>1
      <4>4. accepted'[Len(accepted) + (Wrap(p - head) + 1)] = data[Wrap(p - head) + 1]
        BY <1>6, <4>3
      <4>5. Len(accepted') - Used' + 1 + Wrap(p - tail) = Len(accepted) + (Wrap(p - head) + 1)
        BY <1>3, <1>6, <1>8, <3>1, <3>2, <4>1
      <4> QED
        BY <4>2, <4>4, <4>5
    <3> QED
      BY <3>3, <3>4
  <2>3. \A i \in 1 .. Len(wire') : wire'[i] = accepted'[i]
    <3>1. wire' = wire /\ Len(wire) <= Len(accepted) /\ Len(wire) \in Nat
      <4>1. active - left <= Used /\ active \in Int /\ left \in Int
        BY <1>3, Sizes DEF Inv, DmaShape, TypeOK
      <4> QED
        BY <1>3, <1>6, <4>1 DEF Inv, TypeOK, RingContents
    <3>2. \A i \in 1 .. Len(wire) : wire[i] = accepted[i]
      BY DEF Inv, RingContents
    <3>3. \A i \in 1 .. Len(wire) : i \in 1 .. Len(accepted)
      BY <1>6, <3>1
    <3> QED
      BY <1>6, <3>1, <3>2, <3>3
  <2> QED
    BY <1>2, <2>1, <2>2, <2>3 DEF RingContents
<1> QED
  BY <1>4, <1>6, <1>7, <1>10, <1>11, <1>12

-----------------------------------------------------------------------------
(* The channel sends the oldest byte that is not on the wire yet.          *)
LEMMA MoveKeeps ==
  ASSUME Inv, DmaMoveByte
  PROVE  /\ DmaShape' /\ RingContents' /\ wire' \in Seq(Byte)
         /\ rd' \in 0 .. TxSize /\ left' \in 0 .. TxSize /\ pending' \in BOOLEAN
         /\ Len(wire) < Len(accepted)
         /\ wire' = Append(wire, accepted[Len(wire) + 1])
<1>1. /\ left \in Nat \ {0} /\ wire' = Append(wire, buf[rd]) /\ rd' = rd + 1
      /\ left' = left - 1 /\ pending' = (left = 1)
      /\ UNCHANGED <<buf, head, tail, running, active, accepted>>
  BY DEF DmaMoveByte, Inv, TypeOK
<1>2. running /\ active \in 1 .. Used /\ tail + active <= TxSize /\ left \in 1 .. active
        /\ rd = tail + active - left
  BY <1>1 DEF Inv, DmaShape
<1>3. Used \in 0 .. TxSize - 1 /\ tail \in Slots /\ tail \in Nat /\ Used' = Used
  BY <1>1, RingArithmetic DEF Inv, TypeOK, Slots, Used
<1>4. DmaShape'
  <2>1. pending' <=> left' = 0
    <3>1. left = 1 <=> left' = 0
      BY <1>1
    <3>2. pending' <=> left = 1
      BY <1>1
    <3> QED
      BY <3>1, <3>2
  <2>2. active' \in 1 .. Used' /\ tail' + active' <= TxSize /\ left' \in 0 .. active'
          /\ rd' = tail' + active' - left'
    BY <1>1, <1>2, <1>3, Sizes
  <2>3. running'
    BY <1>1, <1>2
  <2> QED
    BY <2>1, <2>2, <2>3 DEF DmaShape
<1>5. rd' \in 0 .. TxSize /\ left' \in 0 .. TxSize /\ pending' \in BOOLEAN
  BY <1>1, <1>2, <1>3, Sizes
<1>6. rd \in Slots /\ Wrap(rd - tail) = active - left /\ active - left < Used
  BY <1>2, <1>3, Sizes DEF Wrap, Slots
<1>7. Len(wire) = Len(accepted) - Used + active - left /\ Used <= Len(accepted)
        /\ Len(wire) \in Nat /\ Len(accepted) \in Nat
        /\ wire \in Seq(Byte) /\ accepted \in Seq(Byte)
  BY DEF Inv, TypeOK, RingContents
<1>8. buf[rd] = accepted[Len(accepted) - Used + 1 + (active - left)]
  BY <1>6 DEF Inv, RingContents
<1>9. Len(accepted) - Used + 1 + (active - left) = Len(wire) + 1 /\ Len(wire) < Len(accepted)
  BY <1>2, <1>3, <1>6, <1>7
<1>10. wire' = Append(wire, accepted[Len(wire) + 1]) /\ accepted[Len(wire) + 1] \in Byte
  BY <1>1, <1>7, <1>8, <1>9
<1>11. wire' \in Seq(Byte) /\ Len(wire') = Len(wire) + 1
         /\ \A i \in 1 .. Len(wire) : wire'[i] = wire[i]
  BY <1>7, <1>10
<1>13. wire'[Len(wire) + 1] = accepted[Len(wire) + 1]
  BY <1>7, <1>10
<1>12. RingContents'
  <2>1. Len(wire') = Len(accepted') - Used' + active' - left' /\ Used' <= Len(accepted')
    BY <1>1, <1>2, <1>3, <1>7, <1>11
  <2>2. ASSUME NEW p \in Slots, Wrap(p - tail') < Used'
        PROVE  buf'[p] = accepted'[Len(accepted') - Used' + 1 + Wrap(p - tail')]
    BY <1>1, <1>3, <2>2 DEF Inv, RingContents
  <2>3. ASSUME NEW i \in 1 .. Len(wire')
        PROVE  wire'[i] = accepted'[i]
    <3>1. \A j \in 1 .. Len(wire) : wire[j] = accepted[j]
      BY DEF Inv, RingContents
    <3>2. CASE i = Len(wire) + 1
      <4>1. accepted' = accepted
        BY <1>1
      <4> QED
        BY <1>13, <3>2, <4>1
    <3>3. CASE i # Len(wire) + 1
      <4>1. i \in 1 .. Len(wire)
        BY <1>7, <1>11, <3>3
      <4> QED
        BY <1>1, <1>11, <3>1, <4>1
    <3> QED
      BY <3>2, <3>3
  <2> QED
    BY <2>1, <2>2, <2>3 DEF RingContents
<1> QED
  BY <1>4, <1>5, <1>9, <1>10, <1>11, <1>12

(* The interrupt releases the bytes that were sent and starts the next     *)
(* chunk.                                                                  *)
LEMMA IrqKeeps ==
  ASSUME Inv, DmaIrq
  PROVE  /\ DmaShape' /\ RingContents' /\ tail' \in Slots
         /\ running' \in BOOLEAN /\ active' \in 0 .. TxSize
         /\ rd' \in 0 .. TxSize /\ left' \in 0 .. TxSize /\ pending' \in BOOLEAN
<1>1. /\ pending /\ pending' = FALSE /\ tail' = Wrap(tail + active)
      /\ StartDma(head, Wrap(tail + active), FALSE)
      /\ UNCHANGED <<buf, head, accepted, wire>>
  BY DEF DmaIrq
<1>2. running /\ active \in 1 .. Used /\ tail + active <= TxSize /\ left = 0
        /\ rd = tail + active
  BY <1>1, Sizes DEF Inv, DmaShape, TypeOK
<1>3. Used \in 0 .. TxSize - 1 /\ tail \in Slots /\ head \in Slots /\ tail \in Nat
  BY RingArithmetic DEF Inv, TypeOK, Slots
<1>4. tail' \in Slots /\ Used' = Used - active /\ Used' = Wrap(head - tail')
        /\ (Used' = 0 <=> head = tail')
  BY <1>1, <1>2, <1>3, Sizes DEF Used, Wrap, Slots
<1>5. /\ DmaShape'
      /\ running' \in BOOLEAN /\ active' \in 0 .. TxSize
      /\ rd' \in 0 .. TxSize /\ left' \in 0 .. TxSize /\ active' = left'
  <2>1. CASE tail' = head
    <3>1. running' = FALSE /\ active' = 0 /\ rd' = rd /\ left' = left
      BY <1>1, <2>1 DEF StartDma
    <3>2. head' = tail' /\ left' = 0 /\ pending' = FALSE
      BY <1>1, <1>2, <2>1, <3>1
    <3>3. DmaShape'
      BY <3>1, <3>2 DEF DmaShape
    <3>4. rd' \in 0 .. TxSize /\ active' \in 0 .. TxSize /\ left' \in 0 .. TxSize
      BY <1>2, <1>3, <3>1, <3>2, Sizes
    <3>5. running' \in BOOLEAN
      BY <3>1
    <3> QED
      BY <3>1, <3>2, <3>3, <3>4, <3>5
  <2>2. CASE tail' # head
    <3>1. running' = TRUE /\ active' = ChunkSize(head, tail') /\ rd' = tail'
            /\ left' = ChunkSize(head, tail')
      BY <1>1, <2>2 DEF StartDma
    <3>2. ChunkSize(head, tail') \in 1 .. Used' /\ tail' + ChunkSize(head, tail') <= TxSize
      BY <1>3, <1>4, <2>2, ChunkInRing
    <3> QED
      BY <1>1, <1>2, <1>3, <1>4, <3>1, <3>2, Sizes DEF DmaShape, Slots
  <2> QED
    BY <2>1, <2>2
<1>6. Len(wire) = Len(accepted) - Used + active - left /\ Used <= Len(accepted)
        /\ Len(accepted) \in Nat /\ Len(wire) \in Nat
  BY DEF Inv, TypeOK, RingContents
<1>7. RingContents'
  <2>1. Used' <= Len(accepted') /\ Len(wire') = Len(accepted') - Used' + active' - left'
    <3>1. active' \in Int /\ active' = left'
      BY <1>5
    <3>2. Len(accepted') = Len(accepted) /\ Len(wire') = Len(wire)
      BY <1>1
    <3>3. Len(wire) = Len(accepted) - Used + active /\ active \in Nat
      BY <1>2, <1>3, <1>6
    <3>4. Len(wire) = Len(accepted) - Used'
      BY <1>3, <1>4, <1>6, <3>3
    <3>5. Used' <= Len(accepted) /\ Used' \in Int
      BY <1>2, <1>3, <1>4, <1>6
    <3> QED
      BY <1>6, <3>1, <3>2, <3>4, <3>5
  <2>2. ASSUME NEW p \in Slots, Wrap(p - tail') < Used'
        PROVE  buf'[p] = accepted'[Len(accepted') - Used' + 1 + Wrap(p - tail')]
    <3>1. Wrap(p - tail) = Wrap(p - tail') + active /\ Wrap(p - tail') \in 0 .. TxSize - 1
      BY <1>1, <1>2, <1>3, <1>4, <2>2, Sizes DEF Used, Wrap, Slots
    <3>2. Wrap(p - tail) < Used
      BY <1>2, <1>3, <1>4, <2>2, <3>1
    <3>3. buf[p] = accepted[Len(accepted) - Used + 1 + Wrap(p - tail)]
      BY <3>2 DEF Inv, RingContents
    <3>4. Len(accepted) - Used + 1 + Wrap(p - tail) = Len(accepted) - Used' + 1 + Wrap(p - tail')
      BY <1>2, <1>3, <1>4, <1>6, <3>1
    <3> QED
      BY <1>1, <3>3, <3>4
  <2> QED
    BY <1>1, <2>1, <2>2 DEF Inv, RingContents
<1> QED
  BY <1>1, <1>4, <1>5, <1>7

-----------------------------------------------------------------------------
(* Inv is inductive, and every step of UartTx is a step of the FIFO.       *)

LEMMA InitInv == Init => Inv /\ Fifo!Init
<1> SUFFICES ASSUME Init
             PROVE  Inv /\ Fifo!Init
  OBVIOUS
<1>1. Blank \in Byte /\ 0 \in Slots
  BY Sizes DEF Blank, Byte, Slots
<1>2. TypeOK
  BY <1>1, Sizes DEF Init, TypeOK
<1>3. Used = 0
  BY <1>2, RingArithmetic DEF Init
<1>4. DmaShape
  BY DEF Init, DmaShape
<1>5. Len(accepted) = 0 /\ Len(wire) = 0
  BY DEF Init
<1>6. RingContents
  <2>1. \A p \in Slots : ~(Wrap(p - tail) < 0)
    BY Sizes DEF Init, Wrap, Slots
  <2> QED
    BY <1>3, <1>5, <2>1 DEF Init, RingContents
<1> QED
  BY <1>2, <1>4, <1>6 DEF Inv, Init, Fifo!Init

(* A push, seen from the FIFO.                                             *)
LEMMA PushIsPut ==
  ASSUME Inv, NEW data \in Seq(Byte), Len(data) >= 1, Len(data) <= Free,
         Push(data), StartDma(Wrap(head + Len(data)), tail, running),
         UNCHANGED <<tail, pending, wire>>
  PROVE  Fifo!Put
<1>1. /\ Len(accepted') = Len(accepted) + Len(data) /\ Used' = Used + Len(data)
      /\ SubSeq(accepted', 1, Len(accepted)) = accepted
  BY PushKeeps
<1>2. /\ Used \in 0 .. TxSize - 1 /\ Len(data) \in Nat /\ Len(accepted) \in Nat
      /\ Free = TxSize - 1 - Used /\ TxSize \in Nat
  BY RingArithmetic, Sizes DEF Inv, TypeOK
<1>3. Len(wire) = Len(accepted) - Used + (active - left)
  <2>1. active \in Int /\ left \in Int /\ Len(accepted) - Used \in Int
    BY <1>2, Sizes DEF Inv, TypeOK
  <2> QED
    BY <2>1 DEF Inv, RingContents
<1>4. active - left \in Nat
  BY Sizes DEF Inv, DmaShape, TypeOK
<1>5. Len(accepted') - Len(wire) <= TxSize - 1
  BY <1>1, <1>2, <1>3, <1>4
<1> QED
  BY <1>1, <1>2, <1>5 DEF Fifo!Put

LEMMA StepInv == Inv /\ [Next]_vars => Inv' /\ [Fifo!Next]_(Fifo!vars)
<1> SUFFICES ASSUME Inv, [Next]_vars
             PROVE  Inv' /\ [Fifo!Next]_(Fifo!vars)
  OBVIOUS
<1>a. TypeOK /\ DmaShape /\ RingContents
  BY DEF Inv
<1>1. ASSUME NEW n \in FrameSizes, WriteFrame(n)
      PROVE  Inv' /\ Fifo!Put
  <2> DEFINE data == FrameBytes("log", frames + 1, n)
  <2>1. n \in Nat /\ n >= 1 /\ n <= Free /\ frames + 1 \in Nat
    BY <1>1, <1>a, UartAssumption DEF WriteFrame, TypeOK
  <2>2. data \in Seq(Byte) /\ Len(data) = n
    BY <2>1, FrameBytesType
  <2>3. Push(data) /\ StartDma(Wrap(head + Len(data)), tail, running)
          /\ UNCHANGED <<tail, pending, wire>>
    BY <1>1, <2>2 DEF WriteFrame
  <2> HIDE DEF data
  <2>4. /\ DmaShape' /\ RingContents'
        /\ buf' \in [Slots -> Byte] /\ head' \in Slots /\ accepted' \in Seq(Byte)
        /\ running' \in BOOLEAN /\ active' \in 0 .. TxSize
        /\ rd' \in 0 .. TxSize /\ left' \in 0 .. TxSize
    BY <2>1, <2>2, <2>3, PushKeeps
  <2>5. TypeOK'
    BY <1>1, <1>a, <2>1, <2>3, <2>4 DEF WriteFrame, TypeOK
  <2>6. Fifo!Put
    BY <2>1, <2>2, <2>3, PushIsPut
  <2> QED
    BY <2>4, <2>5, <2>6 DEF Inv
<1>2. CASE WriteByte
  <2> DEFINE b == [by |-> "dump", frame |-> dump.frame, pos |-> dump.pos, size |-> dump.size]
             data == <<b>>
  <2>1. b \in Byte /\ dump.size \in Nat /\ dump.pos \in Nat /\ dump.frame \in Nat
    BY <1>a DEF TypeOK, Byte
  <2>2. data \in Seq(Byte) /\ Len(data) = 1
    BY <2>1
  <2>3. Push(data) /\ StartDma(Wrap(head + Len(data)), tail, running)
          /\ UNCHANGED <<tail, pending, wire>>
    BY <1>2, <2>2 DEF WriteByte
  <2> HIDE DEF data
  <2>a. Free >= 1
    BY <1>2, <1>a, RingArithmetic DEF WriteByte
  <2>4. Len(data) >= 1 /\ Len(data) <= Free
    BY <2>2, <2>a
  <2>5. /\ DmaShape' /\ RingContents'
        /\ buf' \in [Slots -> Byte] /\ head' \in Slots /\ accepted' \in Seq(Byte)
        /\ running' \in BOOLEAN /\ active' \in 0 .. TxSize
        /\ rd' \in 0 .. TxSize /\ left' \in 0 .. TxSize
    BY <2>2, <2>3, <2>4, PushKeeps
  <2>6. dump' \in [frame : Nat, pos : Nat, size : Nat]
    BY <1>2, <1>a, <2>1 DEF WriteByte, TypeOK
  <2>7. TypeOK'
    BY <1>2, <1>a, <2>3, <2>5, <2>6 DEF WriteByte, TypeOK
  <2>8. Fifo!Put
    BY <2>2, <2>3, <2>4, PushIsPut
  <2> QED
    BY <2>5, <2>7, <2>8 DEF Inv, Fifo!Next
<1>3. CASE DmaMoveByte
  <2>1. /\ DmaShape' /\ RingContents' /\ wire' \in Seq(Byte)
        /\ rd' \in 0 .. TxSize /\ left' \in 0 .. TxSize /\ pending' \in BOOLEAN
        /\ Len(wire) < Len(accepted)
        /\ wire' = Append(wire, accepted[Len(wire) + 1])
    BY <1>3, MoveKeeps
  <2>2. TypeOK'
    BY <1>3, <1>a, <2>1 DEF DmaMoveByte, TypeOK
  <2>3. Fifo!Deliver
    BY <1>3, <2>1 DEF DmaMoveByte, Fifo!Deliver
  <2> QED
    BY <2>1, <2>2, <2>3 DEF Inv, Fifo!Next
<1>4. CASE DmaIrq
  <2>1. /\ DmaShape' /\ RingContents' /\ tail' \in Slots
        /\ running' \in BOOLEAN /\ active' \in 0 .. TxSize
        /\ rd' \in 0 .. TxSize /\ left' \in 0 .. TxSize /\ pending' \in BOOLEAN
    BY <1>4, IrqKeeps
  <2>2. TypeOK'
    BY <1>4, <1>a, <2>1 DEF DmaIrq, TypeOK
  <2> QED
    BY <1>4, <2>1, <2>2 DEF Inv, DmaIrq, Fifo!vars
<1>5. ASSUME UNCHANGED <<buf, head, tail, running, active, rd, left, pending, accepted, wire>>
      PROVE  DmaShape' /\ RingContents' /\ UNCHANGED Fifo!vars
  BY <1>5, <1>a DEF DmaShape, RingContents, Used, Fifo!vars
<1>6. ASSUME NEW n \in FrameSizes, RefuseFrame(n) \/ StartDump(n)
      PROVE  Inv' /\ UNCHANGED Fifo!vars
  <2>1. n \in Nat
    BY UartAssumption
  <2>2. UNCHANGED <<buf, head, tail, running, active, rd, left, pending, accepted, wire>>
    BY <1>6 DEF RefuseFrame, StartDump
  <2>3. TypeOK'
    <3>1. CASE RefuseFrame(n)
      <4>1. dropFrames' \in Nat /\ frames' \in Nat /\ masked' \in BOOLEAN
              /\ logger' \in {"ready", "dropping"} /\ dump' = dump /\ byteFull' = byteFull
        BY <1>a, <3>1 DEF RefuseFrame, TypeOK
      <4> QED
        BY <1>a, <2>2, <4>1 DEF TypeOK
    <3>2. CASE StartDump(n)
      <4>1. dump' \in [frame : Nat, pos : Nat, size : Nat]
              /\ UNCHANGED <<masked, dropFrames, byteFull, logger, frames>>
        BY <1>a, <2>1, <3>2 DEF StartDump, TypeOK
      <4> QED
        BY <1>a, <2>2, <4>1 DEF TypeOK
    <3> QED
      BY <1>6, <3>1, <3>2
  <2> QED
    BY <1>5, <2>2, <2>3 DEF Inv
<1>7. CASE IncrementDropCount \/ WriteByteFull \/ UNCHANGED vars
  <2>1. UNCHANGED <<buf, head, tail, running, active, rd, left, pending, accepted, wire>>
    BY <1>7 DEF IncrementDropCount, WriteByteFull, vars
  <2>2. dropFrames' \in Nat /\ byteFull' \in Nat /\ frames' \in Nat /\ masked' \in BOOLEAN
          /\ logger' \in {"ready", "dropping"} /\ dump' = dump
    <3>1. CASE IncrementDropCount
      BY <1>a, <3>1 DEF IncrementDropCount, TypeOK
    <3>2. CASE WriteByteFull
      BY <1>a, <3>2 DEF WriteByteFull, TypeOK
    <3>3. CASE UNCHANGED vars
      BY <1>a, <3>3 DEF vars, TypeOK
    <3> QED
      BY <1>7, <3>1, <3>2, <3>3
  <2>3. TypeOK'
    BY <1>a, <2>1, <2>2 DEF TypeOK
  <2> QED
    BY <1>5, <2>1, <2>3 DEF Inv
<1> QED
  BY <1>1, <1>2, <1>3, <1>4, <1>6, <1>7 DEF Next, Fifo!Next

-----------------------------------------------------------------------------
(* In every reachable state every variable has its type.                   *)
THEOREM TypeCorrect == Spec => []TypeOK
<1>1. Inv => TypeOK
  BY DEF Inv
<1> QED
  BY <1>1, InitInv, StepInv, PTL DEF Spec

(* A DMA transfer never leaves the ring memory and never reaches bytes     *)
(* that were not accepted.                                                 *)
THEOREM WindowInRing == Spec => []DmaWindowInRing
<1>1. Inv => DmaWindowInRing
  <2> SUFFICES ASSUME Inv, running
               PROVE  rd + left <= TxSize /\ active <= Used /\ left <= active
    BY DEF DmaWindowInRing
  <2>1. active \in 1 .. Used /\ tail + active <= TxSize /\ left \in 0 .. active
          /\ rd = tail + active - left
    BY DEF Inv, DmaShape
  <2>2. Used \in 0 .. TxSize - 1 /\ tail \in Nat /\ TxSize \in Nat
    BY RingArithmetic, Sizes DEF Inv, TypeOK, Slots
  <2> QED
    BY <2>1, <2>2
<1> QED
  BY <1>1, InitInv, StepInv, PTL DEF Spec

(* Whenever the ring holds bytes a transfer is under way, whatever the     *)
(* tasks and the interrupt did before.                                     *)
THEOREM NothingStranded == Spec => []NoStrandedBytes
<1>1. Inv => NoStrandedBytes
  BY DEF Inv, DmaShape, NoStrandedBytes
<1> QED
  BY <1>1, InitInv, StepInv, PTL DEF Spec

(* The transmit path implements the bounded FIFO: what leaves on the wire  *)
(* is what was accepted, once each, in order.                              *)
THEOREM FifoImplemented == Spec => ImplementsFifo
<1>1. Inv /\ [Next]_vars => [Fifo!Next]_(Fifo!vars)
  BY StepInv
<1> QED
  BY <1>1, InitInv, StepInv, PTL DEF Spec, ImplementsFifo, Fifo!Spec

-----------------------------------------------------------------------------
(* Log frames stay whole: only the end of the stream can be unfinished,    *)
(* and no push leaves it so in the middle of a log frame.                  *)

LEMMA AcceptedByPush ==
  ASSUME NEW s \in Seq(Byte), NEW data \in Seq(Byte)
  PROVE  /\ Len(s \o data) = Len(s) + Len(data)
         /\ \A i \in 1 .. Len(s) : (s \o data)[i] = s[i]
         /\ \A j \in 1 .. Len(data) : (s \o data)[Len(s) + j] = data[j]
OBVIOUS

LEMMA UnbrokenKept ==
  ASSUME NEW data \in Seq(Byte), accepted \in Seq(Byte), accepted' = accepted \o data,
         LogFramesUnbroken,
         \A j \in 1 .. Len(data) : data[j].by = "log" /\ data[j].pos < data[j].size =>
           j < Len(data) /\ data[j + 1] = [data[j] EXCEPT !.pos = @ + 1]
  PROVE  LogFramesUnbroken'
<1> DEFINE n == Len(accepted)
           m == Len(data)
<1>1. n \in Nat /\ m \in Nat
  OBVIOUS
<1>2. /\ Len(accepted') = n + m
      /\ \A i \in 1 .. n : accepted'[i] = accepted[i]
      /\ \A j \in 1 .. m : accepted'[n + j] = data[j]
  BY AcceptedByPush
<1> SUFFICES ASSUME NEW i \in 1 .. n + m,
                    accepted'[i].by = "log", accepted'[i].pos < accepted'[i].size
             PROVE  i < n + m /\ accepted'[i + 1] = [accepted'[i] EXCEPT !.pos = @ + 1]
  BY <1>2 DEF LogFramesUnbroken
<1>3. CASE i <= n
  <2>1. i \in 1 .. n /\ accepted'[i] = accepted[i]
    BY <1>1, <1>2, <1>3
  <2>2. i < n /\ accepted[i + 1] = [accepted[i] EXCEPT !.pos = @ + 1]
    BY <2>1 DEF LogFramesUnbroken
  <2>3. i + 1 \in 1 .. n /\ i < n + m
    BY <1>1, <2>1, <2>2
  <2>4. accepted'[i + 1] = accepted[i + 1]
    BY <1>2, <2>3
  <2> QED
    BY <2>1, <2>2, <2>3, <2>4
<1>4. CASE i > n
  <2> DEFINE j == i - n
  <2>1. j \in 1 .. m /\ i = n + j
    BY <1>1, <1>4
  <2>2. accepted'[i] = data[j]
    BY <1>2, <2>1
  <2>3. j < m /\ data[j + 1] = [data[j] EXCEPT !.pos = @ + 1]
    BY <2>1, <2>2
  <2>4. accepted'[n + (j + 1)] = data[j + 1]
    BY <1>1, <1>2, <2>1, <2>3
  <2>5. n + (j + 1) = i + 1 /\ i < n + m
    BY <1>1, <2>1, <2>3
  <2> HIDE DEF j
  <2> QED
    BY <2>2, <2>3, <2>4, <2>5
<1>5. i <= n \/ i > n
  BY <1>1
<1> QED
  BY <1>3, <1>4, <1>5

LEMMA StepUnbroken == Inv /\ LogFramesUnbroken /\ [Next]_vars => LogFramesUnbroken'
<1> SUFFICES ASSUME Inv, LogFramesUnbroken, [Next]_vars
             PROVE  LogFramesUnbroken'
  OBVIOUS
<1>1. accepted \in Seq(Byte) /\ frames \in Nat /\ dump \in [frame : Nat, pos : Nat, size : Nat]
  BY DEF Inv, TypeOK
<1>2. ASSUME NEW n \in FrameSizes, WriteFrame(n)
      PROVE  LogFramesUnbroken'
  <2> DEFINE data == FrameBytes("log", frames + 1, n)
  <2>1. n \in Nat /\ frames + 1 \in Nat
    BY <1>1, UartAssumption
  <2>2. data \in Seq(Byte) /\ Len(data) = n /\ accepted' = accepted \o data
    BY <1>2, <2>1, FrameBytesType DEF WriteFrame, Push
  <2>3. \A j \in 1 .. n :
          data[j] = [by |-> "log", frame |-> frames + 1, pos |-> j, size |-> n]
    BY DEF FrameBytes
  <2> HIDE DEF data
  <2>4. ASSUME NEW j \in 1 .. n, data[j].pos < data[j].size
        PROVE  j < n /\ data[j + 1] = [data[j] EXCEPT !.pos = @ + 1]
    <3>1. data[j] = [by |-> "log", frame |-> frames + 1, pos |-> j, size |-> n]
      BY <2>3
    <3>2. data[j].pos = j /\ data[j].size = n
      BY <3>1
    <3>3. j < n /\ j + 1 \in 1 .. n
      BY <2>1, <2>4, <3>2
    <3>4. data[j + 1] = [by |-> "log", frame |-> frames + 1, pos |-> j + 1, size |-> n]
      BY <2>3, <3>3
    <3> QED
      BY <3>1, <3>3, <3>4
  <2> QED
    BY <1>1, <2>2, <2>4, UnbrokenKept
<1>3. CASE WriteByte
  <2> DEFINE b == [by |-> "dump", frame |-> dump.frame, pos |-> dump.pos, size |-> dump.size]
  <2>1. b \in Byte /\ <<b>> \in Seq(Byte) /\ Len(<<b>>) = 1 /\ <<b>>[1].by # "log"
    BY <1>1 DEF Byte
  <2>2. accepted' = accepted \o <<b>>
    BY <1>3 DEF WriteByte, Push
  <2>3. \A j \in 1 .. Len(<<b>>) : <<b>>[j].by # "log"
    BY <2>1
  <2> HIDE DEF b
  <2> QED
    BY <1>1, <2>1, <2>2, <2>3, UnbrokenKept
<1>4. CASE UNCHANGED accepted
  BY <1>4 DEF LogFramesUnbroken
<1> QED
  BY <1>2, <1>3, <1>4
  DEF Next, RefuseFrame, StartDump, IncrementDropCount, WriteByteFull, DmaMoveByte, DmaIrq, vars

(* A log frame enters the stream whole and unbroken, however full the ring *)
(* is and whatever the command task sends meanwhile.                       *)
THEOREM LogFramesWhole == Spec => []LogFramesUnbroken
<1>1. Init => LogFramesUnbroken
  BY DEF Init, LogFramesUnbroken
<1> QED
  BY <1>1, InitInv, StepInv, StepUnbroken, PTL DEF Spec
=============================================================================
