------------------------------- MODULE UartTx -------------------------------
(***************************************************************************)
(* The transmit side of UartDma: a ring of TxSize bytes filled by two      *)
(* tasks and emptied by a DMA channel whose completion interrupt advances  *)
(* the tail and starts the next chunk.                                     *)
(*                                                                         *)
(*   logger task   sends whole frames with write_frame; when one is        *)
(*                 refused it goes on to EventLogger::incrementDropCount   *)
(*   command task  sends stored frames byte by byte with                   *)
(*                 write_buffer_blocking                                   *)
(*                                                                         *)
(* Every handler runs with interrupts disabled, so each is one step; the   *)
(* steps of the two tasks, of the DMA channel and of the interrupt         *)
(* interleave freely between them.                                         *)
(***************************************************************************)
EXTENDS Integers, Sequences

CONSTANTS
  TxSize,       \* tx_size_, slots of the ring
  ChunkMax,     \* TX_DMA_CHUNK_MAX, most bytes of one DMA transfer
  FrameSizes,   \* lengths a frame may have
  MaxFrames,    \* bound: frames the logger task offers
  MaxDumps,     \* bound: stored frames the command task sends
  MaxFull       \* bound: tx_byte_full_count_ saturates here

ASSUME UartAssumption ==
  /\ TxSize \in Nat /\ TxSize >= 2
  /\ ChunkMax \in Nat \ {0}
  /\ FrameSizes \subseteq Nat \ {0}
  /\ MaxFrames \in Nat /\ MaxDumps \in Nat /\ MaxFull \in Nat

VARIABLES
  buf, head, tail,       \* tx_buf_, tx_head_, tx_tail_
  running, active,       \* tx_dma_running_, tx_dma_active_count_
  rd, left, pending,     \* DMA channel: read index, transfer count, raised interrupt
  masked,                \* interrupts are disabled (PRIMASK)
  dropFrames, byteFull,  \* tx_drop_frame_count_, tx_byte_full_count_
  logger,                \* where the logger task is in sendBinary
  frames,                \* frames the logger task has offered
  dump,                  \* stored frame the command task is sending
  accepted, wire         \* history: bytes taken into the ring, bytes sent

vars == <<buf, head, tail, running, active, rd, left, pending, masked,
          dropFrames, byteFull, logger, frames, dump, accepted, wire>>

Slots == 0 .. TxSize - 1

(* Mutant of Wrap: wraps one slot late.                                    *)
WrapLate(x) == IF x < 0 THEN x + TxSize ELSE IF x > TxSize THEN x - TxSize ELSE x

(* x & (tx_size_ - 1) for a power of two, where x is at most one lap off.  *)
Wrap(x) == IF x < 0 THEN x + TxSize ELSE IF x >= TxSize THEN x - TxSize ELSE x

Used == Wrap(head - tail)

(* Mutant of Free: no slot stays empty.                                    *)
FreeAll == TxSize - Used

(* tx_free_space_locked: one slot always stays empty.                      *)
Free == Wrap(tail - head - 1)

(* A byte is told apart by its writer, frame number and place in the frame.*)
Byte == [by : {"log", "dump"}, frame : Nat, pos : Nat, size : Nat]

FrameBytes(who, k, n) ==
  [i \in 1 .. n |-> [by |-> who, frame |-> k, pos |-> i, size |-> n]]

Blank == [by |-> "log", frame |-> 0, pos |-> 0, size |-> 0]

-----------------------------------------------------------------------------
Init ==
  /\ buf = [p \in Slots |-> Blank]
  /\ head = 0 /\ tail = 0
  /\ running = FALSE /\ active = 0
  /\ rd = 0 /\ left = 0 /\ pending = FALSE
  /\ masked = FALSE
  /\ dropFrames = 0 /\ byteFull = 0
  /\ logger = "ready" /\ frames = 0
  /\ dump = [frame |-> 0, pos |-> 0, size |-> 0]
  /\ accepted = <<>> /\ wire = <<>>

(* push_bytes_locked: the bytes go to the slots from the head on.          *)
Push(data) ==
  /\ buf' = [p \in Slots |-> IF Wrap(p - head) < Len(data)
                             THEN data[Wrap(p - head) + 1]
                             ELSE buf[p]]
  /\ head' = Wrap(head + Len(data))
  /\ accepted' = accepted \o data

(* Mutant of ChunkSize: a transfer runs over the end of the ring.          *)
ChunkSizeOverEnd(h, t) ==
  LET run == Wrap(h - t) IN IF run > ChunkMax THEN ChunkMax ELSE run

(* Length of the contiguous run from tail t to head h, cut to one chunk.   *)
ChunkSize(h, t) ==
  LET run == IF h >= t THEN h - t ELSE TxSize - t
  IN  IF run > ChunkMax THEN ChunkMax ELSE run

(* start_tx_dma_locked and start_tx_dma_if_needed_isr, with head h, tail t *)
(* and the running flag r as the caller left them.                         *)
StartDma(h, t, r) ==
  IF r \/ t = h
  THEN /\ running' = r
       /\ active' = IF r THEN active ELSE 0
       /\ UNCHANGED <<rd, left>>
  ELSE /\ running' = TRUE
       /\ active' = ChunkSize(h, t)
       /\ rd' = t
       /\ left' = ChunkSize(h, t)

-----------------------------------------------------------------------------
(* Mutant of RefuseFrame: the bytes that fit are pushed.                   *)
RefuseFrameTail(n) ==
  /\ logger = "ready" /\ frames < MaxFrames
  /\ n > Free
  /\ frames' = frames + 1
  /\ Push(SubSeq(FrameBytes("log", frames + 1, n), 1, Free))
  /\ StartDma(Wrap(head + Free), tail, running)
  /\ UNCHANGED <<tail, pending, masked, dropFrames, byteFull, logger, dump, wire>>

(* The logger task: sendFrame -> write_frame, the frame fits.              *)
WriteFrame(n) ==
  /\ logger = "ready" /\ frames < MaxFrames
  /\ n <= Free
  /\ frames' = frames + 1
  /\ Push(FrameBytes("log", frames + 1, n))
  /\ StartDma(Wrap(head + n), tail, running)
  /\ UNCHANGED <<tail, pending, masked, dropFrames, byteFull, logger, dump, wire>>

(* write_frame, the frame does not fit: it is counted and refused, and the *)
(* early return leaves interrupts disabled.                                *)
RefuseFrame(n) ==
  /\ logger = "ready" /\ frames < MaxFrames
  /\ n > Free
  /\ frames' = frames + 1
  /\ dropFrames' = dropFrames + 1
  /\ masked' = TRUE
  /\ logger' = "dropping"
  /\ UNCHANGED <<buf, head, tail, running, active, rd, left, pending, byteFull,
                 dump, accepted, wire>>

(* Mutant of IncrementDropCount: interrupts stay disabled.                 *)
IncrementDropCountMasked ==
  /\ logger = "dropping"
  /\ logger' = "ready"
  /\ UNCHANGED <<buf, head, tail, running, active, rd, left, pending, masked,
                 dropFrames, byteFull, frames, dump, accepted, wire>>

(* sendBinary, the frame was refused: incrementDropCount.  Its             *)
(* taskEXIT_CRITICAL at nesting depth zero enables interrupts.             *)
IncrementDropCount ==
  /\ logger = "dropping"
  /\ logger' = "ready"
  /\ masked' = FALSE
  /\ UNCHANGED <<buf, head, tail, running, active, rd, left, pending,
                 dropFrames, byteFull, frames, dump, accepted, wire>>

(* The command task begins to send a stored frame.  With interrupts        *)
(* disabled there is no tick and no task switch, so it is not running.     *)
StartDump(n) ==
  /\ ~masked
  /\ dump.pos = 0 /\ dump.frame < MaxDumps
  /\ dump' = [frame |-> dump.frame + 1, pos |-> 1, size |-> n]
  /\ UNCHANGED <<buf, head, tail, running, active, rd, left, pending, masked,
                 dropFrames, byteFull, logger, frames, accepted, wire>>

(* write_byte of the next byte, there is a free slot.                      *)
WriteByte ==
  /\ ~masked
  /\ dump.pos > 0
  /\ Wrap(head + 1) # tail
  /\ Push(<<[by |-> "dump", frame |-> dump.frame,
             pos |-> dump.pos, size |-> dump.size]>>)
  /\ StartDma(Wrap(head + 1), tail, running)
  /\ dump' = [dump EXCEPT !.pos = IF @ = dump.size THEN 0 ELSE @ + 1]
  /\ UNCHANGED <<tail, pending, masked, dropFrames, byteFull, logger, frames, wire>>

(* write_byte with the ring full: counted, and write_byte_blocking tries   *)
(* the same byte again.                                                    *)
WriteByteFull ==
  /\ ~masked
  /\ dump.pos > 0
  /\ Wrap(head + 1) = tail
  /\ byteFull < MaxFull
  /\ byteFull' = byteFull + 1
  /\ UNCHANGED <<buf, head, tail, running, active, rd, left, pending, masked,
                 dropFrames, logger, frames, dump, accepted, wire>>

(* The DMA channel moves one byte to the UART data register; the last one  *)
(* raises the interrupt.                                                   *)
DmaMoveByte ==
  /\ left > 0
  /\ wire' = Append(wire, buf[rd])
  /\ rd' = rd + 1
  /\ left' = left - 1
  /\ pending' = (left = 1)
  /\ UNCHANGED <<buf, head, tail, running, active, masked, dropFrames,
                 byteFull, logger, frames, dump, accepted>>

(* Mutant of DmaIrq: the rest of the ring is not sent on.                  *)
DmaIrqNoRestart ==
  /\ pending /\ ~masked
  /\ pending' = FALSE
  /\ tail' = Wrap(tail + active)
  /\ running' = FALSE /\ active' = 0
  /\ UNCHANGED <<buf, head, rd, left, masked, dropFrames, byteFull, logger,
                 frames, dump, accepted, wire>>

(* dma_irq_trampoline and dma_irq_handler.                                 *)
DmaIrq ==
  /\ pending /\ ~masked
  /\ pending' = FALSE
  /\ tail' = Wrap(tail + active)
  /\ StartDma(head, Wrap(tail + active), FALSE)
  /\ UNCHANGED <<buf, head, masked, dropFrames, byteFull, logger, frames,
                 dump, accepted, wire>>

Next ==
  \/ \E n \in FrameSizes : WriteFrame(n) \/ RefuseFrame(n) \/ StartDump(n)
  \/ IncrementDropCount
  \/ WriteByte
  \/ WriteByteFull
  \/ DmaMoveByte
  \/ DmaIrq

(* The hardware keeps moving bytes and delivers a raised interrupt that is *)
(* not masked; a running task takes its next step.  Nobody is obliged to   *)
(* offer another frame.                                                    *)
Fairness ==
  /\ WF_vars(DmaMoveByte)
  /\ WF_vars(DmaIrq)
  /\ WF_vars(IncrementDropCount)
  /\ WF_vars(WriteByte)

Spec == Init /\ [][Next]_vars

FairSpec == Spec /\ Fairness

-----------------------------------------------------------------------------
(* Every variable has its type.                                            *)
TypeOK ==
  /\ buf \in [Slots -> Byte]
  /\ head \in Slots /\ tail \in Slots
  /\ running \in BOOLEAN /\ active \in 0 .. TxSize
  /\ rd \in 0 .. TxSize /\ left \in 0 .. TxSize /\ pending \in BOOLEAN
  /\ masked \in BOOLEAN
  /\ dropFrames \in Nat /\ byteFull \in Nat
  /\ logger \in {"ready", "dropping"} /\ frames \in Nat
  /\ dump \in [frame : Nat, pos : Nat, size : Nat]
  /\ accepted \in Seq(Byte) /\ wire \in Seq(Byte)

(* The transmit path is a bounded FIFO: the DMA channel reads exactly the  *)
(* accepted bytes, in order, once each, whatever the ring, the chunk limit *)
(* and the interrupt are doing (write_frame, write_byte, dma_irq_handler). *)
Fifo == INSTANCE ByteFifo WITH Capacity <- TxSize - 1, in <- accepted, out <- wire
ImplementsFifo == Fifo!Spec

(* A running transfer stays inside the ring memory and inside the bytes    *)
(* that were accepted and not released: the channel has no ring wrap on    *)
(* the transmit side, so start_tx_dma_locked must stop at the buffer end.  *)
DmaWindowInRing ==
  running => /\ rd + left <= TxSize
             /\ active <= Used
             /\ left <= active

(* No byte is stranded: whenever the ring holds bytes, a transfer is under *)
(* way, so its interrupt will come back for the rest.                      *)
NoStrandedBytes == head # tail => running

(* A log frame enters the stream whole and unbroken or not at all          *)
(* (write_frame checks the space before it pushes).                        *)
LogFramesUnbroken ==
  \A i \in 1 .. Len(accepted) :
    LET b == accepted[i]
    IN  b.by = "log" /\ b.pos < b.size =>
          /\ i < Len(accepted)
          /\ accepted[i + 1] = [b EXCEPT !.pos = @ + 1]

(* What EventLogger.cpp says of the stream, that it is sent frame by       *)
(* frame: no frame has foreign bytes inside it.                            *)
FramesUnbroken ==
  \A i \in 1 .. Len(accepted) - 1 :
    LET b == accepted[i]
    IN  b.pos < b.size => accepted[i + 1] = [b EXCEPT !.pos = @ + 1]

(* Every accepted byte is eventually sent, though a refused frame leaves   *)
(* interrupts disabled and the completion interrupt has to wait for it.    *)
EveryByteSent ==
  \A i \in 1 .. (MaxFrames + MaxDumps) * TxSize :
    Len(accepted) >= i ~> Len(wire) >= i

(* The command task always gets its stored frame out.                      *)
DumpFinishes == dump.pos > 0 ~> dump.pos = 0
=============================================================================
