------------------------------ MODULE LogViewer ------------------------------
(***************************************************************************)
(* debug/logger_viewer.py: the host program that finds the frames built by *)
(* EventLogger::buildFrame in a stream of bytes, checks each CRC and keeps *)
(* account of the sequence numbers.  A few short frames are sent, one run  *)
(* of bytes is lost on the way, and then the viewer reads.                 *)
(*                                                                         *)
(* A cell of the stream is a byte with its origin: byte off of frame of.   *)
(* Small frames stand for the real ones: two bytes of magic, one of        *)
(* sequence number, one of length, the payload and one byte of CRC.  A     *)
(* CRC matches exactly when its bytes are those of one whole frame.        *)
(***************************************************************************)
EXTENDS Naturals, SequencesExt, FiniteSetsExt

CONSTANT MaxSent   \* bound: frames in a stream

VARIABLES
  sent,    \* the cells sent
  cut,     \* the bytes behind the first cut[1], up to number cut[2], are lost
  place,   \* cells of the stream read so far; 0 while it is not read yet
  shown,   \* sequence numbers of the frames with a good CRC
  stats    \* Stats

viewerVars == <<sent, cut, place, shown, stats>>

Magic0 == 8
Magic1 == 9
HeaderLen == 2
CrcLen == 1

(* Magic1 is the largest byte, and the numbers of the frames are bytes.    *)
ASSUME ViewerAssumption == MaxSent \in 0 .. Magic1

(* The longest a frame can claim to be: the largest byte as its length.    *)
Longest == 2 + HeaderLen + Magic1 + CrcLen

-----------------------------------------------------------------------------
(* EventLogger::buildFrame.                                                *)
FrameBytes(seq, payload, crc) ==
  <<Magic0, Magic1, seq, Len(payload)>> \o payload \o <<crc>>

Cells(seq, payload, crc) ==
  LET bytes == FrameBytes(seq, payload, crc)
  IN  [i \in DOMAIN bytes |-> [v |-> bytes[i], of |-> seq, off |-> i, last |-> i = Len(bytes)]]

-----------------------------------------------------------------------------
(* Mutant of MagicAt: a first magic byte that follows another is taken for *)
(* the end of a failed match.                                              *)
MagicAtFirst(st, p, i) ==
  /\ p <= i /\ i < Len(st)
  /\ st[i].v = Magic0 /\ st[i + 1].v = Magic1
  /\ i > p => st[i - 1].v # Magic0

(* sync_to_magic, begun at p.                                              *)
MagicAt(st, p, i) ==
  /\ p <= i /\ i < Len(st)
  /\ st[i].v = Magic0 /\ st[i + 1].v = Magic1

Synced(st, p) == {i \in DOMAIN st : MagicAt(st, p, i)}

LengthOf(st, s) == st[s + 1 + HeaderLen].v

(* The last byte that read_frame takes of a frame whose magic is at s.     *)
EndOf(st, s) == s + 1 + HeaderLen + LengthOf(st, s) + CrcLen

(* read_exact gives up at the end of the stream.                           *)
Readable(st, s) == s + 1 + HeaderLen <= Len(st) /\ EndOf(st, s) <= Len(st)

CrcOk(st, s) ==
  /\ st[EndOf(st, s)].last
  /\ \A i \in s .. EndOf(st, s) : st[i].of = st[s].of /\ st[i].off = i - s + 1

Read(st, s) == [seq |-> st[s + 2].v, crcOk |-> CrcOk(st, s)]

-----------------------------------------------------------------------------
NoneExpected == 0   \* expected_seq = None; sequence numbers start at 1 here

NewStats == [expected |-> NoneExpected, gap |-> 0, late |-> 0, dup |-> 0, ng |-> 0]

(* update_seq_stats.                                                       *)
UpdateSeq(seq) ==
  CASE stats.expected \in {NoneExpected, seq} -> [stats EXCEPT !.expected = seq + 1]
    [] stats.expected # NoneExpected /\ seq > stats.expected ->
         [stats EXCEPT !.expected = seq + 1, !.gap = @ + (seq - stats.expected)]
    [] seq + 1 = stats.expected -> [stats EXCEPT !.dup = @ + 1]
    [] OTHER -> [stats EXCEPT !.late = @ + 1]

(* Mutant of Counted: a frame with a bad CRC sets the next number, too.    *)
CountedAnyway(frame) ==
  IF frame.crcOk THEN UpdateSeq(frame.seq)
  ELSE [UpdateSeq(frame.seq) EXCEPT !.ng = @ + 1]

(* The loop of main.                                                       *)
Counted(frame) ==
  IF frame.crcOk THEN UpdateSeq(frame.seq)
  ELSE [stats EXCEPT !.ng = @ + 1, !.expected = NoneExpected]

-----------------------------------------------------------------------------
(* No payload contains the whole magic; halves of it may stand anywhere.   *)
Kinds == {[payload |-> <<>>, crc |-> Magic0],
          [payload |-> <<Magic0>>, crc |-> 0],
          [payload |-> <<0, Magic1>>, crc |-> Magic0]}

Whole == <<0, 0>>   \* nothing is lost yet

ViewerInit ==
  sent = <<>> /\ cut = Whole /\ place = 0 /\ shown = {} /\ stats = NewStats

SentCount == IF sent = <<>> THEN 0 ELSE Last(sent).of

Send(kind) ==
  /\ SentCount < MaxSent
  /\ sent' = sent \o Cells(SentCount + 1, kind.payload, kind.crc)
  /\ UNCHANGED <<cut, place, shown, stats>>

Lose ==
  /\ SentCount = MaxSent /\ place = 0 /\ cut = Whole
  /\ \E k \in 0 .. Len(sent) : \E m \in k + 1 .. Len(sent) : cut' = <<k, m>>
  /\ UNCHANGED <<sent, place, shown, stats>>

Stream == SubSeq(sent, 1, cut[1]) \o SubSeq(sent, cut[2] + 1, Len(sent))

Found == Synced(Stream, place + 1)
More == Found # {} /\ Readable(Stream, Min(Found))

(* One round of the loop of main.                                          *)
ReadFrame ==
  /\ SentCount = MaxSent /\ More
  /\ LET s == Min(Found)
         frame == Read(Stream, s)
     IN  /\ place' = EndOf(Stream, s)
         /\ shown' = IF frame.crcOk THEN shown \cup {frame.seq} ELSE shown
         /\ stats' = Counted(frame)
  /\ UNCHANGED <<sent, cut>>

ViewerNext == Lose \/ ReadFrame \/ \E kind \in Kinds : Send(kind)

ViewerSpec == ViewerInit /\ [][ViewerNext]_viewerVars

-----------------------------------------------------------------------------
StartsAt(n) == CHOOSE i \in DOMAIN sent : sent[i].of = n /\ sent[i].off = 1
EndsAt(n) == CHOOSE i \in DOMAIN sent : sent[i].of = n /\ sent[i].last

(* After a loss of any run of bytes the viewer finds the next frames: once *)
(* it has read all, it has shown every frame that was over before the loss *)
(* and every frame that begins further behind it than the longest frame    *)
(* reaches, wherever in a frame, a length or half a magic the loss begins  *)
(* and ends.                                                               *)
ViewerRecovers ==
  SentCount = MaxSent /\ ~More => \A n \in 1 .. MaxSent :
    EndsAt(n) <= cut[1] \/ StartsAt(n) > cut[2] + Longest => n \in shown

(* The viewer never counts more numbers as missing than frames it did not  *)
(* get, and none as late or duplicate; and if no frame had a bad CRC, it   *)
(* misses none between the first and the last it shows.                    *)
GapsAreLosses ==
  LET lost == {n \in (1 .. MaxSent) \ shown : \E a, b \in shown : a < n /\ n < b}
  IN  /\ stats.late = 0 /\ stats.dup = 0
      /\ stats.gap <= Cardinality(lost)
      /\ stats.ng = 0 => stats.gap = Cardinality(lost)
=============================================================================
