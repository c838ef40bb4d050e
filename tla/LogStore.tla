------------------------------ MODULE LogStore ------------------------------
(***************************************************************************)
(* What the flash log promises: the stored frames form a list, oldest      *)
(* first.  New frames join at the young end; room is made only at the old  *)
(* end, at most one sector's worth at a time; anything else is lost only   *)
(* while somebody is wiping the log on purpose.                            *)
(***************************************************************************)
EXTENDS Integers, Sequences, FiniteSets

CONSTANT SectorFrames     \* most frames one sector can hold

VARIABLES log,            \* the stored frames, oldest first
          wiping          \* the log area is being erased on purpose

vars == <<log, wiping>>

Init == log = <<>> /\ wiping = FALSE

(* What is left of the list when the places in lost disappear.             *)
Without(lost) ==
  LET kept == (1 .. Len(log)) \ lost
      place(i) == CHOOSE j \in kept : Cardinality({k \in kept : k <= j}) = i
  IN  [i \in 1 .. Cardinality(kept) |-> log[place(i)]]

(* A frame is stored.                                                      *)
Store ==
  /\ Len(log') = Len(log) + 1
  /\ SubSeq(log', 1, Len(log)) = log
  /\ wiping' = wiping

(* Room is made: some or all of the SectorFrames oldest frames disappear.  *)
Evict ==
  /\ \E lost \in SUBSET (1 .. (IF Len(log) < SectorFrames
                               THEN Len(log) ELSE SectorFrames)) :
       lost # {} /\ log' = Without(lost)
  /\ ~wiping /\ wiping' = wiping

(* A deliberate wipe begins, loses frames anywhere, and ends.              *)
StartWipe == ~wiping /\ wiping' = TRUE /\ log' = log

Lose ==
  /\ wiping /\ wiping' = wiping
  /\ \E lost \in SUBSET (1 .. Len(log)) : lost # {} /\ log' = Without(lost)

StopWipe ==
  /\ wiping /\ wiping' = FALSE
  /\ \E lost \in SUBSET (1 .. Len(log)) : log' = Without(lost)

Next == Store \/ Evict \/ StartWipe \/ Lose \/ StopWipe

Spec == Init /\ [][Next]_vars
=============================================================================
