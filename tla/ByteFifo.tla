------------------------------ MODULE ByteFifo ------------------------------
(***************************************************************************)
(* What the UART transmit path promises its callers: a bounded first-in    *)
(* first-out pipe.  Bytes that were accepted leave on the wire once each,  *)
(* in the order in which they were accepted, and no more than Capacity     *)
(* accepted bytes are ever outstanding.                                    *)
(***************************************************************************)
EXTENDS Integers, Sequences

CONSTANT Capacity     \* most bytes accepted but not yet on the wire

VARIABLES in,         \* every byte accepted so far
          out         \* every byte put on the wire so far

vars == <<in, out>>

Init ==
  /\ in = <<>>
  /\ out = <<>>

(* A caller hands over one or more bytes, all or nothing.                  *)
Put ==
  /\ Len(in') > Len(in)
  /\ SubSeq(in', 1, Len(in)) = in
  /\ Len(in') - Len(out) <= Capacity
  /\ out' = out

(* The next accepted byte reaches the wire.                                *)
Deliver ==
  /\ Len(out) < Len(in)
  /\ out' = Append(out, in[Len(out) + 1])
  /\ in' = in

Next == Put \/ Deliver

Spec == Init /\ [][Next]_vars

=============================================================================
