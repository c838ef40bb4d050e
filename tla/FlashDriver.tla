----------------------------- MODULE FlashDriver -----------------------------
(***************************************************************************)
(* FlashDriver and the W25Q32 chip behind it: write enable, a program or   *)
(* erase command, and the wait for the chip, each with a deadline.         *)
(*                                                                         *)
(* Time is counted in ticks.  The task that polls can be kept off the core *)
(* for any time between two polls, so a deadline can also pass when the    *)
(* chip was in time; it is looked at before the status register is.        *)
(***************************************************************************)
EXTENDS Integers

CONSTANTS
  EnableWait,   \* WRITE_ENABLE_MS
  BusyWait,     \* WAIT_BUSY_MS
  ChipTime      \* longest time of a program or erase in the chip

(* The data sheet's 400 ms for a sector erase are less than WAIT_BUSY_MS.  *)
ASSUME DriverAssumption ==
  /\ EnableWait \in Nat \ {0}
  /\ BusyWait \in Nat \ {0}
  /\ ChipTime \in 1 .. BusyWait

VARIABLES
  chip,         \* WEL, ticks until WIP falls, and whether it took the command under way
  driver        \* where pageProgram or sectorErase is, ticks to its deadline

driverVars == <<chip, driver>>

Wip == chip.left > 0

DriverInit ==
  /\ chip = [wel |-> FALSE, left |-> 0, ran |-> FALSE]
  /\ driver = [at |-> "idle", clock |-> 0]

(* Time passes for the deadline and for the chip, which drops WEL together *)
(* with WIP.                                                               *)
Tick ==
  /\ driver.clock > 0 \/ Wip
  /\ driver' = [driver EXCEPT !.clock = IF @ > 0 THEN @ - 1 ELSE 0]
  /\ chip' = [chip EXCEPT !.left = IF @ > 0 THEN @ - 1 ELSE 0,
                          !.wel = @ /\ chip.left # 1]

(* pageProgram and sectorErase up to the loop of writeEnable: a chip at    *)
(* work ignores the command, and one at rest may miss it.  Addresses are   *)
(* valid (AppendStaysInSector of FlashLog).                                *)
WriteEnable ==
  /\ driver.at = "idle"
  /\ \E wel \in {chip.wel, TRUE} :
       /\ Wip => wel = chip.wel
       /\ chip' = [chip EXCEPT !.wel = wel]
  /\ driver' = [at |-> "enable", clock |-> EnableWait]

(* Mutant of EnableSeen: the status register is not looked at.             *)
EnableUnseen ==
  /\ driver.at = "enable" /\ driver.clock > 0
  /\ driver' = [driver EXCEPT !.at = "send"]
  /\ UNCHANGED chip

(* writeEnable sees WEL in time.                                           *)
EnableSeen ==
  /\ driver.at = "enable" /\ driver.clock > 0
  /\ chip.wel
  /\ driver' = [driver EXCEPT !.at = "send"]
  /\ UNCHANGED chip

(* The deadline of writeEnable or waitWhileBusy has passed.                *)
GiveUp ==
  /\ driver.at \in {"enable", "wait"} /\ driver.clock = 0
  /\ driver' = [driver EXCEPT !.at = "failed"]
  /\ UNCHANGED chip

(* Mutant of SendCommand: waits for the chip as long as for WEL.           *)
SendCommandShort ==
  /\ driver.at = "send"
  /\ IF Wip \/ ~chip.wel THEN UNCHANGED chip
     ELSE \E t \in 1 .. ChipTime : chip' = [chip EXCEPT !.left = t, !.ran = TRUE]
  /\ driver' = [at |-> "wait", clock |-> EnableWait]

(* The command goes out; a chip at work or without WEL ignores it.         *)
SendCommand ==
  /\ driver.at = "send"
  /\ IF Wip \/ ~chip.wel THEN UNCHANGED chip
     ELSE \E t \in 1 .. ChipTime : chip' = [chip EXCEPT !.left = t, !.ran = TRUE]
  /\ driver' = [at |-> "wait", clock |-> BusyWait]

(* waitWhileBusy sees WIP down in time.                                    *)
ReadySeen ==
  /\ driver.at = "wait" /\ driver.clock > 0
  /\ ~Wip
  /\ driver' = [driver EXCEPT !.at = "done"]
  /\ UNCHANGED chip

(* The caller has the result.                                              *)
Return ==
  /\ driver.at \in {"done", "failed"}
  /\ driver' = [at |-> "idle", clock |-> 0]
  /\ chip' = [chip EXCEPT !.ran = FALSE]

DriverStep == EnableSeen \/ GiveUp \/ SendCommand \/ ReadySeen

DriverNext == Tick \/ WriteEnable \/ DriverStep \/ Return

DriverSpec == DriverInit /\ [][DriverNext]_driverVars

-----------------------------------------------------------------------------
(* Both variables have their type.                                         *)
DriverTypeOK ==
  /\ chip \in [wel : BOOLEAN, left : 0 .. ChipTime, ran : BOOLEAN]
  /\ driver \in [at : {"idle", "enable", "send", "wait", "done", "failed"},
                 clock : 0 .. EnableWait + BusyWait]

(* When pageProgram or sectorErase says TRUE, the chip took the command    *)
(* and has finished it.                                                    *)
SuccessMeansDone == driver.at = "done" => chip.ran /\ ~Wip

(* The chip is at rest whenever the driver is, also after a failure: read, *)
(* which does not look at WIP, never meets a chip that ignores it.         *)
ReadsMeetReadyChip == driver.at = "idle" => ~Wip
=============================================================================
