------------------------------- MODULE MCParts -------------------------------
(* FlashLog, and four parts of the program that share no state with it nor *)
(* with each other.  A behaviour exercises one of them: interleaved with   *)
(* another it would go through the same states.  The storage is exercised  *)
(* with frames of all lengths while nothing fails, and with frames of less *)
(* than a page while power and flash commands fail.                        *)
EXTENDS MCFlashLog, LogViewer, CommandLine, MovingAverage, Bme280

VARIABLE part   \* the part at work

partsVars == <<part, vars, viewerVars, lineVars, averageVars, bmeVars>>

Example ==
  [T1 |-> 27504, T2 |-> 26435, T3 |-> -1000,
   H1 |-> 75, H2 |-> 362, H3 |-> 0, H4 |-> 313, H5 |-> 50, H6 |-> 30]

(* The calibration of the data sheet's example, and one with a negative H5.*)
TwoSensors ==
  {Example, [Example EXCEPT !.T1 = 28300, !.T2 = 26100, !.T3 = 50,
                            !.H3 = 1, !.H4 = 330, !.H5 = -7]}

AcrossT == {75000 * i : i \in 0 .. 13} \cup {2 ^ 20 - 1}
AcrossH == {8000 * i : i \in 0 .. 8} \cup {2 ^ 16 - 1}

PartsInit ==
  /\ part \in {"storage", "failing", "viewer", "line", "average", "bme"}
  /\ Init /\ ViewerInit /\ LineInit /\ AverageInit /\ BmeInit
  /\ part # "average" => window = 1
  /\ part # "bme" => sensor = Example

PartsNext ==
  /\ \/ /\ Next
        /\ \/ part = "storage" /\ faults' = 0
           \/ part = "failing" /\ op'.len <= PageSize
        /\ UNCHANGED <<viewerVars, lineVars, averageVars, bmeVars>>
     \/ part = "viewer" /\ ViewerNext /\ UNCHANGED <<vars, lineVars, averageVars, bmeVars>>
     \/ part = "line" /\ LineNext /\ UNCHANGED <<vars, viewerVars, averageVars, bmeVars>>
     \/ part = "average" /\ AverageNext /\ UNCHANGED <<vars, viewerVars, lineVars, bmeVars>>
     \/ part = "bme" /\ BmeNext /\ UNCHANGED <<vars, viewerVars, lineVars, averageVars>>
  /\ UNCHANGED part

PartsSpec == PartsInit /\ [][PartsNext]_partsVars
=============================================================================
