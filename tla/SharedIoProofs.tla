--------------------------- MODULE SharedIoProofs ---------------------------
(***************************************************************************)
(* For every deadline, chip time, number of tries, modes and commands: the *)
(* driver's answers can be believed, and shared_io_mutex keeps I2C and a   *)
(* working flash chip apart.                                               *)
(***************************************************************************)
EXTENDS SharedIo, TLAPS

(* Why the driver can be believed: a command is only sent to a chip at     *)
(* rest with WEL set, and from then on the deadline of waitWhileBusy is    *)
(* never nearer than the end of the chip's work.                           *)
DriverShape ==
  /\ driver.at # "wait" => ~Wip
  /\ driver.at = "send" => chip.wel
  /\ driver.at = "wait" => chip.ran /\ chip.left <= driver.clock
  /\ driver.at = "done" => chip.ran

DriverInv == DriverTypeOK /\ DriverShape

(* The driver is at work only for a task that holds the mutex, and the     *)
(* flash writer holds it only with commands to go.                         *)
MutexShape ==
  /\ holder # "flash" => driver.at = "idle"
  /\ holder = "flash" => writer.at # "rest"
  /\ writer.at # "rest" => writer.left > 0

Inv == TypeOK /\ DriverShape /\ MutexShape

LEMMA Bounds ==
  /\ EnableWait \in Nat \ {0} /\ BusyWait \in Nat \ {0}
  /\ ChipTime \in Nat \ {0} /\ ChipTime <= BusyWait
  /\ RetryCount \in Nat \ {0} /\ Modes \in Nat \ {0} /\ MaxCommands \in Nat \ {0}
BY DriverAssumption, SharedIoAssumption

-----------------------------------------------------------------------------
(* Every step of driver or chip keeps the driver's invariant.              *)
LEMMA DriverStepInv == DriverInv /\ [DriverNext]_driverVars => DriverInv'
<1> SUFFICES ASSUME DriverInv, [DriverNext]_driverVars PROVE DriverInv'
  OBVIOUS
<1> USE Bounds DEF DriverInv, DriverTypeOK, DriverShape, Wip
<1>1. CASE Tick
  <2>a. /\ chip.wel \in BOOLEAN /\ chip.left \in 0 .. ChipTime /\ chip.ran \in BOOLEAN
        /\ chip = [wel |-> chip.wel, left |-> chip.left, ran |-> chip.ran]
    BY Zenon DEF DriverInv
  <2>b. chip' = [chip EXCEPT !.left = IF chip.left > 0 THEN chip.left - 1 ELSE 0,
                             !.wel = chip.wel /\ chip.left # 1]
    BY <1>1 DEF Tick
  <2>c. /\ chip'.left = (IF chip.left > 0 THEN chip.left - 1 ELSE 0)
        /\ chip'.ran = chip.ran
        /\ chip'.wel = (chip.wel /\ chip.left # 1)
        /\ chip' = [wel |-> chip'.wel, left |-> chip'.left, ran |-> chip'.ran]
    BY <2>a, <2>b, Zenon
  <2>d. chip'.left \in 0 .. ChipTime
    BY <2>a, <2>c
  <2>e. chip'.wel \in BOOLEAN /\ chip'.ran \in BOOLEAN
    BY <2>a, <2>c, Zenon
  <2>1. chip' \in [wel : BOOLEAN, left : 0 .. ChipTime, ran : BOOLEAN]
    BY <2>c, <2>d, <2>e, Zenon
  <2>2. /\ driver'.at = driver.at
        /\ driver'.clock = (IF driver.clock > 0 THEN driver.clock - 1 ELSE 0)
        /\ driver' \in [at : {"idle", "enable", "send", "wait", "done", "failed"},
                        clock : 0 .. EnableWait + BusyWait]
    BY <1>1 DEF Tick
  <2>3. driver.at = "send" => chip'.wel
    BY <2>a, <2>c
  <2> QED BY <2>1, <2>2, <2>3, <2>c
<1>2. CASE WriteEnable
  <2>1. PICK wel \in {chip.wel, TRUE} : chip' = [chip EXCEPT !.wel = wel]
    BY <1>2 DEF WriteEnable
  <2>2. wel \in BOOLEAN
    BY Zenon DEF DriverInv
  <2>3. chip' \in [wel : BOOLEAN, left : 0 .. ChipTime, ran : BOOLEAN] /\ chip'.left = chip.left
    BY <2>1, <2>2, Zenon
  <2>4. driver' = [at |-> "enable", clock |-> EnableWait] /\ driver.at = "idle"
    BY <1>2 DEF WriteEnable
  <2> QED BY <2>3, <2>4
<1>3. CASE EnableSeen
  BY <1>3 DEF EnableSeen
<1>4. CASE GiveUp
  BY <1>4 DEF GiveUp
<1>5. CASE SendCommand
  <2>1. chip.wel /\ ~Wip /\ driver.at = "send"
    BY <1>5 DEF SendCommand
  <2>2. PICK t \in 1 .. ChipTime : chip' = [chip EXCEPT !.left = t, !.ran = TRUE]
    BY <1>5, <2>1 DEF SendCommand
  <2>3. driver' = [at |-> "wait", clock |-> BusyWait]
    BY <1>5 DEF SendCommand
  <2>4. /\ chip' \in [wel : BOOLEAN, left : 0 .. ChipTime, ran : BOOLEAN]
        /\ chip'.left = t /\ chip'.ran
    <3>1. t \in 0 .. ChipTime
      OBVIOUS
    <3> QED BY <2>2, <3>1, Zenon
  <2> QED BY <2>3, <2>4
<1>6. CASE ReadySeen
  BY <1>6 DEF ReadySeen
<1>7. CASE Return
  <2>1. /\ chip' \in [wel : BOOLEAN, left : 0 .. ChipTime, ran : BOOLEAN]
        /\ chip'.left = chip.left
    BY <1>7, Zenon DEF Return
  <2>2. driver' = [at |-> "idle", clock |-> 0] /\ driver.at \in {"done", "failed"}
    BY <1>7 DEF Return
  <2> QED BY <2>1, <2>2
<1>8. CASE UNCHANGED driverVars
  BY <1>8 DEF driverVars
<1> QED BY <1>1, <1>2, <1>3, <1>4, <1>5, <1>6, <1>7, <1>8 DEF DriverNext, DriverStep

(* A step of the program is one of the driver, of the chip, or leaves both *)
(* alone.                                                                  *)
LEMMA StepsOfDriver == [Next]_vars => [DriverNext]_driverVars
<1> SUFFICES ASSUME [Next]_vars PROVE [DriverNext]_driverVars
  OBVIOUS
<1>1. CASE UNCHANGED vars
  BY <1>1 DEF vars
<1>2. CASE WriterStep
  BY <1>2 DEF WriterStep, FlashCommand, CommandDone, CommandFailed, WriterTimesOut, DriverNext
<1>3. CASE TimePasses
  BY <1>3 DEF TimePasses, DriverNext
<1>4. CASE TemperatureStep
  BY <1>4 DEF TemperatureStep, InitAdt, ReadAdt, StartDisplay, BeginCycle, TakeMode,
              ShowLines, ShowNothing
<1>5. CASE EnvironmentStep
  BY <1>5 DEF EnvironmentStep, BeginRead, ReadBme
<1>6. CASE PressButton \/ \E s \in Sensors : Attach(s) \/ Detach(s)
  BY <1>6 DEF PressButton, Attach, Detach
<1>7. CASE \E u \in Users : Take(u)
  BY <1>7 DEF Take
<1>8. CASE \E n \in 1 .. MaxCommands : StartAppend(n) \/ StartErase(n)
  BY <1>8 DEF StartAppend, StartErase
<1> QED BY <1>1, <1>2, <1>3, <1>4, <1>5, <1>6, <1>7, <1>8 DEF Next

(* Whoever has the mutex, the driver only leaves its rest, or comes back   *)
(* to it, in a step of the flash writer that has it.                       *)
LEMMA MutexStepInv == Inv /\ [Next]_vars => MutexShape'
<1> SUFFICES ASSUME Inv, [Next]_vars PROVE MutexShape'
  OBVIOUS
<1> USE Bounds DEF MutexShape
<1>0. /\ MutexShape
      /\ writer \in [at : {"rest", "append", "erase"}, left : 0 .. MaxCommands]
  BY DEF Inv, TypeOK
<1>2. CASE \E u \in Users : Take(u)
  <2>1. PICK u \in Users : Take(u)
    BY <1>2
  <2>2. holder = "none" /\ holder' = u /\ UNCHANGED <<driver, writer>>
    BY <2>1 DEF Take, driverVars
  <2>3. u = "flash" => writer.at # "rest"
    BY <2>1 DEF Take, Wants
  <2> QED BY <1>0, <2>2, <2>3
<1>3. CASE \E n \in 1 .. MaxCommands : StartAppend(n) \/ StartErase(n)
  <2>1. PICK n \in 1 .. MaxCommands :
          writer' \in {[at |-> "append", left |-> n], [at |-> "erase", left |-> n]}
    BY <1>3 DEF StartAppend, StartErase
  <2>2. UNCHANGED <<driver, holder>>
    BY <1>3 DEF StartAppend, StartErase, driverVars
  <2> QED BY <1>0, <2>1, <2>2
<1>4. CASE FlashCommand
  <2>1. holder = "flash" /\ UNCHANGED <<holder, writer>>
    BY <1>4 DEF FlashCommand
  <2> QED BY <1>0, <2>1
<1>5. CASE CommandDone \/ CommandFailed
  <2>1. holder' = "none" /\ driver'.at = "idle"
    BY <1>5 DEF CommandDone, CommandFailed, Release, Return
  <2>3. CommandDone => writer' = IF writer.left = 1 THEN Finished ELSE [writer EXCEPT !.left = @ - 1]
    BY DEF CommandDone
  <2>4. CommandFailed => writer' = Finished
    BY DEF CommandFailed
  <2>5. holder = "flash"
    BY <1>5 DEF CommandDone, CommandFailed
  <2>6. writer'.at # "rest" => writer'.left > 0
    BY <1>0, <1>5, <2>3, <2>4, <2>5 DEF Finished
  <2> QED BY <2>1, <2>6
<1>6. CASE WriterTimesOut
  <2>1. /\ holder # "flash" /\ holder' = holder
        /\ writer' = Finished /\ UNCHANGED driver
    BY <1>6 DEF WriterTimesOut, TimedOut, Release, driverVars
  <2> QED BY <1>0, <2>1 DEF Finished
<1>7. CASE TimePasses
  <2>1. driver'.at = driver.at
    <3>1. driver \in [at : {"idle", "enable", "send", "wait", "done", "failed"},
                         clock : 0 .. EnableWait + BusyWait]
      BY DEF Inv, TypeOK, DriverTypeOK
    <3> QED BY <1>7, <3>1 DEF TimePasses, Tick
  <2>2. UNCHANGED <<holder, writer>>
    BY <1>7 DEF TimePasses
  <2> QED BY <1>0, <2>1, <2>2
<1>8. CASE TemperatureStep \/ EnvironmentStep
  <2>1. holder' = holder \/ (holder \in {"temperature", "environment"} /\ holder' = "none")
    BY <1>8 DEF TemperatureStep, InitAdt, ReadAdt, StartDisplay, BeginCycle, TakeMode,
                ShowLines, ShowNothing, EnvironmentStep, BeginRead, ReadBme, Release
  <2>2. UNCHANGED <<driver, writer>>
    BY <1>8 DEF TemperatureStep, InitAdt, ReadAdt, StartDisplay, BeginCycle, TakeMode,
                ShowLines, ShowNothing, EnvironmentStep, BeginRead, ReadBme, driverVars
  <2> QED BY <1>0, <2>1, <2>2
<1>9. CASE PressButton \/ (\E s \in Sensors : Attach(s) \/ Detach(s)) \/ UNCHANGED vars
  BY <1>0, <1>9 DEF PressButton, Attach, Detach, vars, driverVars
<1> QED BY <1>2, <1>3, <1>4, <1>5, <1>6, <1>7, <1>8, <1>9 DEF Next, WriterStep
-----------------------------------------------------------------------------
Temperatures == [at : {"start", "loop", "init", "read", "mode", "show"},
                 try : 0 .. RetryCount, valid : BOOLEAN]
Environments == [at : {"loop", "read"}, try : 0 .. RetryCount]

(* The steps of the sensor tasks keep the types of what they own.          *)
LEMMA TemperatureTypes ==
  ASSUME TypeOK, TemperatureStep
  PROVE  /\ temperature' \in Temperatures
         /\ adtReady' \in BOOLEAN
         /\ current' \in 0 .. Modes - 1 /\ modeQueue' \subseteq 0 .. Modes - 1
         /\ holder' \in {holder, "none"}
         /\ UNCHANGED <<driverVars, busy, writer, attached, bmeReady, envVars, mode>>
<1> USE Bounds DEF Temperatures
<1>0. /\ temperature \in Temperatures /\ adtReady \in BOOLEAN
      /\ current \in 0 .. Modes - 1 /\ modeQueue \subseteq 0 .. Modes - 1
  BY DEF TypeOK
<1>1. ASSUME NEW ok \in BOOLEAN, InitAdt(ok)
      PROVE  /\ temperature' \in Temperatures /\ adtReady' \in BOOLEAN
             /\ UNCHANGED <<current, modeQueue>> /\ holder' \in {holder, "none"}
             /\ UNCHANGED <<driverVars, busy, writer, attached, bmeReady, envVars, mode>>
  <2>1. PICK at \in {"read", "show"} : temperature' = [temperature EXCEPT !.at = at]
    BY <1>1 DEF InitAdt
  <2>2. temperature' \in Temperatures
    BY <1>0, <2>1
  <2> QED BY <1>1, <2>2 DEF InitAdt, Release, worldVars, buttonVars
<1>2. ASSUME NEW ok \in BOOLEAN, ReadAdt(ok)
      PROVE  /\ temperature' \in Temperatures /\ adtReady' \in BOOLEAN
             /\ UNCHANGED <<current, modeQueue>> /\ holder' \in {holder, "none"}
             /\ UNCHANGED <<driverVars, busy, writer, attached, bmeReady, envVars, mode>>
  <2>1. CASE ~ok /\ temperature.try < RetryCount
    <3>1. temperature' = [temperature EXCEPT !.try = temperature.try + 1] /\ adtReady' = adtReady
      BY <1>2, <2>1 DEF ReadAdt
    <3>2. temperature.try + 1 \in 0 .. RetryCount
      BY <1>0, <2>1
    <3>3. temperature' \in Temperatures
      BY <1>0, <3>1, <3>2
    <3> QED BY <1>0, <1>2, <3>1, <3>3 DEF ReadAdt, Release, worldVars, buttonVars
  <2>2. CASE ~(~ok /\ temperature.try < RetryCount)
    <3>1. temperature' = [temperature EXCEPT !.at = "mode", !.try = 0, !.valid = ok] /\ adtReady' = ok
      BY <1>2, <2>2 DEF ReadAdt
    <3>2. 0 \in 0 .. RetryCount
      OBVIOUS
    <3>3. temperature' \in Temperatures
      BY <1>0, <3>1, <3>2, Zenon
    <3> QED BY <1>0, <1>2, <3>1, <3>3 DEF ReadAdt, Release, worldVars, buttonVars
  <2> QED BY <2>1, <2>2
<1>3. CASE StartDisplay
  BY <1>0, <1>3 DEF StartDisplay, Release, worldVars, buttonVars
<1>4. CASE BeginCycle
  <2>1. 1 \in 0 .. RetryCount /\ FALSE \in BOOLEAN
    OBVIOUS
  <2>2. temperature' \in Temperatures
    BY <1>4, <2>1, Zenon DEF BeginCycle
  <2>3. UNCHANGED <<holder, adtReady, current>>
    BY <1>4 DEF BeginCycle
  <2>4. UNCHANGED <<modeQueue, driverVars, busy, writer, attached, bmeReady, envVars, mode>>
    BY <1>4 DEF BeginCycle, worldVars, buttonVars
  <2> QED BY <1>0, <2>2, <2>3, <2>4
<1>5. CASE TakeMode
  <2>1. current' \in 0 .. Modes - 1 /\ modeQueue' = {}
    BY <1>0, <1>5 DEF TakeMode
  <2>2. temperature' = [temperature EXCEPT !.at = "show", !.try = 0, !.valid = FALSE]
    BY <1>5 DEF TakeMode
  <2>3. temperature' \in Temperatures
    <3>1. 0 \in 0 .. RetryCount
      OBVIOUS
    <3> QED BY <1>0, <2>2, <3>1, Zenon
  <2> QED BY <1>0, <1>5, <2>1, <2>3 DEF TakeMode, worldVars
<1>6. CASE ShowLines \/ ShowNothing
  <2>1. 0 \in 0 .. RetryCount /\ temperature' = [at |-> "loop", try |-> 0, valid |-> FALSE]
    BY <1>6 DEF ShowLines, ShowNothing
  <2>2. temperature' \in Temperatures
    BY <2>1, Zenon
  <2>3. UNCHANGED <<adtReady, current, modeQueue, mode>> /\ holder' \in {holder, "none"}
    BY <1>6 DEF ShowLines, ShowNothing, Release, buttonVars
  <2>4. UNCHANGED <<driverVars, busy, writer, attached, bmeReady, envVars>>
    BY <1>6 DEF ShowLines, ShowNothing, worldVars
  <2> QED BY <1>0, <2>2, <2>3, <2>4
<1> QED BY <1>0, <1>1, <1>2, <1>3, <1>4, <1>5, <1>6 DEF TemperatureStep

LEMMA EnvironmentTypes ==
  ASSUME TypeOK, EnvironmentStep
  PROVE  /\ environment' \in Environments
         /\ latest' \in [valid : BOOLEAN, measured : BOOLEAN]
         /\ holder' \in {holder, "none"}
         /\ UNCHANGED <<driverVars, busy, writer, worldVars, tempVars, buttonVars>>
<1> USE Bounds DEF Environments
<1>0. /\ environment \in Environments /\ bmeReady \in BOOLEAN
      /\ latest \in [valid : BOOLEAN, measured : BOOLEAN]
  BY DEF TypeOK
<1>1. CASE BeginRead
  BY <1>0, <1>1 DEF BeginRead
<1>2. ASSUME NEW ok \in BOOLEAN, ReadBme(ok)
      PROVE  /\ environment' \in Environments
             /\ latest' \in [valid : BOOLEAN, measured : BOOLEAN]
             /\ holder' \in {holder, "none"}
             /\ UNCHANGED <<driverVars, busy, writer, worldVars, tempVars, buttonVars>>
  <2>1. environment' \in Environments
    BY <1>0, <1>2 DEF ReadBme
  <2>2. latest' \in [valid : BOOLEAN, measured : BOOLEAN]
    BY <1>0, <1>2, Zenon DEF ReadBme, Published
  <2> QED BY <1>2, <2>1, <2>2 DEF ReadBme, Release
<1> QED BY <1>1, <1>2 DEF EnvironmentStep

(* The initial state satisfies the invariant.                              *)
LEMMA InitInv == Init => Inv
<1> SUFFICES ASSUME Init PROVE Inv
  OBVIOUS
<1> USE Bounds DEF Init, DriverInit
<1>1. DriverTypeOK /\ DriverShape
  BY DEF DriverTypeOK, DriverShape, Wip
<1>2. MutexShape
  BY DEF MutexShape
<1>3. 0 \in 0 .. RetryCount /\ 0 \in 0 .. MaxCommands /\ 0 \in 0 .. Modes - 1
  OBVIOUS
<1>4. /\ writer \in [at : {"rest", "append", "erase"}, left : 0 .. MaxCommands]
      /\ temperature \in Temperatures /\ environment \in Environments
      /\ latest \in [valid : BOOLEAN, measured : BOOLEAN]
  BY <1>3, Zenon DEF Temperatures, Environments
<1>5. TypeOK
  BY <1>1, <1>3, <1>4 DEF TypeOK, Temperatures, Environments, BmeInit
<1> QED BY <1>1, <1>2, <1>5 DEF Inv

(* Every step keeps every type.                                            *)
LEMMA TypeStep == Inv /\ [Next]_vars => TypeOK'
<1> SUFFICES ASSUME Inv, [Next]_vars PROVE TypeOK'
  OBVIOUS
<1> USE Bounds
<1>0. TypeOK /\ DriverInv
  BY DEF Inv, DriverInv, TypeOK
<1>1. DriverTypeOK'
  BY <1>0, DriverStepInv, StepsOfDriver DEF DriverInv
<1>2. CASE TemperatureStep
  BY <1>0, <1>1, <1>2, TemperatureTypes DEF TypeOK, Temperatures, envVars
<1>3. CASE EnvironmentStep
  BY <1>0, <1>1, <1>3, EnvironmentTypes DEF TypeOK, Environments, worldVars, tempVars, buttonVars
<1>4. CASE \E u \in Users : Take(u)
  BY <1>0, <1>1, <1>4 DEF TypeOK, Take, worldVars, tempVars, envVars, buttonVars
<1>5. CASE \E n \in 1 .. MaxCommands : StartAppend(n) \/ StartErase(n)
  <2>1. PICK n \in 1 .. MaxCommands : StartAppend(n) \/ StartErase(n)
    BY <1>5
  <2>2. writer' \in [at : {"rest", "append", "erase"}, left : 0 .. MaxCommands]
    BY <2>1 DEF StartAppend, StartErase
  <2>3. busy' \in BOOLEAN
    BY <1>0, <2>1 DEF StartAppend, StartErase, TypeOK
  <2>4. UNCHANGED <<holder, worldVars, tempVars, envVars, buttonVars>>
    BY <2>1 DEF StartAppend, StartErase
  <2> QED BY <1>0, <1>1, <2>2, <2>3, <2>4 DEF TypeOK, worldVars, tempVars, envVars, buttonVars
<1>6. CASE WriterStep
  <2>1. UNCHANGED <<worldVars, tempVars, envVars, buttonVars>> /\ holder' \in {holder, "none"}
    BY <1>6 DEF WriterStep, FlashCommand, CommandDone, CommandFailed, WriterTimesOut, Release
  <2>2. busy' \in BOOLEAN
    BY <1>0, <1>6 DEF WriterStep, FlashCommand, CommandDone, CommandFailed, WriterTimesOut, TypeOK
  <2>3. writer' \in [at : {"rest", "append", "erase"}, left : 0 .. MaxCommands]
    <3>1. \/ writer' = writer \/ writer' = Finished
          \/ /\ writer' = [writer EXCEPT !.left = writer.left - 1]
             /\ writer.at # "rest" /\ writer.left # 1
      BY <1>6 DEF WriterStep, FlashCommand, CommandDone, CommandFailed, WriterTimesOut,
                  Inv, MutexShape
    <3>2. writer.at # "rest" => writer.left > 0
      BY DEF Inv, MutexShape
    <3>3. writer \in [at : {"rest", "append", "erase"}, left : 0 .. MaxCommands]
      BY <1>0 DEF TypeOK
    <3> QED BY <3>1, <3>2, <3>3 DEF Finished
  <2> QED BY <1>0, <1>1, <2>1, <2>2, <2>3 DEF TypeOK, worldVars, tempVars, envVars, buttonVars
<1>7. CASE TimePasses
  BY <1>0, <1>1, <1>7 DEF TypeOK, TimePasses, worldVars, tempVars, envVars, buttonVars
<1>8. CASE PressButton
  <2>1. mode' \in 0 .. Modes - 1 /\ modeQueue' = {mode'}
    BY <1>0, <1>8 DEF PressButton, TypeOK
  <2> QED BY <1>0, <1>1, <1>8, <2>1 DEF TypeOK, PressButton, worldVars, tempVars, envVars
<1>9. CASE \E s \in Sensors : Attach(s) \/ Detach(s)
  BY <1>0, <1>1, <1>9 DEF TypeOK, Attach, Detach, Sensors, tempVars, envVars, buttonVars
<1>10. CASE UNCHANGED vars
  BY <1>0, <1>1, <1>10 DEF TypeOK, vars, worldVars, tempVars, envVars, buttonVars
<1> QED BY <1>2, <1>3, <1>4, <1>5, <1>6, <1>7, <1>8, <1>9, <1>10 DEF Next

LEMMA StepInv == Inv /\ [Next]_vars => Inv'
<1> SUFFICES ASSUME Inv, [Next]_vars PROVE Inv'
  OBVIOUS
<1>1. DriverInv
  BY DEF Inv, DriverInv, TypeOK
<1>2. DriverShape'
  BY <1>1, DriverStepInv, StepsOfDriver DEF DriverInv
<1> QED BY <1>2, MutexStepInv, TypeStep DEF Inv

LEMMA InvHolds == Spec => []Inv
<1> QED BY InitInv, StepInv, PTL DEF Spec

-----------------------------------------------------------------------------
(* Driver, tasks, sensors and queue keep their types.                      *)
THEOREM TypeCorrect == Spec => []TypeOK
<1>1. Inv => TypeOK
  BY DEF Inv
<1> QED BY <1>1, InvHolds, PTL

(* When pageProgram or sectorErase returns TRUE the chip has done it,      *)
(* however long the task was kept off the core between two polls.          *)
THEOREM DriverTellsTruth == Spec => []SuccessMeansDone
<1>1. Inv => SuccessMeansDone
  BY DEF Inv, DriverShape, SuccessMeansDone
<1> QED BY <1>1, InvHolds, PTL

(* Also after a command that was given up, the next one or a read finds    *)
(* the chip at rest, provided the chip keeps to ChipTime <= BusyWait.      *)
THEOREM ChipAtRest == Spec => []ReadsMeetReadyChip
<1>1. Inv => ReadsMeetReadyChip
  BY DEF Inv, DriverShape, ReadsMeetReadyChip
<1> QED BY <1>1, InvHolds, PTL

(* What shared_io_mutex is for: no I2C transfer while the chip programs or *)
(* erases.                                                                 *)
THEOREM BusAndFlashApart == Spec => []NoI2cDuringFlashWrite
<1>1. Inv => NoI2cDuringFlashWrite
  BY DEF Inv, DriverShape, MutexShape, NoI2cDuringFlashWrite
<1> QED BY <1>1, InvHolds, PTL
=============================================================================
