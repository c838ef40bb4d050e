------------------------------ MODULE SharedIo ------------------------------
(***************************************************************************)
(* Everything that shares shared_io_mutex: the flash writer (the logger    *)
(* task in append or the command task in eraseLogArea, one at a time       *)
(* because both hold mutex_), and the temperature and environment tasks    *)
(* with their sensors and the LCD on the I2C bus.  With them go the flag   *)
(* g_flash_maintenance_busy, the values the environment task publishes and *)
(* the queue from the button to the display.                               *)
(*                                                                         *)
(* A wait for the mutex is given up after 1000 ms.  How long the others    *)
(* hold it is left open: a wait may end whenever somebody else has it.     *)
(***************************************************************************)
EXTENDS FlashDriver

CONSTANTS
  RetryCount,   \* RETRY_COUNT
  Modes,        \* DisplayMode::Max
  MaxCommands   \* bound: flash commands of one append or erase

ASSUME SharedIoAssumption ==
  /\ RetryCount \in Nat \ {0} /\ Modes \in Nat \ {0}
  /\ MaxCommands \in Nat \ {0}

VARIABLES
  holder,       \* who holds shared_io_mutex
  busy,         \* g_flash_maintenance_busy
  writer,       \* the flash writer: what it does, and commands to go
  attached,     \* sensors on the bus and powered
  adtReady,     \* initialized_ of AEADT7410
  bmeReady,     \* BME280::init succeeded and the chip has kept its set-up
  temperature,  \* temperature_task: where it is, its try, its valid
  environment,  \* environment_task: where it is, its try
  latest,       \* g_env_data: its valid, and whether the values were measured
  mode,         \* mode of button_task
  modeQueue,    \* display_mode_queue, of length one
  current       \* current_mode of temperature_task

tempVars == <<adtReady, temperature, current>>
envVars == <<environment, latest>>
buttonVars == <<mode, modeQueue>>
worldVars == <<attached, bmeReady>>
vars == <<driverVars, holder, busy, writer, worldVars, tempVars, envVars, buttonVars>>

Users == {"flash", "temperature", "environment"}
Sensors == {"adt7410", "bme280"}

(* What each waits for: the mutex.                                         *)
Wants(u) ==
  CASE u = "flash" -> writer.at # "rest"
    [] u = "temperature" -> temperature.at \in {"start", "init", "read", "show"}
    [] u = "environment" -> environment.at = "read"

(* BME280::init: chip id, calibration, reset and set-up, each may fail.    *)
BmeInit == bmeReady \in BOOLEAN /\ (bmeReady => "bme280" \in attached)

(* main: BME280::init has run and the tasks start.                         *)
Init ==
  /\ DriverInit
  /\ holder = "none"
  /\ busy = FALSE
  /\ writer = [at |-> "rest", left |-> 0]
  /\ attached \in SUBSET Sensors
  /\ BmeInit
  /\ adtReady = FALSE
  /\ temperature = [at |-> "start", try |-> 0, valid |-> FALSE]
  /\ environment = [at |-> "loop", try |-> 0]
  /\ latest = [valid |-> FALSE, measured |-> FALSE]
  /\ mode = 0 /\ modeQueue = {} /\ current = 0

-----------------------------------------------------------------------------
(* shared_io_mutex.                                                        *)
(* Mutant of Take: somebody else's hold is not waited for.                 *)
TakeAnyway(u) ==
  /\ holder # u /\ Wants(u)
  /\ holder' = u
  /\ UNCHANGED <<driverVars, busy, writer, worldVars, tempVars, envVars, buttonVars>>

(* xSemaphoreTake.                                                         *)
Take(u) ==
  /\ holder = "none" /\ Wants(u)
  /\ holder' = u
  /\ UNCHANGED <<driverVars, busy, writer, worldVars, tempVars, envVars, buttonVars>>

(* xSemaphoreGive by u, or the end of its wait.                            *)
Release(u) == holder' = IF holder = u THEN "none" ELSE holder

(* The 1000 ms of u are over.                                              *)
TimedOut(u) == Wants(u) /\ holder \notin {"none", u}

(* A transfer of u ends well or not; without the device it never does.     *)
Transferred(u, device, ok) ==
  \/ /\ holder = u
     /\ ok => device \in attached
  \/ TimedOut(u) /\ ~ok

-----------------------------------------------------------------------------
(* The flash writer: append, or eraseLogArea with the busy flag raised.    *)
StartAppend(n) ==
  /\ writer.at = "rest"
  /\ writer' = [at |-> "append", left |-> n]
  /\ UNCHANGED <<driverVars, holder, busy, worldVars, tempVars, envVars, buttonVars>>

StartErase(n) ==
  /\ writer.at = "rest"
  /\ writer' = [at |-> "erase", left |-> n]
  /\ busy' = TRUE
  /\ UNCHANGED <<driverVars, holder, worldVars, tempVars, envVars, buttonVars>>

(* The driver runs while its caller holds the mutex.                       *)
FlashCommand ==
  /\ holder = "flash"
  /\ WriteEnable \/ DriverStep
  /\ UNCHANGED <<holder, busy, writer, worldVars, tempVars, envVars, buttonVars>>

TimePasses ==
  /\ Tick
  /\ UNCHANGED <<holder, busy, writer, worldVars, tempVars, envVars, buttonVars>>

Finished == [at |-> "rest", left |-> 0]

(* A command succeeded: the mutex is given back, the loop goes on or ends. *)
CommandDone ==
  /\ holder = "flash" /\ driver.at = "done"
  /\ Return /\ Release("flash")
  /\ writer' = IF writer.left = 1 THEN Finished ELSE [writer EXCEPT !.left = @ - 1]
  /\ busy' = (busy /\ ~(writer.at = "erase" /\ writer.left = 1))
  /\ UNCHANGED <<worldVars, tempVars, envVars, buttonVars>>

(* A command failed: append and eraseLogArea return at once, eraseLogArea  *)
(* without lowering the flag.                                              *)
CommandFailed ==
  /\ holder = "flash" /\ driver.at = "failed"
  /\ Return /\ Release("flash")
  /\ writer' = Finished
  /\ UNCHANGED <<busy, worldVars, tempVars, envVars, buttonVars>>

(* The same when the mutex was not to be had.                              *)
WriterTimesOut ==
  /\ TimedOut("flash")
  /\ Release("flash")
  /\ writer' = Finished
  /\ UNCHANGED <<driverVars, busy, worldVars, tempVars, envVars, buttonVars>>

-----------------------------------------------------------------------------
(* temperature_task.                                                       *)
(* Before the loop: AQM0802::init and the first lines, whatever comes of   *)
(* it.                                                                     *)
StartDisplay ==
  /\ temperature.at = "start"
  /\ holder = "temperature" \/ TimedOut("temperature")
  /\ Release("temperature")
  /\ temperature' = [temperature EXCEPT !.at = "loop"]
  /\ UNCHANGED <<driverVars, busy, writer, worldVars, adtReady, current, envVars, buttonVars>>

(* The top of the loop: nothing while the flag is up.                      *)
BeginCycle ==
  /\ temperature.at = "loop" /\ ~busy
  /\ temperature' = [at |-> IF adtReady THEN "read" ELSE "init", try |-> 1, valid |-> FALSE]
  /\ UNCHANGED <<driverVars, holder, busy, writer, worldVars, adtReady, current,
                 envVars, buttonVars>>

(* Mutant of InitAdt: the task ends without its sensor.                    *)
InitAdtOnce(ok) ==
  /\ temperature.at = "init"
  /\ Transferred("temperature", "adt7410", ok)
  /\ Release("temperature")
  /\ adtReady' = ok
  /\ temperature' = [temperature EXCEPT !.at = IF ok THEN "read" ELSE "ended"]
  /\ UNCHANGED <<driverVars, busy, writer, worldVars, current, envVars, buttonVars>>

(* AEADT7410::init; without it the cycle ends with the "NG" display.       *)
InitAdt(ok) ==
  /\ temperature.at = "init"
  /\ Transferred("temperature", "adt7410", ok)
  /\ Release("temperature")
  /\ adtReady' = ok
  /\ temperature' = [temperature EXCEPT !.at = IF ok THEN "read" ELSE "show"]
  /\ UNCHANGED <<driverVars, busy, writer, worldVars, current, envVars, buttonVars>>

(* Mutant of ReadAdt: counts a try past the last one.                      *)
ReadAdtOver(ok) ==
  /\ temperature.at = "read"
  /\ Transferred("temperature", "adt7410", ok)
  /\ Release("temperature")
  /\ IF ~ok /\ temperature.try <= RetryCount
     THEN /\ temperature' = [temperature EXCEPT !.try = @ + 1]
          /\ UNCHANGED adtReady
     ELSE /\ temperature' = [temperature EXCEPT !.at = "mode", !.try = 0, !.valid = ok]
          /\ adtReady' = ok
  /\ UNCHANGED <<driverVars, busy, writer, worldVars, current, envVars, buttonVars>>

(* readAdt7410WithRetry; after the last try clearInitialized.              *)
ReadAdt(ok) ==
  /\ temperature.at = "read"
  /\ Transferred("temperature", "adt7410", ok)
  /\ Release("temperature")
  /\ IF ~ok /\ temperature.try < RetryCount
     THEN /\ temperature' = [temperature EXCEPT !.try = @ + 1]
          /\ UNCHANGED adtReady
     ELSE /\ temperature' = [temperature EXCEPT !.at = "mode", !.try = 0, !.valid = ok]
          /\ adtReady' = ok
  /\ UNCHANGED <<driverVars, busy, writer, worldVars, current, envVars, buttonVars>>

(* xQueueReceive from display_mode_queue.                                  *)
TakeMode ==
  /\ temperature.at = "mode"
  /\ current' = IF modeQueue = {} THEN current ELSE CHOOSE m \in modeQueue : TRUE
  /\ modeQueue' = {}
  /\ temperature' = [temperature EXCEPT !.at = "show", !.try = 0, !.valid = FALSE]
  /\ UNCHANGED <<driverVars, holder, busy, writer, worldVars, adtReady, envVars, mode>>

(* The display, bytes each sent with a hold of their own, here one for all *)
(* of them.  Their outcome changes nothing and the cycle ends.             *)
ShowLines ==
  /\ temperature.at = "show"
  /\ holder = "temperature" \/ TimedOut("temperature")
  /\ Release("temperature")
  /\ temperature' = [at |-> "loop", try |-> 0, valid |-> FALSE]
  /\ UNCHANGED <<driverVars, busy, writer, worldVars, adtReady, current, envVars, buttonVars>>

(* The cycle ends without the display, whose init failed; whether it did   *)
(* is left open.                                                           *)
ShowNothing ==
  /\ temperature.at = "show" /\ holder # "temperature"
  /\ temperature' = [at |-> "loop", try |-> 0, valid |-> FALSE]
  /\ UNCHANGED <<driverVars, holder, busy, writer, worldVars, adtReady, current,
                 envVars, buttonVars>>

-----------------------------------------------------------------------------
(* environment_task.                                                       *)
BeginRead ==
  /\ environment.at = "loop" /\ ~busy
  /\ environment' = [at |-> "read", try |-> 1]
  /\ UNCHANGED <<driverVars, holder, busy, writer, worldVars, tempVars, latest, buttonVars>>

(* What environment_data_set and updateLatestBme280Values publish: valid,  *)
(* whatever the chip's mode was.                                           *)
Published == [valid |-> TRUE, measured |-> bmeReady]

(* readBme280WithRetry, updateLatestBme280Values and environment_data_set. *)
(* The registers can be read whatever mode the chip is in; what            *)
(* BME280::read makes of them is a measurement only after its init.        *)
ReadBme(ok) ==
  /\ environment.at = "read"
  /\ Transferred("environment", "bme280", ok)
  /\ Release("environment")
  /\ environment' = IF ~ok /\ environment.try < RetryCount
                    THEN [environment EXCEPT !.try = @ + 1]
                    ELSE [at |-> "loop", try |-> 0]
  /\ latest' = IF ok THEN Published ELSE latest
  /\ UNCHANGED <<driverVars, busy, writer, worldVars, tempVars, buttonVars>>

-----------------------------------------------------------------------------
(* Mutant of PressButton: a queue that is full refuses the mode.           *)
PressButtonSend ==
  /\ mode' = (mode + 1) % Modes
  /\ modeQueue' = IF modeQueue = {} THEN {mode'} ELSE modeQueue
  /\ UNCHANGED <<driverVars, holder, busy, writer, worldVars, tempVars, envVars>>

(* button_task: a press that outlasts the debounce time; xQueueOverwrite.  *)
PressButton ==
  /\ mode' = (mode + 1) % Modes
  /\ modeQueue' = {mode'}
  /\ UNCHANGED <<driverVars, holder, busy, writer, worldVars, tempVars, envVars>>

(* A sensor is connected, or loses its connection and its registers.       *)
Attach(s) ==
  /\ s \notin attached
  /\ attached' = attached \cup {s}
  /\ UNCHANGED <<driverVars, holder, busy, writer, bmeReady, tempVars, envVars, buttonVars>>

Detach(s) ==
  /\ s \in attached
  /\ attached' = attached \ {s}
  /\ bmeReady' = (bmeReady /\ s # "bme280")
  /\ UNCHANGED <<driverVars, holder, busy, writer, tempVars, envVars, buttonVars>>

WriterStep == FlashCommand \/ CommandDone \/ CommandFailed \/ WriterTimesOut

TemperatureStep ==
  \/ \E ok \in BOOLEAN : InitAdt(ok) \/ ReadAdt(ok)
  \/ StartDisplay \/ BeginCycle \/ TakeMode \/ ShowLines \/ ShowNothing

EnvironmentStep == BeginRead \/ \E ok \in BOOLEAN : ReadBme(ok)

Next ==
  \/ \E u \in Users : Take(u)
  \/ \E n \in 1 .. MaxCommands : StartAppend(n) \/ StartErase(n)
  \/ WriterStep \/ TimePasses
  \/ TemperatureStep \/ EnvironmentStep
  \/ PressButton
  \/ \E s \in Sensors : Attach(s) \/ Detach(s)

Spec == Init /\ [][Next]_vars

(* A step in which the temperature task gives up waiting for the mutex     *)
(* before a transfer to its sensor.                                        *)
SensorTimeOut ==
  temperature.at \in {"init", "read"} /\ TimedOut("temperature") /\ temperature' # temperature

(* The tasks run on and time passes; a task that waits for the mutex again *)
(* and again gets it, and from some time on within its 1000 ms: a flash    *)
(* command takes less and each command is a hold of its own.  A sensor     *)
(* that stays connected answers now and then.                              *)
Fairness ==
  /\ WF_vars(WriterStep) /\ WF_vars(TimePasses)
  /\ WF_vars(TemperatureStep) /\ WF_vars(EnvironmentStep)
  /\ \A u \in Users : SF_vars(Take(u))
  /\ <>[][~SensorTimeOut]_vars
  /\ SF_vars(InitAdt(TRUE)) /\ SF_vars(ReadAdt(TRUE))

FairSpec == Spec /\ Fairness

-----------------------------------------------------------------------------
(* Every variable has its type.                                            *)
TypeOK ==
  /\ DriverTypeOK
  /\ holder \in Users \cup {"none"}
  /\ busy \in BOOLEAN
  /\ writer \in [at : {"rest", "append", "erase"}, left : 0 .. MaxCommands]
  /\ attached \subseteq Sensors
  /\ bmeReady \in BOOLEAN
  /\ adtReady \in BOOLEAN
  /\ temperature \in [at : {"start", "loop", "init", "read", "mode", "show"},
                      try : 0 .. RetryCount, valid : BOOLEAN]
  /\ environment \in [at : {"loop", "read"}, try : 0 .. RetryCount]
  /\ latest \in [valid : BOOLEAN, measured : BOOLEAN]
  /\ mode \in 0 .. Modes - 1 /\ modeQueue \subseteq 0 .. Modes - 1
  /\ current \in 0 .. Modes - 1

(* What main says of shared_io_mutex: no I2C transfer while the flash chip *)
(* programs or erases, whatever fails and however long a task is kept off. *)
NoI2cDuringFlashWrite == holder \in {"temperature", "environment"} => ~Wip

(* What temperature_task says of init: a temperature sensor that comes     *)
(* (back) is read again, unless a failed erase left the flag up.           *)
SensorComesBack ==
  <>[]("adt7410" \in attached /\ ~busy) => []<>(temperature.at = "mode" /\ temperature.valid)

(* The display follows the button: the mode chosen last gets through the   *)
(* queue of length one to temperature_task, however often the button is    *)
(* pressed before or meanwhile.                                            *)
DisplayFollowsButton ==
  <>[]("adt7410" \in attached /\ ~busy) => []<>(current = mode)

(* What README says of "valid": the values served were measured.           *)
ValidMeansMeasured == latest.valid => latest.measured
=============================================================================
