----------------------------- MODULE LogPipeline -----------------------------
(***************************************************************************)
(* The way of an event through the program: a sensor task numbers it and   *)
(* puts it into EventLogger's queue, the logger task sends it on the UART  *)
(* and appends it to the flash log, and the command task pauses, dumps or  *)
(* erases the log meanwhile.  The storage is FlashLog, step by step; the   *)
(* transmit ring behind write_frame is UartTx and appears here as the      *)
(* choice to take a frame or to refuse it.                                 *)
(*                                                                         *)
(* The tasks share one core with time slices.  The logger has the highest  *)
(* priority, but it waits for mutex_ while the command task erases or      *)
(* dumps, so every interleaving below is one the scheduler can produce.    *)
(***************************************************************************)
EXTENDS FlashLog

CONSTANTS
  Tasks,        \* tasks that log
  Deferring,    \* those that do nothing while g_flash_maintenance_busy is up
  QueueLength,  \* length of queue_
  MaxEvents,    \* bound: events each task makes between two restarts
  Commands,     \* what the user may type besides 'r': subset of {"p", "a", "e"}
  MaxWipes      \* bound: times the log area is erased

ASSUME PipelineAssumption ==
  /\ Deferring \subseteq Tasks
  /\ QueueLength \in Nat \ {0}
  /\ Commands \subseteq {"p", "a", "e"}
  /\ MaxEvents \in Nat /\ MaxWipes \in Nat

VARIABLES
  queue,        \* queue_
  task,         \* where each task is in log(), and its event
  logger,       \* where the logger task is in taskLoop, and its event
  command,      \* what the command task is doing
  paused,       \* g_log_paused
  made,         \* events each task has numbered since the restart
  sent,         \* history: events the UART took since the restart
  enqueued, dropped, txCount,  \* enqueue_ok_count_, drop_count_, uart_tx_count_
  wipes         \* times the log area was erased

eventVars == <<queue, task, logger, sent, enqueued, dropped, txCount>>
pipelineVars == <<eventVars, command, paused, made, wipes>>
allVars == <<vars, pipelineVars>>

NoEvent == [by |-> "none", n |-> 0, seq |-> 0]
Resting == [at |-> "rest", event |-> NoEvent]

PipelineInit ==
  /\ Init
  /\ queue = <<>>
  /\ task = [t \in Tasks |-> Resting]
  /\ logger = Resting
  /\ command = "ready"
  /\ paused = TRUE
  /\ made = [t \in Tasks |-> 0]
  /\ sent = <<>>
  /\ enqueued = 0 /\ dropped = 0 /\ txCount = 0
  /\ wipes = 0

Up == op.at # "off"

(* main: storage, logger and tasks are set up.                             *)
Restart == Boot /\ UNCHANGED pipelineVars

-----------------------------------------------------------------------------
(* The sensor tasks: the check of busy and paused before logf.             *)
DecideToLog(t) ==
  /\ Up /\ task[t].at = "rest" /\ made[t] < MaxEvents
  /\ ~paused
  /\ ~(t \in Deferring /\ busy)
  /\ task' = [task EXCEPT ![t].at = "decided"]
  /\ UNCHANGED <<vars, queue, logger, sent, enqueued, dropped, txCount,
                 command, paused, made, wipes>>

(* makeEvent: nextSeq numbers the event.                                   *)
MakeEvent(t) ==
  /\ Up /\ task[t].at = "decided"
  /\ task' = [task EXCEPT ![t] =
       [at |-> "made", event |-> [by |-> t, n |-> made[t] + 1, seq |-> nextSeq]]]
  /\ made' = [made EXCEPT ![t] = @ + 1]
  /\ nextSeq' = (nextSeq + 1) % SeqCount
  /\ UNCHANGED <<flash, index, op, busy, faults, queue, logger, sent, enqueued,
                 dropped, txCount, command, paused, wipes>>

(* Mutant of Enqueue: the event goes to the front of the queue.            *)
EnqueueFront(t) ==
  /\ Up /\ task[t].at = "made" /\ Len(queue) < QueueLength
  /\ queue' = <<task[t].event>> \o queue
  /\ task' = [task EXCEPT ![t].at = "queued"]
  /\ UNCHANGED <<vars, logger, sent, enqueued, dropped, txCount, command,
                 paused, made, wipes>>

(* Mutant of Enqueue: the length of the queue is off by one.               *)
EnqueueOver(t) ==
  /\ Up /\ task[t].at = "made" /\ Len(queue) <= QueueLength
  /\ queue' = Append(queue, task[t].event)
  /\ task' = [task EXCEPT ![t].at = "queued"]
  /\ UNCHANGED <<vars, logger, sent, enqueued, dropped, txCount, command,
                 paused, made, wipes>>

(* xQueueSend without waiting; its result is looked at afterwards.         *)
Enqueue(t) ==
  /\ Up /\ task[t].at = "made" /\ Len(queue) < QueueLength
  /\ queue' = Append(queue, task[t].event)
  /\ task' = [task EXCEPT ![t].at = "queued"]
  /\ UNCHANGED <<vars, logger, sent, enqueued, dropped, txCount, command,
                 paused, made, wipes>>

EnqueueFull(t) ==
  /\ Up /\ task[t].at = "made" /\ Len(queue) = QueueLength
  /\ task' = [task EXCEPT ![t].at = "refused"]
  /\ UNCHANGED <<vars, queue, logger, sent, enqueued, dropped, txCount, command,
                 paused, made, wipes>>

(* Mutant of CountEvent: a refused event is not counted.                   *)
CountEventAccepted(t) ==
  /\ Up /\ task[t].at \in {"queued", "refused"}
  /\ enqueued' = IF task[t].at = "queued" THEN enqueued + 1 ELSE enqueued
  /\ task' = [task EXCEPT ![t] = Resting]
  /\ UNCHANGED <<vars, queue, logger, sent, dropped, txCount, command, paused,
                 made, wipes>>

(* The end of log: the event is counted as queued or as dropped.           *)
CountEvent(t) ==
  /\ Up /\ task[t].at \in {"queued", "refused"}
  /\ enqueued' = IF task[t].at = "queued" THEN enqueued + 1 ELSE enqueued
  /\ dropped' = IF task[t].at = "refused" THEN dropped + 1 ELSE dropped
  /\ task' = [task EXCEPT ![t] = Resting]
  /\ UNCHANGED <<vars, queue, logger, sent, txCount, command, paused, made, wipes>>

-----------------------------------------------------------------------------
(* The logger task: taskLoop takes the next event.                         *)
Receive ==
  /\ Up /\ logger.at = "rest" /\ queue # <<>>
  /\ logger' = [at |-> "send", event |-> Head(queue)]
  /\ queue' = Tail(queue)
  /\ UNCHANGED <<vars, task, sent, enqueued, dropped, txCount, command, paused,
                 made, wipes>>

(* sendBinary: write_frame takes the frame.                                *)
SendFrame ==
  /\ Up /\ logger.at = "send"
  /\ sent' = Append(sent, logger.event)
  /\ logger' = [logger EXCEPT !.at = "append"]
  /\ UNCHANGED <<vars, queue, task, enqueued, dropped, txCount, command, paused,
                 made, wipes>>

(* Mutant of SendRefused: the loop is left.                                *)
SendRefusedStops ==
  /\ Up /\ logger.at = "send"
  /\ dropped' = dropped + 1
  /\ logger' = [at |-> "stopped", event |-> NoEvent]
  /\ UNCHANGED <<vars, queue, task, sent, enqueued, txCount, command, paused,
                 made, wipes>>

(* Mutant of SendRefused: the frame is stored all the same.                *)
SendRefusedStores ==
  /\ Up /\ logger.at = "send"
  /\ dropped' = dropped + 1
  /\ logger' = [logger EXCEPT !.at = "append"]
  /\ UNCHANGED <<vars, queue, task, sent, enqueued, txCount, command, paused,
                 made, wipes>>

(* sendBinary: write_frame refuses it, and it is not stored either.        *)
SendRefused ==
  /\ Up /\ logger.at = "send"
  /\ dropped' = dropped + 1
  /\ logger' = Resting
  /\ UNCHANGED <<vars, queue, task, sent, enqueued, txCount, command, paused,
                 made, wipes>>

(* sendBinary: append gets mutex_, which no erase and no dump is holding.  *)
StoreFrame(n) ==
  /\ logger.at = "append" /\ command # "dump"
  /\ BeginAppend(n, logger.event.seq)
  /\ logger' = [logger EXCEPT !.at = "store"]
  /\ UNCHANGED <<nextSeq, queue, task, sent, enqueued, dropped, txCount, command,
                 paused, made, wipes>>

StoreStep ==
  /\ logger.at = "store"
  /\ EraseSector \/ ProgramPage
  /\ UNCHANGED pipelineVars

(* append returns, after the read-back or after a failure.                 *)
Stored ==
  /\ logger.at = "store"
  /\ \/ Verify /\ dropped' = IF ValidAt(flash, op.start) THEN dropped ELSE dropped + 1
     \/ AppendFails /\ dropped' = dropped + 1
  /\ logger' = [logger EXCEPT !.at = "count"]
  /\ UNCHANGED <<queue, task, sent, enqueued, txCount, command, paused, made, wipes>>

(* The end of sendBinary.                                                  *)
CountSent ==
  /\ Up /\ logger.at = "count"
  /\ txCount' = txCount + 1
  /\ logger' = Resting
  /\ UNCHANGED <<vars, queue, task, sent, enqueued, dropped, command, paused,
                 made, wipes>>

-----------------------------------------------------------------------------
(* The command task: 'r' and 'p'.                                          *)
ResumeLogGeneration ==
  /\ Up /\ command = "ready" /\ paused
  /\ paused' = FALSE
  /\ UNCHANGED <<vars, eventVars, command, made, wipes>>

PauseLogGeneration ==
  /\ Up /\ command = "ready" /\ "p" \in Commands /\ ~paused
  /\ paused' = TRUE
  /\ UNCHANGED <<vars, eventVars, command, made, wipes>>

(* 'a' and 'lN' hold mutex_ until every frame has gone to the UART.        *)
BeginDump ==
  /\ command = "ready" /\ "a" \in Commands /\ op.at = "idle"
  /\ command' = "dump"
  /\ UNCHANGED <<vars, eventVars, paused, made, wipes>>

EndDump ==
  /\ Up /\ command = "dump"
  /\ command' = "ready"
  /\ UNCHANGED <<vars, eventVars, paused, made, wipes>>

(* 'e': eraseLogArea, which holds mutex_ throughout.                       *)
BeginErase ==
  /\ command = "ready" /\ "e" \in Commands /\ wipes < MaxWipes
  /\ StartWipe
  /\ command' = "erase"
  /\ wipes' = wipes + 1
  /\ UNCHANGED <<eventVars, paused, made>>

EraseStep == WipeSector /\ UNCHANGED pipelineVars

(* eraseLogArea returned TRUE; mutex_ is free, the number is not set yet.  *)
EraseDone ==
  /\ EndWipe
  /\ command' = "renumber"
  /\ UNCHANGED <<nextSeq, eventVars, paused, made, wipes>>

SetNextSeq ==
  /\ Up /\ command = "renumber"
  /\ nextSeq' = 0
  /\ command' = "ready"
  /\ UNCHANGED <<flash, index, op, busy, faults, eventVars, paused, made, wipes>>

(* eraseLogArea returned FALSE.                                            *)
EraseFails ==
  /\ WipeFails
  /\ command' = "ready"
  /\ UNCHANGED <<eventVars, paused, made, wipes>>

(* Power is lost: whatever was not in flash is gone.                       *)
Crash ==
  /\ PowerLoss
  /\ queue' = <<>> /\ sent' = <<>>
  /\ task' = [t \in Tasks |-> Resting]
  /\ logger' = Resting
  /\ command' = "ready" /\ paused' = TRUE
  /\ made' = [t \in Tasks |-> 0]
  /\ enqueued' = 0 /\ dropped' = 0 /\ txCount' = 0
  /\ UNCHANGED wipes

LoggerStep ==
  \/ Receive \/ SendFrame \/ SendRefused
  \/ \E n \in Lens : StoreFrame(n)
  \/ StoreStep \/ Stored \/ CountSent

EraseGoesOn == EraseStep \/ EraseDone \/ SetNextSeq \/ EraseFails

PipelineNext ==
  \/ Restart
  \/ \E t \in Tasks : DecideToLog(t) \/ MakeEvent(t) \/ Enqueue(t)
                      \/ EnqueueFull(t) \/ CountEvent(t)
  \/ LoggerStep
  \/ ResumeLogGeneration \/ PauseLogGeneration \/ BeginDump \/ EndDump
  \/ BeginErase \/ EraseGoesOn
  \/ Crash

PipelineSpec == PipelineInit /\ [][PipelineNext]_allVars

(* The logger task has the highest priority and mutex_ goes to the waiting *)
(* task of highest priority, so it gets its turn between two commands; a   *)
(* dump ends because the UART sends on (DumpFinishes of UartTx), an erase  *)
(* because it is a loop over the sectors.                                  *)
PipelineFairness ==
  /\ WF_allVars(Restart)
  /\ SF_allVars(LoggerStep)
  /\ WF_allVars(EndDump)
  /\ WF_allVars(EraseGoesOn)

FairPipeline == PipelineSpec /\ PipelineFairness

-----------------------------------------------------------------------------
Event == [by : Tasks, n : Nat, seq : Seqs] \cup {NoEvent}

(* Every variable has its type; the queue never grows over its length.     *)
PipelineTypeOK ==
  /\ TypeOK
  /\ queue \in Seq(Event) /\ Len(queue) <= QueueLength
  /\ task \in [Tasks -> [at : {"rest", "decided", "made", "queued", "refused"},
                         event : Event]]
  /\ logger \in [at : {"rest", "send", "append", "store", "count"}, event : Event]
  /\ command \in {"ready", "dump", "erase", "renumber"}
  /\ paused \in BOOLEAN
  /\ made \in [Tasks -> Nat]
  /\ sent \in Seq(Event)
  /\ enqueued \in Nat /\ dropped \in Nat /\ txCount \in Nat /\ wipes \in Nat

(* The UART shows the events of one task in the order the task made them,  *)
(* each at most once, however full the queue was and whatever was refused. *)
TaskOrderKept ==
  \A i, j \in DOMAIN sent : i < j /\ sent[i].by = sent[j].by => sent[i].n < sent[j].n

(* No event disappears uncounted: every event made since the restart is    *)
(* still on its way, was counted as sent, or was counted as dropped.  (An  *)
(* event whose append failed is counted twice.)                            *)
Holding == {t \in Tasks : task[t].at \in {"made", "refused"}}

OnItsWay == Cardinality(Holding) + Len(queue) + (IF logger.at = "rest" THEN 0 ELSE 1)

EventsMade == UNION {{t} \X (1 .. made[t]) : t \in Tasks}

NothingLostSilently == Cardinality(EventsMade) <= OnItsWay + txCount + dropped

(* The flash log keeps to the order of the UART stream and holds nothing   *)
(* that was not sent: sendBinary stores a frame only after write_frame     *)
(* took it.  Stated for a log that was not rebuilt since it was sent.      *)
StoreKeepsUartOrder ==
  op.at = "idle" /\ faults = 0 =>
    \E kept \in SUBSET DOMAIN sent :
      LET at == Sorted(kept, <)
      IN  /\ Len(Walk) = Len(at)
          /\ \A i \in DOMAIN at : flash[Walk[i]].seq = sent[at[i]].seq

(* Whatever is sent, erased, refused and restarted meanwhile, the index    *)
(* counts the frames that are in flash and its two ends are among them,    *)
(* unless an erase failed half way and left its busy flag up.              *)
IndexCountsFrames ==
  op.at = "idle" /\ ~busy =>
    /\ index.count = Cardinality(Frames(flash))
    /\ index.count > 0 => {index.oldest, index.newest} \subseteq Frames(flash)

(* What printHelp says of command 'a', that it sends all frames.           *)
SendsEveryFrame ==
  op.at = "idle" => {Walk[i] : i \in DOMAIN Walk} = Frames(flash)

(* The logger task gets round to every queued event, even when frames are  *)
(* refused, the flash fails or the command task keeps the log to itself.   *)
QueueDrains == queue # <<>> ~> queue = <<>>
=============================================================================
