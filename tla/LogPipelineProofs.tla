-------------------------- MODULE LogPipelineProofs -------------------------
(***************************************************************************)
(* Theorems about LogPipeline, for every set of tasks, every queue length, *)
(* every geometry of the log area and every pattern of faults: the types,  *)
(* the index of the log, the order in which the events of one task reach   *)
(* the UART, that none is lost uncounted, and the order in the flash log.  *)
(***************************************************************************)
EXTENDS LogPipeline, FlashOrderProofs

(* The types of what the pipeline keeps besides the storage.               *)
EventTypes ==
  /\ queue \in Seq(Event) /\ Len(queue) <= QueueLength
  /\ task \in [Tasks -> [at : {"rest", "decided", "made", "queued", "refused"},
                         event : Event]]
  /\ logger \in [at : {"rest", "send", "append", "store", "count"}, event : Event]
  /\ command \in {"ready", "dump", "erase", "renumber"}
  /\ paused \in BOOLEAN
  /\ made \in [Tasks -> Nat]
  /\ sent \in Seq(Event)
  /\ enqueued \in Nat /\ dropped \in Nat /\ txCount \in Nat /\ wipes \in Nat

PipelineInv == IndexInv /\ nextSeq \in Seqs /\ EventTypes

-----------------------------------------------------------------------------
LEMMA EventFields ==
  /\ NoEvent \in Event
  /\ \A e \in Event : e.seq \in Seqs /\ e.n \in Nat
BY FlashAssumption DEF Event, NoEvent, Seqs

LEMMA InitPipelineInv == PipelineInit => PipelineInv
<1> SUFFICES ASSUME PipelineInit
             PROVE  PipelineInv
  OBVIOUS
<1>1. IndexInv /\ nextSeq \in Seqs
  BY InitIndexInv, FlashAssumption DEF PipelineInit, Init, Seqs
<1>2. paused \in BOOLEAN
  BY Zenon DEF PipelineInit
<1>3. EventTypes
  BY <1>2, EventFields, PipelineAssumption DEF PipelineInit, EventTypes, Resting
<1> QED
  BY <1>1, <1>3 DEF PipelineInv

(* What the tasks do to the storage are the storage's own steps.           *)
LEMMA PipelineStepsStorage ==
  ASSUME EventTypes, [PipelineNext]_allVars
  PROVE  [StorageStep]_StorageVars
<1>1. \A n \in Lens : StoreFrame(n) => StorageStep
  BY EventFields DEF EventTypes, StoreFrame, StorageStep
<1>2. \A t \in Tasks : DecideToLog(t) \/ MakeEvent(t) \/ Enqueue(t) \/ EnqueueFull(t) \/ CountEvent(t)
        => UNCHANGED StorageVars
  BY DEF DecideToLog, MakeEvent, Enqueue, EnqueueFull, CountEvent, vars, StorageVars
<1>3. Restart \/ StoreStep \/ Stored \/ BeginErase \/ EraseStep \/ EraseDone \/ EraseFails \/ Crash
        => StorageStep
  BY DEF Restart, StoreStep, Stored, BeginErase, EraseStep, EraseDone, EraseFails, Crash, StorageStep
<1>4. Receive \/ SendFrame \/ SendRefused \/ CountSent \/ ResumeLogGeneration \/ PauseLogGeneration
        \/ BeginDump \/ EndDump \/ SetNextSeq \/ UNCHANGED allVars
        => UNCHANGED StorageVars
  BY DEF Receive, SendFrame, SendRefused, CountSent, ResumeLogGeneration, PauseLogGeneration,
         BeginDump, EndDump, SetNextSeq, vars, allVars, StorageVars
<1> QED
  BY <1>1, <1>2, <1>3, <1>4 DEF PipelineNext, LoggerStep, EraseGoesOn

LEMMA PipelineSeqType ==
  ASSUME nextSeq \in Seqs, index' \in Index, [PipelineNext]_allVars
  PROVE  nextSeq' \in Seqs
<1>1. 0 \in Seqs /\ \A s \in Seqs : (s + 1) % SeqCount \in Seqs
  BY FlashAssumption, ModRange DEF Seqs
<1>2. CASE Restart
  BY <1>1, <1>2 DEF Restart, Boot, Index
<1>3. CASE \E t \in Tasks : MakeEvent(t)
  BY <1>1, <1>3 DEF MakeEvent
<1>4. CASE SetNextSeq \/ Crash
  BY <1>1, <1>4 DEF SetNextSeq, Crash, PowerLoss
<1>5. \A t \in Tasks : DecideToLog(t) \/ Enqueue(t) \/ EnqueueFull(t) \/ CountEvent(t)
        => nextSeq' = nextSeq
  BY DEF DecideToLog, Enqueue, EnqueueFull, CountEvent, vars
<1>6. Receive \/ SendFrame \/ SendRefused \/ (\E n \in Lens : StoreFrame(n)) \/ StoreStep \/ Stored
        \/ CountSent => nextSeq' = nextSeq
  BY DEF Receive, SendFrame, SendRefused, StoreFrame, StoreStep, Stored, CountSent, vars,
         EraseSector, ProgramPage, Verify, AppendFails
<1>7. ResumeLogGeneration \/ PauseLogGeneration \/ BeginDump \/ EndDump \/ BeginErase
        \/ EraseStep \/ EraseDone \/ EraseFails \/ UNCHANGED allVars => nextSeq' = nextSeq
  BY DEF ResumeLogGeneration, PauseLogGeneration, BeginDump, EndDump, BeginErase, EraseStep,
         EraseDone, EraseFails, StartWipe, WipeSector, WipeFails, vars, allVars
<1> QED
  BY <1>2, <1>3, <1>4, <1>5, <1>6, <1>7 DEF PipelineNext, LoggerStep, EraseGoesOn

LEMMA StepEventTypes ==
  ASSUME EventTypes, nextSeq \in Seqs, [PipelineNext]_allVars
  PROVE  EventTypes'
<1> USE DEF EventTypes
<1>1. ASSUME NEW t \in Tasks, DecideToLog(t)
      PROVE  EventTypes'
  BY <1>1 DEF DecideToLog
<1>2. ASSUME NEW t \in Tasks, MakeEvent(t)
      PROVE  EventTypes'
  <2>1. [by |-> t, n |-> made[t] + 1, seq |-> nextSeq] \in Event
    BY DEF Event
  <2>2. made' \in [Tasks -> Nat] /\ task' \in [Tasks -> [at : {"rest", "decided", "made", "queued", "refused"},
                                                        event : Event]]
    BY <1>2, <2>1 DEF MakeEvent
  <2> QED
    BY <1>2, <2>2 DEF MakeEvent
<1>3. ASSUME NEW t \in Tasks, Enqueue(t)
      PROVE  EventTypes'
  <2>1. Append(queue, task[t].event) \in Seq(Event)
          /\ Len(Append(queue, task[t].event)) = Len(queue) + 1
    OBVIOUS
  <2>2. queue' \in Seq(Event) /\ Len(queue') <= QueueLength
    BY <1>3, <2>1, PipelineAssumption DEF Enqueue
  <2>3. task' \in [Tasks -> [at : {"rest", "decided", "made", "queued", "refused"},
                             event : Event]]
    BY <1>3 DEF Enqueue
  <2> QED
    BY <1>3, <2>2, <2>3 DEF Enqueue
<1>4. ASSUME NEW t \in Tasks, EnqueueFull(t)
      PROVE  EventTypes'
  BY <1>4 DEF EnqueueFull
<1>5. ASSUME NEW t \in Tasks, CountEvent(t)
      PROVE  EventTypes'
  BY <1>5, EventFields DEF CountEvent, Resting
<1>6. CASE Receive
  <2>1. queue # <<>> /\ queue' = Tail(queue) /\ logger' = [at |-> "send", event |-> Head(queue)]
    BY <1>6 DEF Receive
  <2>2. Head(queue) \in Event /\ Tail(queue) \in Seq(Event) /\ Len(Tail(queue)) = Len(queue) - 1
    BY <2>1
  <2>3. Len(queue') <= QueueLength
    BY <2>1, <2>2, PipelineAssumption
  <2> QED
    BY <1>6, <2>1, <2>2, <2>3 DEF Receive
<1>7. CASE SendFrame
  <2>1. sent' \in Seq(Event)
    BY <1>7 DEF SendFrame
  <2>2. logger' \in [at : {"rest", "send", "append", "store", "count"}, event : Event]
    BY <1>7 DEF SendFrame
  <2> QED
    BY <1>7, <2>1, <2>2 DEF SendFrame
<1>8. CASE SendRefused
  BY <1>8, EventFields DEF SendRefused, Resting
<1>9. ASSUME NEW n \in Lens, StoreFrame(n)
      PROVE  EventTypes'
  BY <1>9 DEF StoreFrame
<1>10. CASE StoreStep \/ Restart \/ EraseStep \/ UNCHANGED allVars
  BY <1>10 DEF StoreStep, Restart, EraseStep, allVars, pipelineVars, eventVars
<1>11. CASE Stored
  BY <1>11 DEF Stored
<1>12. CASE CountSent
  BY <1>12, EventFields DEF CountSent, Resting
<1>13. CASE ResumeLogGeneration \/ PauseLogGeneration
  <2>1. paused' \in BOOLEAN
    BY <1>13, Zenon DEF ResumeLogGeneration, PauseLogGeneration
  <2> QED
    BY <1>13, <2>1 DEF ResumeLogGeneration, PauseLogGeneration, eventVars
<1>14. CASE BeginDump \/ EndDump \/ EraseDone \/ SetNextSeq \/ EraseFails
  BY <1>14 DEF BeginDump, EndDump, EraseDone, SetNextSeq, EraseFails, eventVars
<1>15. CASE BeginErase
  BY <1>15 DEF BeginErase, eventVars
<1>16. CASE Crash
  <2>1. paused' \in BOOLEAN
    BY <1>16, Zenon DEF Crash
  <2> QED
    BY <1>16, <2>1, EventFields, PipelineAssumption DEF Crash, Resting
<1> QED
  BY <1>1, <1>2, <1>3, <1>4, <1>5, <1>6, <1>7, <1>8, <1>9, <1>10, <1>11, <1>12, <1>13, <1>14,
     <1>15, <1>16
  DEF PipelineNext, LoggerStep, EraseGoesOn

LEMMA StepPipelineInv == PipelineInv /\ [PipelineNext]_allVars => PipelineInv'
<1> SUFFICES ASSUME PipelineInv, [PipelineNext]_allVars
             PROVE  PipelineInv'
  OBVIOUS
<1>1. IndexInv'
  BY PipelineStepsStorage, StepIndexInv DEF PipelineInv
<1>2. nextSeq' \in Seqs
  BY <1>1, PipelineSeqType DEF PipelineInv, IndexInv, Inv, StorageType
<1> QED
  BY <1>1, <1>2, StepEventTypes DEF PipelineInv

LEMMA PipelineInvHolds == PipelineSpec => []PipelineInv
BY InitPipelineInv, StepPipelineInv, PTL DEF PipelineSpec

(* In every reachable state every variable has its type, and the queue     *)
(* holds no more than its length.                                          *)
THEOREM PipelineTypeCorrect == PipelineSpec => []PipelineTypeOK
<1>1. PipelineInv => PipelineTypeOK
  BY DEF PipelineInv, IndexInv, Inv, StorageType, EventTypes, PipelineTypeOK, TypeOK
<1> QED
  BY <1>1, PipelineInvHolds, PTL

(* Between operations the index counts the frames that are in flash and    *)
(* its two ends are among them, whatever the tasks log, the user types,    *)
(* the flash refuses and the power does; only an erase that failed half    *)
(* way, with its busy flag still up, is excepted.                          *)
THEOREM IndexCountsAlways == PipelineSpec => []IndexCountsFrames
<1>1. PipelineInv => IndexCountsFrames
  BY DEF PipelineInv, IndexInv, IndexTracks, Counts, IndexCountsFrames
<1> QED
  BY <1>1, PipelineInvHolds, PTL

-----------------------------------------------------------------------------
(* The order of the events of one task.                                    *)

(* The last event of task t that has left the task.                        *)
LastOut(t) == IF task[t].at = "made" THEN made[t] - 1 ELSE made[t]

IsOut(e) == e.by \in Tasks /\ e.n <= LastOut(e.by)

Before(e, f) == e.by = f.by => e.n < f.n

(* What the UART took, then the event in the logger's hands, then what is  *)
(* in the queue: along this line the events of a task are in its order.    *)
TaskOrder ==
  /\ \A t \in Tasks : task[t].at = "made" => task[t].event.by = t /\ task[t].event.n = made[t]
  /\ \A i \in DOMAIN sent : IsOut(sent[i])
  /\ \A i \in DOMAIN queue : IsOut(queue[i])
  /\ logger.at = "send" => IsOut(logger.event)
  /\ \A i, j \in DOMAIN sent : i < j => Before(sent[i], sent[j])
  /\ \A i, j \in DOMAIN queue : i < j => Before(queue[i], queue[j])
  /\ \A i \in DOMAIN sent, j \in DOMAIN queue : Before(sent[i], queue[j])
  /\ logger.at = "send" =>
       /\ \A i \in DOMAIN sent : Before(sent[i], logger.event)
       /\ \A j \in DOMAIN queue : Before(logger.event, queue[j])

(* Steps that move no event: no task takes back what it has let go.        *)
LEMMA OrderKeptByOthers ==
  ASSUME EventTypes, TaskOrder, sent' = sent, queue' = queue,
         logger' = logger \/ logger'.at # "send",
         \A t \in Tasks : LastOut(t)' >= LastOut(t),
         \A t \in Tasks : LastOut(t)' \in Int,
         \A t \in Tasks :
           task'[t].at = "made" => task'[t].event.by = t /\ task'[t].event.n = made'[t]
  PROVE  TaskOrder'
<1>1. ASSUME NEW e \in Event, IsOut(e)
      PROVE  IsOut(e)'
  <2>1. e.by \in Tasks /\ e.n <= LastOut(e.by) /\ e.n \in Nat
    BY <1>1, EventFields DEF IsOut
  <2>2. LastOut(e.by) \in Int /\ LastOut(e.by)' \in Int /\ LastOut(e.by)' >= LastOut(e.by)
    BY <2>1 DEF LastOut, EventTypes
  <2> QED
    BY <2>1, <2>2 DEF IsOut
<1>2. /\ \A i \in DOMAIN sent : sent[i] \in Event
      /\ \A i \in DOMAIN queue : queue[i] \in Event
      /\ logger.event \in Event
  BY DEF EventTypes
<1>3. (\A i \in DOMAIN sent : IsOut(sent[i]))'
  BY <1>1, <1>2 DEF TaskOrder
<1>4. (\A i \in DOMAIN queue : IsOut(queue[i]))'
  BY <1>1, <1>2 DEF TaskOrder
<1>5. (logger.at = "send" => IsOut(logger.event))'
  BY <1>1, <1>2 DEF TaskOrder
<1> QED
  BY <1>3, <1>4, <1>5 DEF TaskOrder, Before

LEMMA InitTaskOrder == PipelineInit => TaskOrder
BY DEF PipelineInit, TaskOrder, Resting

LEMMA StepTaskOrder ==
  ASSUME EventTypes, TaskOrder, [PipelineNext]_allVars
  PROVE  TaskOrder'
<1>0. /\ queue \in Seq(Event) /\ sent \in Seq(Event) /\ made \in [Tasks -> Nat]
      /\ task \in [Tasks -> [at : {"rest", "decided", "made", "queued", "refused"}, event : Event]]
      /\ logger \in [at : {"rest", "send", "append", "store", "count"}, event : Event]
  BY DEF EventTypes
<1>a. \A t \in Tasks : LastOut(t) \in Int /\ LastOut(t) <= made[t]
  BY <1>0 DEF LastOut
<1>1. ASSUME UNCHANGED <<queue, sent, task, made>>, logger' = logger \/ logger'.at # "send"
      PROVE  TaskOrder'
  BY <1>1, <1>a, OrderKeptByOthers DEF LastOut, TaskOrder
<1>2. ASSUME NEW t \in Tasks, DecideToLog(t) \/ EnqueueFull(t) \/ CountEvent(t)
      PROVE  TaskOrder'
  <2>1. /\ UNCHANGED <<queue, sent, made, logger>>
        /\ task'[t].at # "made"
        /\ \A u \in Tasks : u # t => task'[u] = task[u]
    BY <1>0, <1>2 DEF DecideToLog, EnqueueFull, CountEvent, Resting
  <2>2. LastOut(t)' = made[t] /\ \A u \in Tasks : u # t => LastOut(u)' = LastOut(u)
    BY <2>1 DEF LastOut
  <2>3. \A u \in Tasks : LastOut(u)' >= LastOut(u) /\ LastOut(u)' \in Int
    BY <1>0, <1>a, <2>2
  <2> QED
    BY <2>1, <2>3, OrderKeptByOthers DEF TaskOrder
<1>3. ASSUME NEW t \in Tasks, MakeEvent(t)
      PROVE  TaskOrder'
  <2>1. /\ UNCHANGED <<queue, sent, logger>>
        /\ task[t].at = "decided"
        /\ task'[t] = [at |-> "made", event |-> [by |-> t, n |-> made[t] + 1, seq |-> nextSeq]]
        /\ made'[t] = made[t] + 1
        /\ \A u \in Tasks : u # t => task'[u] = task[u] /\ made'[u] = made[u]
    BY <1>0, <1>3 DEF MakeEvent
  <2>2. \A u \in Tasks : LastOut(u)' >= LastOut(u) /\ LastOut(u)' \in Int
    BY <1>0, <2>1 DEF LastOut
  <2>3. \A u \in Tasks : task'[u].at = "made" =>
          task'[u].event.by = u /\ task'[u].event.n = made'[u]
    BY <2>1 DEF TaskOrder
  <2> QED
    BY <2>1, <2>2, <2>3, OrderKeptByOthers
<1>4. ASSUME NEW t \in Tasks, Enqueue(t)
      PROVE  TaskOrder'
  <2>0. PICK e : e = task[t].event
    OBVIOUS
  <2>1. /\ UNCHANGED <<sent, made, logger>> /\ queue' = Append(queue, e)
        /\ task[t].at = "made" /\ task'[t].at = "queued"
        /\ \A u \in Tasks : u # t => task'[u] = task[u]
    BY <1>0, <1>4, <2>0 DEF Enqueue
  <2>2. e.by = t /\ e.n = made[t] /\ LastOut(t) = made[t] - 1 /\ LastOut(t)' = made[t]
          /\ made[t] \in Nat /\ e \in Event
    BY <1>0, <2>0, <2>1 DEF TaskOrder, LastOut
  <2>3. \A u \in Tasks : u # t => LastOut(u)' = LastOut(u)
    BY <2>1 DEF LastOut
  <2>4. ASSUME NEW d \in Event, IsOut(d)
        PROVE  IsOut(d)' /\ Before(d, e)
    <3>1. d.by \in Tasks /\ d.n <= LastOut(d.by) /\ d.n \in Nat
      BY <2>4, EventFields DEF IsOut
    <3>2. CASE d.by = t
      <4>1. d.n <= made[t] - 1 /\ d.n < made[t]
        BY <2>2, <3>1, <3>2
      <4>2. d.n <= LastOut(t)'
        BY <2>2, <3>1, <4>1
      <4> QED
        BY <2>2, <3>2, <4>1, <4>2 DEF IsOut, Before
    <3>3. CASE d.by # t
      BY <2>2, <2>3, <3>1, <3>3 DEF IsOut, Before
    <3> QED
      BY <3>2, <3>3
  <2>5. IsOut(e)'
    BY <2>2 DEF IsOut
  <2>6. /\ \A i \in DOMAIN sent : sent[i] \in Event
        /\ \A i \in DOMAIN queue : queue[i] \in Event
        /\ logger.event \in Event
    BY <1>0
  <2>7. /\ DOMAIN queue = 1 .. Len(queue) /\ DOMAIN queue' = 1 .. Len(queue) + 1
        /\ queue'[Len(queue) + 1] = e /\ Len(queue) \in Nat
        /\ \A i \in DOMAIN queue : queue'[i] = queue[i]
    BY <1>0, <2>1, <2>2
  <2>8. \A i \in DOMAIN queue' : i \in DOMAIN queue \/ queue'[i] = e
    BY <2>7
  <2>9. (\A u \in Tasks : task[u].at = "made" => task[u].event.by = u /\ task[u].event.n = made[u])'
    BY <2>1 DEF TaskOrder
  <2>10. (\A i \in DOMAIN sent : IsOut(sent[i]))' /\ (\A i \in DOMAIN queue : IsOut(queue[i]))'
    BY <2>1, <2>4, <2>5, <2>6, <2>7, <2>8 DEF TaskOrder
  <2>11. (logger.at = "send" => IsOut(logger.event))'
    BY <2>1, <2>4, <2>6 DEF TaskOrder
  <2>12. \A i, j \in DOMAIN sent' : i < j => Before(sent'[i], sent'[j])
    BY <2>1 DEF TaskOrder
  <2>13. ASSUME NEW i \in DOMAIN queue', NEW j \in DOMAIN queue', i < j
         PROVE  Before(queue'[i], queue'[j])
    <3>1. i \in DOMAIN queue
      BY <2>7, <2>13
    <3>2. CASE j \in DOMAIN queue
      BY <2>7, <2>13, <3>1, <3>2 DEF TaskOrder
    <3>3. CASE queue'[j] = e
      BY <2>4, <2>6, <2>7, <3>1, <3>3 DEF TaskOrder
    <3> QED
      BY <2>8, <3>2, <3>3
  <2>14. \A i \in DOMAIN sent', j \in DOMAIN queue' : Before(sent'[i], queue'[j])
    BY <2>1, <2>4, <2>6, <2>7, <2>8 DEF TaskOrder
  <2>15. logger'.at = "send" =>
           /\ \A i \in DOMAIN sent' : Before(sent'[i], logger'.event)
           /\ \A j \in DOMAIN queue' : Before(logger'.event, queue'[j])
    BY <2>1, <2>4, <2>6, <2>7, <2>8 DEF TaskOrder
  <2> QED
    BY <2>9, <2>10, <2>11, <2>12, <2>13, <2>14, <2>15 DEF TaskOrder, Before
<1>5. CASE Receive
  <2>1. /\ UNCHANGED <<sent, made, task>> /\ queue # <<>>
        /\ queue' = Tail(queue)
        /\ logger'.at = "send" /\ logger'.event = Head(queue)
    BY <1>5 DEF Receive
  <2>2. /\ Len(queue) \in Nat \ {0} /\ DOMAIN queue = 1 .. Len(queue)
        /\ DOMAIN queue' = 1 .. Len(queue) - 1
        /\ \A i \in DOMAIN queue' : i + 1 \in DOMAIN queue /\ queue'[i] = queue[i + 1]
        /\ 1 \in DOMAIN queue /\ Head(queue) = queue[1]
    BY <1>0, <2>1
  <2>3. \A d : IsOut(d)' <=> IsOut(d)
    BY <2>1 DEF IsOut, LastOut
  <2>4. (\A i \in DOMAIN sent : IsOut(sent[i]))' /\ (\A i \in DOMAIN queue : IsOut(queue[i]))'
          /\ IsOut(logger.event)'
    BY <2>1, <2>2, <2>3 DEF TaskOrder
  <2>5. ASSUME NEW i \in DOMAIN queue', NEW j \in DOMAIN queue', i < j
        PROVE  Before(queue'[i], queue'[j])
    <3>1. i + 1 \in DOMAIN queue /\ j + 1 \in DOMAIN queue /\ i + 1 < j + 1
      BY <2>2, <2>5
    <3> QED
      BY <2>2, <3>1 DEF TaskOrder
  <2>6. ASSUME NEW j \in DOMAIN queue'
        PROVE  Before(queue[1], queue'[j])
    <3>1. j + 1 \in DOMAIN queue /\ 1 < j + 1
      BY <2>2
    <3> QED
      BY <2>2, <3>1 DEF TaskOrder
  <2> QED
    BY <2>1, <2>2, <2>4, <2>5, <2>6 DEF TaskOrder, Before
<1>6. CASE SendFrame
  <2> DEFINE e == logger.event
  <2>1. /\ UNCHANGED <<queue, made, task>>
        /\ logger.at = "send" /\ logger'.at = "append"
        /\ sent' = Append(sent, e)
    BY <1>0, <1>6 DEF SendFrame
  <2>2. /\ DOMAIN sent = 1 .. Len(sent) /\ DOMAIN sent' = 1 .. Len(sent) + 1
        /\ sent'[Len(sent) + 1] = e /\ Len(sent) \in Nat
        /\ \A i \in DOMAIN sent : sent'[i] = sent[i]
    BY <1>0, <2>1
  <2>3. \A d : IsOut(d)' <=> IsOut(d)
    BY <2>1 DEF IsOut, LastOut
  <2> HIDE DEF e
  <2>4. \A i \in DOMAIN sent' : i \in DOMAIN sent \/ sent'[i] = e
    BY <2>2
  <2>5. /\ IsOut(e)
        /\ \A i \in DOMAIN sent : Before(sent[i], e)
        /\ \A j \in DOMAIN queue : Before(e, queue[j])
    BY <2>1 DEF TaskOrder, e
  <2>6. (\A i \in DOMAIN sent : IsOut(sent[i]))' /\ (\A i \in DOMAIN queue : IsOut(queue[i]))'
    BY <2>1, <2>2, <2>3, <2>4, <2>5 DEF TaskOrder
  <2>7. ASSUME NEW i \in DOMAIN sent', NEW j \in DOMAIN sent', i < j
        PROVE  Before(sent'[i], sent'[j])
    <3>1. i \in DOMAIN sent
      BY <2>2, <2>7
    <3>2. CASE j \in DOMAIN sent
      BY <2>2, <2>7, <3>1, <3>2 DEF TaskOrder
    <3>3. CASE sent'[j] = e
      BY <2>2, <2>5, <3>1, <3>3
    <3> QED
      BY <2>4, <3>2, <3>3
  <2>8. \A i \in DOMAIN sent', j \in DOMAIN queue' : Before(sent'[i], queue'[j])
    BY <2>1, <2>2, <2>4, <2>5 DEF TaskOrder
  <2> QED
    BY <2>1, <2>6, <2>7, <2>8 DEF TaskOrder, Before
<1>7. CASE Crash
  <2>1. sent' = <<>> /\ queue' = <<>> /\ logger' = Resting /\ task' = [t \in Tasks |-> Resting]
    BY <1>7 DEF Crash
  <2> QED
    BY <2>1 DEF TaskOrder, Resting
<1>8. CASE SendRefused \/ (\E n \in Lens : StoreFrame(n)) \/ Stored \/ CountSent
  <2>1. UNCHANGED <<queue, sent, task, made>> /\ logger'.at # "send"
    BY <1>0, <1>8 DEF SendRefused, StoreFrame, Stored, CountSent, Resting
  <2> QED
    BY <1>1, <2>1
<1>9. CASE Restart \/ StoreStep \/ ResumeLogGeneration \/ PauseLogGeneration \/ BeginDump \/ EndDump
            \/ BeginErase \/ EraseStep \/ EraseDone \/ SetNextSeq \/ EraseFails \/ UNCHANGED allVars
  <2>1. UNCHANGED <<queue, sent, task, made, logger>>
    BY <1>9 DEF Restart, StoreStep, ResumeLogGeneration, PauseLogGeneration, BeginDump, EndDump,
                BeginErase, EraseStep, EraseDone, SetNextSeq, EraseFails, allVars, pipelineVars, eventVars
  <2> QED
    BY <1>1, <2>1
<1> QED
  BY <1>2, <1>3, <1>4, <1>5, <1>6, <1>7, <1>8, <1>9 DEF PipelineNext, LoggerStep, EraseGoesOn

(* The UART shows the events of one task in the order in which the task    *)
(* made them and each at most once, for every number of tasks and events,  *)
(* every queue length and whatever is refused on the way.                  *)
THEOREM OrderOnTheUart == PipelineSpec => []TaskOrderKept
<1>1. PipelineInit => EventTypes /\ TaskOrder
  BY InitPipelineInv, InitTaskOrder DEF PipelineInv
<1>2. PipelineInv /\ TaskOrder /\ [PipelineNext]_allVars => TaskOrder'
  BY StepTaskOrder DEF PipelineInv
<1>3. TaskOrder => TaskOrderKept
  BY DEF TaskOrder, TaskOrderKept, Before
<1> QED
  BY <1>1, <1>2, <1>3, PipelineInvHolds, PTL DEF PipelineSpec

-----------------------------------------------------------------------------
(* No event disappears uncounted.                                          *)

(* The sides of the comparison, and that there is something to count.      *)
Counted ==
  /\ IsFiniteSet(EventsMade) /\ IsFiniteSet(Holding)
  /\ NothingLostSilently

LEMMA InitCounted == PipelineInit => Counted
<1> SUFFICES ASSUME PipelineInit
             PROVE  Counted
  OBVIOUS
<1>1. \A t \in Tasks : 1 .. made[t] = {} /\ task[t].at = "rest"
  BY DEF PipelineInit, Resting
<1>2. EventsMade = {} /\ Holding = {}
  BY <1>1 DEF EventsMade, Holding
<1>3. queue = <<>> /\ logger.at = "rest" /\ txCount = 0 /\ dropped = 0
  BY DEF PipelineInit, Resting
<1> QED
  BY <1>2, <1>3, FS_EmptySet DEF Counted, NothingLostSilently, OnItsWay

LEMMA SumsCarry ==
  \A c, w, x, s, d, s1, d1 \in Nat :
    c <= w + s + d /\ x + s1 + d1 >= w + s + d => c <= x + s1 + d1
OBVIOUS

LEMMA SumsShift ==
  \A c, q, h, h1, s, d, s1, d1 \in Nat :
    s1 + d1 + h1 >= s + d + h => c + q + h1 + s1 + d1 >= c + q + h + s + d
OBVIOUS

LEMMA WayTypes ==
  ASSUME EventTypes, Counted
  PROVE  /\ Cardinality(EventsMade) \in Nat /\ Cardinality(Holding) \in Nat
         /\ OnItsWay \in Nat
<1>1. Cardinality(EventsMade) \in Nat /\ Cardinality(Holding) \in Nat
  BY FS_CardinalityType DEF Counted
<1>2. Len(queue) \in Nat
  BY DEF EventTypes
<1> QED
  BY <1>1, <1>2 DEF OnItsWay

(* The step by which a task numbers an event: one more is made, and the    *)
(* task holds it.                                                          *)
LEMMA MakeCounted ==
  ASSUME EventTypes, Counted, NEW t \in Tasks, MakeEvent(t)
  PROVE  Counted'
<1>1. /\ UNCHANGED <<queue, logger, txCount, dropped>>
      /\ task[t].at = "decided" /\ task'[t].at = "made"
      /\ made[t] \in Nat /\ made'[t] = made[t] + 1
      /\ \A u \in Tasks : u # t => task'[u] = task[u] /\ made'[u] = made[u]
  BY DEF MakeEvent, EventTypes
<1>2. EventsMade' = EventsMade \cup {<<t, made[t] + 1>>}
  <2>1. 1 .. made'[t] = (1 .. made[t]) \cup {made[t] + 1}
    BY <1>1
  <2> QED
    BY <1>1, <2>1 DEF EventsMade
<1>3. Holding' = Holding \cup {t} /\ t \notin Holding
  BY <1>1 DEF Holding
<1>4. /\ IsFiniteSet(EventsMade')
      /\ Cardinality(EventsMade') \in Nat /\ Cardinality(EventsMade') <= Cardinality(EventsMade) + 1
  <2>1. IsFiniteSet(EventsMade) /\ Cardinality(EventsMade) \in Nat
    BY FS_CardinalityType DEF Counted
  <2> QED
    BY ONLY <1>2, <2>1, FS_AddElement
<1>5. IsFiniteSet(Holding') /\ Cardinality(Holding') = Cardinality(Holding) + 1
  BY <1>3, FS_AddElement DEF Counted
<1>6. OnItsWay' = OnItsWay + 1 /\ OnItsWay \in Nat
  BY <1>1, <1>5, WayTypes DEF OnItsWay, EventTypes
<1>7. Cardinality(EventsMade') <= OnItsWay' + txCount' + dropped'
  BY <1>1, <1>4, <1>6, WayTypes DEF Counted, NothingLostSilently, EventTypes
<1> QED
  BY <1>4, <1>5, <1>7 DEF Counted, NothingLostSilently

(* Every other step makes nothing and moves what is on its way at most     *)
(* from one place to the next, or into a count.                            *)
LEMMA OthersCounted ==
  ASSUME EventTypes, Counted, EventTypes', made' = made, IsFiniteSet(Holding'),
         OnItsWay' + txCount' + dropped' >= OnItsWay + txCount + dropped
  PROVE  Counted'
<1>1. EventsMade' = EventsMade
  BY DEF EventsMade
<1>2. /\ Cardinality(EventsMade) \in Nat /\ OnItsWay \in Nat
      /\ Cardinality(EventsMade) <= OnItsWay + txCount + dropped
  BY WayTypes DEF Counted, NothingLostSilently
<1>4. OnItsWay' \in Nat
  <2>1. Cardinality(Holding') \in Nat
    BY FS_CardinalityType
  <2>2. Len(queue') \in Nat
    BY DEF EventTypes
  <2> QED
    BY <2>1, <2>2 DEF OnItsWay
<1>3. txCount \in Nat /\ txCount' \in Nat /\ dropped \in Nat /\ dropped' \in Nat
  BY DEF EventTypes
<1>5. Cardinality(EventsMade') <= OnItsWay' + txCount' + dropped'
  <2>1. PICK c \in Nat, w \in Nat, x \in Nat :
          c = Cardinality(EventsMade) /\ w = OnItsWay /\ x = OnItsWay'
    BY <1>2, <1>4
  <2>2. c <= w + txCount + dropped /\ x + txCount' + dropped' >= w + txCount + dropped
    BY <1>2, <2>1
  <2>3. c <= x + txCount' + dropped'
    BY <1>3, <2>2, SumsCarry
  <2>4. Cardinality(EventsMade') = c
    BY ONLY <1>1, <2>1, Zenon
  <2> QED
    BY ONLY <2>1, <2>3, <2>4
<1> QED
  BY <1>1, <1>5 DEF Counted, NothingLostSilently

LEMMA StepCounted ==
  ASSUME EventTypes, Counted, EventTypes', [PipelineNext]_allVars
  PROVE  Counted'
<1>0. /\ queue \in Seq(Event)
      /\ task \in [Tasks -> [at : {"rest", "decided", "made", "queued", "refused"}, event : Event]]
      /\ dropped \in Nat /\ txCount \in Nat /\ dropped' \in Nat /\ txCount' \in Nat
      /\ IsFiniteSet(Holding) /\ Cardinality(Holding) \in Nat
  BY FS_CardinalityType DEF EventTypes, Counted
<1>1. ASSUME UNCHANGED <<made, task, queue>>,
             txCount' + dropped' + (IF logger'.at = "rest" THEN 0 ELSE 1)
               >= txCount + dropped + (IF logger.at = "rest" THEN 0 ELSE 1)
      PROVE  Counted'
  <2>1. Holding' = Holding
    BY <1>1 DEF Holding
  <2> DEFINE c == Cardinality(Holding)
             here == IF logger.at = "rest" THEN 0 ELSE 1
             there == IF logger'.at = "rest" THEN 0 ELSE 1
  <2>2. c \in Nat /\ Len(queue) \in Nat /\ here \in Nat /\ there \in Nat
    BY <1>0
  <2>3. OnItsWay = c + Len(queue) + here /\ OnItsWay' = c + Len(queue) + there
    BY <1>1, <2>1 DEF OnItsWay
  <2>4. txCount' + dropped' + there >= txCount + dropped + here
    BY <1>1
  <2> HIDE DEF c, here, there
  <2>6. c + Len(queue) + there + txCount' + dropped' >= c + Len(queue) + here + txCount + dropped
    <3>1. txCount \in Nat /\ dropped \in Nat /\ txCount' \in Nat /\ dropped' \in Nat
      BY <1>0
    <3> QED
      BY ONLY <2>2, <2>4, <3>1, SumsShift
  <2>5. OnItsWay' + txCount' + dropped' >= OnItsWay + txCount + dropped
    BY <2>3, <2>6
  <2> QED
    BY <1>0, <1>1, <2>1, <2>5, OthersCounted
<1>2. ASSUME NEW t \in Tasks, DecideToLog(t) \/ EnqueueFull(t)
      PROVE  Counted'
  <2>1. /\ UNCHANGED <<made, queue, logger, txCount, dropped>>
        /\ \A u \in Tasks : u # t => task'[u] = task[u]
        /\ \/ task[t].at = "rest" /\ task'[t].at = "decided"
           \/ task[t].at = "made" /\ task'[t].at = "refused"
    BY <1>0, <1>2 DEF DecideToLog, EnqueueFull
  <2>2. Holding' = Holding
    BY <2>1 DEF Holding
  <2>3. OnItsWay' = OnItsWay
    BY <2>1, <2>2 DEF OnItsWay
  <2>4. OnItsWay \in Nat
    BY <1>0 DEF OnItsWay
  <2> QED
    BY <1>0, <2>1, <2>2, <2>3, <2>4, OthersCounted
<1>3. ASSUME NEW t \in Tasks, MakeEvent(t)
      PROVE  Counted'
  BY <1>3, MakeCounted
<1>4. ASSUME NEW t \in Tasks, Enqueue(t)
      PROVE  Counted'
  <2>1. /\ UNCHANGED <<made, logger, txCount, dropped>>
        /\ Len(queue') = Len(queue) + 1
        /\ task[t].at = "made" /\ task'[t].at = "queued"
        /\ \A u \in Tasks : u # t => task'[u] = task[u]
    BY <1>0, <1>4 DEF Enqueue
  <2>2. Holding' = Holding \ {t} /\ t \in Holding
    BY <2>1 DEF Holding
  <2>3. IsFiniteSet(Holding') /\ Cardinality(Holding') = Cardinality(Holding) - 1
    BY <1>0, <2>2, FS_RemoveElement
  <2>4. OnItsWay' + txCount' + dropped' >= OnItsWay + txCount + dropped
    BY <1>0, <2>1, <2>3 DEF OnItsWay
  <2> QED
    BY <2>1, <2>3, <2>4, OthersCounted
<1>5. ASSUME NEW t \in Tasks, CountEvent(t)
      PROVE  Counted'
  <2>1. /\ UNCHANGED <<made, logger, queue, txCount>>
        /\ \/ task[t].at = "queued" /\ dropped' = dropped
           \/ task[t].at = "refused" /\ dropped' = dropped + 1
        /\ task'[t].at = "rest"
        /\ \A u \in Tasks : u # t => task'[u] = task[u]
    BY <1>0, <1>5 DEF CountEvent, Resting
  <2>2. Holding' = Holding \ {t} /\ (t \in Holding <=> task[t].at = "refused")
    BY <2>1 DEF Holding
  <2>3. IsFiniteSet(Holding')
          /\ Cardinality(Holding') = IF t \in Holding THEN Cardinality(Holding) - 1 ELSE Cardinality(Holding)
    BY <1>0, <2>2, FS_RemoveElement
  <2>4. OnItsWay' + txCount' + dropped' >= OnItsWay + txCount + dropped
    BY <1>0, <2>1, <2>2, <2>3 DEF OnItsWay
  <2> QED
    BY <2>1, <2>3, <2>4, OthersCounted
<1>6. CASE Receive
  <2>1. /\ UNCHANGED <<made, task, txCount, dropped>>
        /\ Len(queue) = Len(queue') + 1 /\ Len(queue') \in Nat
        /\ logger.at = "rest" /\ logger'.at = "send"
    BY <1>0, <1>6 DEF Receive
  <2>2. Holding' = Holding
    BY <2>1 DEF Holding
  <2>3. OnItsWay' + txCount' + dropped' >= OnItsWay + txCount + dropped
    BY <1>0, <2>1, <2>2 DEF OnItsWay
  <2> QED
    BY <1>0, <2>1, <2>2, <2>3, OthersCounted
<1>7. CASE SendFrame \/ SendRefused \/ (\E n \in Lens : StoreFrame(n)) \/ Stored \/ CountSent
  <2>1. /\ UNCHANGED <<made, task, queue>>
        /\ logger.at # "rest"
        /\ \/ logger'.at # "rest" /\ txCount' = txCount /\ (dropped' = dropped \/ dropped' = dropped + 1)
           \/ logger'.at = "rest" /\ txCount' = txCount /\ dropped' = dropped + 1
           \/ logger'.at = "rest" /\ txCount' = txCount + 1 /\ dropped' = dropped
    BY <1>7 DEF SendFrame, SendRefused, StoreFrame, Stored, CountSent, Resting, EventTypes
  <2>2. txCount' + dropped' + (IF logger'.at = "rest" THEN 0 ELSE 1)
          >= txCount + dropped + (IF logger.at = "rest" THEN 0 ELSE 1)
    <3>1. txCount \in Nat /\ dropped \in Nat
      BY <1>0
    <3>2. CASE logger'.at # "rest"
      BY <2>1, <3>1, <3>2
    <3>3. CASE logger'.at = "rest"
      BY <2>1, <3>1, <3>3
    <3> QED
      BY <3>2, <3>3
  <2> QED
    BY <1>1, <2>1, <2>2
<1>8. CASE Restart \/ StoreStep \/ ResumeLogGeneration \/ PauseLogGeneration \/ BeginDump \/ EndDump
            \/ BeginErase \/ EraseStep \/ EraseDone \/ SetNextSeq \/ EraseFails \/ UNCHANGED allVars
  <2>1. UNCHANGED <<made, task, queue, logger, txCount, dropped>>
    BY <1>8 DEF Restart, StoreStep, ResumeLogGeneration, PauseLogGeneration, BeginDump, EndDump,
                BeginErase, EraseStep, EraseDone, SetNextSeq, EraseFails, allVars, pipelineVars, eventVars
  <2> QED
    BY <1>0, <1>1, <2>1
<1>9. CASE Crash
  <2>1. /\ \A t \in Tasks : made'[t] = 0 /\ task'[t].at = "rest"
        /\ queue' = <<>> /\ logger'.at = "rest" /\ txCount' = 0 /\ dropped' = 0
    BY <1>9 DEF Crash, Resting
  <2>2. EventsMade' = {} /\ Holding' = {}
    BY <2>1 DEF EventsMade, Holding
  <2> QED
    BY <2>1, <2>2, FS_EmptySet DEF Counted, NothingLostSilently, OnItsWay
<1> QED
  BY <1>2, <1>3, <1>4, <1>5, <1>6, <1>7, <1>8, <1>9 DEF PipelineNext, LoggerStep, EraseGoesOn

(* No event disappears uncounted, for every number of tasks and events,    *)
(* every queue length and whatever the UART, the queue and the flash       *)
(* refuse: what was made since the restart is on its way, was counted as   *)
(* sent or was counted as dropped.                                         *)
THEOREM EveryEventCounted == PipelineSpec => []NothingLostSilently
<1>1. PipelineInit => Counted
  BY InitCounted
<1>2. PipelineInv /\ PipelineInv' /\ Counted /\ [PipelineNext]_allVars => Counted'
  BY StepCounted DEF PipelineInv
<1>3. Counted => NothingLostSilently
  BY DEF Counted
<1> QED
  BY <1>1, <1>2, <1>3, PipelineInvHolds, PTL DEF PipelineSpec

-----------------------------------------------------------------------------
(* The flash log keeps to the order of the UART stream, until something    *)
(* fails.                                                                  *)

(* The frames of S, met on the way around from p, carry the numbers of     *)
(* events among the first n in taken, in their order.                      *)
SentInOrder(taken, n, fl, S, p) ==
  \E g \in [S -> 1 .. n] :
    /\ \A a \in S : fl[a].seq = taken[g[a]].seq
    /\ \A a, b \in S : Ahead(a, p) < Ahead(b, p) => g[a] < g[b]

(* The events sent before the one that is about to be stored.              *)
Earlier == IF logger.at \in {"append", "store"} THEN Len(sent) - 1 ELSE Len(sent)

(* The write pointer does not stand inside a frame, and the index names    *)
(* the frame that is met first from there.                                 *)
IdleInOrder ==
  /\ SentInOrder(sent, Earlier, flash, Frames(flash), index.write)
  /\ Apart(flash, Frames(flash), index.write)
  /\ index.count > 0 => \A a \in Frames(flash) : Ahead(index.oldest, index.write) <= Ahead(a, index.write)

(* The same of the frames besides the one that is written.                 *)
StoringInOrder ==
  /\ SentInOrder(sent, Earlier, flash, Settled, op.start)
  /\ op.at # "erase" => EndBefore(flash, Settled, op.start)
  /\ index.count > 0 => \A a \in Staying : Ahead(index.oldest, op.start) <= Ahead(a, op.start)

UartInv ==
  /\ logger.at \in {"append", "store"} => sent # <<>> /\ sent[Len(sent)] = logger.event
  /\ Appending => logger.at = "store" /\ op.seq = logger.event.seq
  /\ faults = 0 =>
       /\ busy => op.at = "wipe"
       /\ op.at = "idle" => IdleInOrder
       /\ Appending => StoringInOrder

(* Fewer frames, more events, or the same places seen from elsewhere.      *)
LEMMA SentInOrderKept ==
  ASSUME NEW snt, NEW n \in Nat, NEW fl, NEW S, NEW p, SentInOrder(snt, n, fl, S, p),
         NEW tnt, NEW m \in Nat, n <= m, \A i \in 1 .. n : tnt[i] = snt[i],
         NEW gl, NEW T, T \subseteq S, \A a \in T : gl[a].seq = fl[a].seq,
         NEW q, \A a, b \in T : Ahead(a, q) < Ahead(b, q) => Ahead(a, p) < Ahead(b, p)
  PROVE  SentInOrder(tnt, m, gl, T, q)
<1>1. PICK g \in [S -> 1 .. n] :
        /\ \A a \in S : fl[a].seq = snt[g[a]].seq
        /\ \A a, b \in S : Ahead(a, p) < Ahead(b, p) => g[a] < g[b]
  BY DEF SentInOrder
<1> DEFINE h == [a \in T |-> g[a]]
<1>2. h \in [T -> 1 .. m]
  BY <1>1
<1>3. /\ \A a \in T : gl[a].seq = tnt[h[a]].seq
      /\ \A a, b \in T : Ahead(a, q) < Ahead(b, q) => h[a] < h[b]
  BY <1>1
<1> HIDE DEF h
<1> QED
  BY <1>2, <1>3 DEF SentInOrder

LEMMA NothingSentInOrder ==
  ASSUME NEW snt, NEW n, NEW fl, NEW p
  PROVE  SentInOrder(snt, n, fl, {}, p)
<1> DEFINE g == [a \in {} |-> 0]
<1>1. g \in [{} -> 1 .. n]
  OBVIOUS
<1> HIDE DEF g
<1> QED
  BY <1>1 DEF SentInOrder

(* The frame written at p carries the number of the event sent last, and   *)
(* from its end it is met last.                                            *)
LEMMA SentInOrderJoins ==
  ASSUME NEW snt, NEW n \in Nat, NEW fl \in [Addrs -> Cell], NEW p \in Frames(fl), NEW e \in Addrs,
         SentInOrder(snt, n, fl, Frames(fl) \ {p}, p),
         fl[p].seq = snt[n + 1].seq,
         Ahead(p, e) = AreaSize - fl[p].len,
         \A a \in Frames(fl) \ {p} : Ahead(a, e) = Ahead(a, p) - fl[p].len
  PROVE  SentInOrder(snt, n + 1, fl, Frames(fl), e)
<1> DEFINE F == Frames(fl)
<1>1. PICK g \in [F \ {p} -> 1 .. n] :
        /\ \A a \in F \ {p} : fl[a].seq = snt[g[a]].seq
        /\ \A a, b \in F \ {p} : Ahead(a, p) < Ahead(b, p) => g[a] < g[b]
  BY DEF SentInOrder
<1>2. /\ p \in Addrs /\ fl[p].len \in Nat /\ AreaSize \in Nat
      /\ \A a \in F : Ahead(a, p) \in Nat /\ Ahead(a, p) < AreaSize
  BY FrameCells, FramesFinite, AheadType, AreaPositive
<1> DEFINE h == [a \in F |-> IF a = p THEN n + 1 ELSE g[a]]
<1>3. h \in [F -> 1 .. n + 1]
  OBVIOUS
<1>4. \A a \in F : fl[a].seq = snt[h[a]].seq
  BY <1>1
<1>5. ASSUME NEW a \in F, NEW b \in F, Ahead(a, e) < Ahead(b, e)
      PROVE  h[a] < h[b]
  <2>1. CASE a = p
    <3>1. b # p
      BY <1>2, <1>5, <2>1
    <3>2. AreaSize - fl[p].len < Ahead(b, p) - fl[p].len
      BY <1>5, <2>1, <3>1
    <3> QED
      BY <1>2, <3>2
  <2>2. CASE a # p /\ b = p
    BY <2>2
  <2>3. CASE a # p /\ b # p
    <3>1. Ahead(a, p) - fl[p].len < Ahead(b, p) - fl[p].len
      BY <1>5, <2>3
    <3>2. Ahead(a, p) < Ahead(b, p)
      BY <1>2, <3>1
    <3> QED
      BY <1>1, <2>3, <3>2
  <2> QED
    BY <2>1, <2>2, <2>3
<1> HIDE DEF h
<1> QED
  BY <1>3, <1>4, <1>5 DEF SentInOrder

-----------------------------------------------------------------------------
LEMMA InitUartInv == PipelineInit => UartInv
<1> SUFFICES ASSUME PipelineInit
             PROVE  UartInv
  OBVIOUS
<1>1. logger.at = "rest" /\ op.at = "off"
  BY DEF PipelineInit, Init, Resting, Off, Nothing
<1>2. ~busy
  BY Zenon DEF PipelineInit, Init
<1> QED
  BY <1>1, <1>2 DEF UartInv, Appending

LEMMA EarlierType ==
  ASSUME EventTypes, UartInv
  PROVE  Earlier \in Nat /\ sent \in Seq(Event) /\ Earlier <= Len(sent)
<1>1. sent \in Seq(Event) /\ Len(sent) \in Nat
  BY DEF EventTypes
<1>2. logger.at \in {"append", "store"} => Len(sent) > 0
  BY <1>1 DEF UartInv
<1> QED
  BY <1>1, <1>2 DEF Earlier

(* An append begins.                                                       *)
LEMMA StoreBegins ==
  ASSUME PipelineInv, UartInv, NEW n \in Lens, StoreFrame(n)
  PROVE  UartInv'
<1> DEFINE F == Frames(flash)
           p == PlaceFor(n)
           s == logger.event.seq
<1>1. /\ logger.at = "append" /\ logger' = [logger EXCEPT !.at = "store"]
      /\ sent' = sent /\ BeginAppend(n, s)
      /\ op.at = "idle" /\ flash' = flash /\ busy' = busy /\ faults' = faults
  BY DEF StoreFrame, BeginAppend
<1>2. /\ Inv /\ s \in Seqs /\ F \subseteq Addrs /\ index.write \in Addrs
      /\ logger'.at = "store" /\ logger'.event = logger.event
  BY <1>1, EventFields, FramesFinite DEF PipelineInv, IndexInv, Inv, StorageType, Index, EventTypes
<1>3. sent # <<>> /\ sent[Len(sent)] = logger.event
  BY <1>1 DEF UartInv
<1>4. Earlier' = Earlier
  BY <1>1, <1>2 DEF Earlier
<1>5. op'.at \in {"erase", "program"} /\ op'.seq = s
  BY <1>1 DEF BeginAppend
<1>6. ASSUME faults' = 0
      PROVE  StoringInOrder' /\ ~busy'
  <2>1. IdleInOrder /\ ~busy
    BY <1>1, <1>6 DEF UartInv
  <2>2. ~busy => Counts(index, F)
    BY <1>1 DEF PipelineInv, IndexInv, IndexTracks
  <2>3. /\ op'.start = p
        /\ Settled' = F
        /\ op'.at = "program" => EndBefore(flash, F, op'.start)
        /\ ~busy' /\ index'.count > 0 =>
             \A a \in Staying' : Ahead(index'.oldest, op'.start) <= Ahead(a, op'.start)
    BY <1>1, <1>2, <2>1, <2>2, BeginPlaces DEF IdleInOrder
  <2>4. PICK k \in Int : k <= 0 /\ \A a \in F : Ahead(a, p) = Ahead(a, index.write) + k
    BY <1>2, <2>1, PlaceShifts DEF IdleInOrder
  <2> HIDE DEF p
  <2>5. \A a, b \in F : Ahead(a, p) < Ahead(b, p) => Ahead(a, index.write) < Ahead(b, index.write)
    <3>1. \A a \in F : Ahead(a, index.write) \in Int
      BY <1>2, AheadType
    <3> QED
      BY <2>4, <3>1
  <2>6. SentInOrder(sent, Earlier, flash, F, index.write) /\ Earlier \in Nat
    BY <2>1, EarlierType DEF IdleInOrder, PipelineInv
  <2>7. SentInOrder(sent, Earlier, flash, F, p)
    BY <2>5, <2>6, SentInOrderKept
  <2>8. ~busy'
    BY ONLY <1>1, <2>1, Zenon
  <2>9. SentInOrder(sent', Earlier', flash', Settled', op'.start)
    BY <1>1, <1>4, <2>3, <2>7
  <2>10. op'.at # "erase" => EndBefore(flash', Settled', op'.start)
    BY <1>1, <1>5, <2>3
  <2> QED
    BY <2>3, <2>8, <2>9, <2>10 DEF StoringInOrder
<1> QED
  BY <1>1, <1>2, <1>3, <1>5, <1>6 DEF UartInv

(* Erasing and programming.                                                *)
LEMMA StoreWorks ==
  ASSUME PipelineInv, CleanInv, UartInv, StoreStep
  PROVE  UartInv'
<1>1. /\ EraseSector \/ ProgramPage
      /\ sent' = sent /\ logger' = logger
      /\ index' = index /\ busy' = busy /\ faults' = faults
      /\ Appending /\ op.at \in {"erase", "program"}
  BY DEF StoreStep, EraseSector, ProgramPage, pipelineVars, eventVars, Appending
<1>2. /\ Inv /\ HomedIn(flash) /\ op.start \in Addrs
      /\ op'.at \in {"program", "verify"} /\ op'.start = op.start /\ op'.seq = op.seq
  BY <1>1 DEF PipelineInv, IndexInv, Inv, StorageType, EraseSector, ProgramPage
<1>3. Earlier' = Earlier
  BY <1>1 DEF Earlier
<1>4. ASSUME faults' = 0
      PROVE  StoringInOrder' /\ ~busy'
  <2>1. StoringInOrder /\ (busy => op.at = "wipe")
    BY <1>1, <1>4 DEF UartInv
  <2>2. ~busy'
    <3>1. ~busy
      BY <1>1, <2>1
    <3> QED
      BY ONLY <1>1, <3>1, Zenon
  <2>3. ASSUME op.at = "program", op.start \in Frames(flash)
        PROVE  flash[op.start].seq = op.seq /\ flash[op.start].len = op.len
    <3>1. /\ \A a \in Addrs : op.addr <= a /\ a < SectorEnd(op.start) => flash[a] = Erased
          /\ Intact
      BY <1>1, <1>4, <2>3 DEF CleanInv
    <3>2. flash[op.start].len > 0 /\ op.start \in Nat /\ op.start < SectorEnd(op.start)
      BY <1>2, <2>3, FrameCells, SectorInArea DEF Inv, StorageType
    <3>3. op.start < op.addr
      <4>1. op.addr \in Nat /\ op.start <= op.addr
        BY <1>2, <2>3, AreaPositive DEF Inv, StorageType, OpShape
      <4>2. op.addr # op.start
        BY <1>2, <3>1, <3>2 DEF Erased
      <4> QED
        BY <3>2, <4>1, <4>2
    <3>4. flash[op.start] = OwnByte(op.start)
      BY <1>2, <3>1, <3>2, <3>3 DEF Intact, Behind
    <3> QED
      BY <3>4 DEF OwnByte, FrameByte
  <2>4. /\ Frames(flash') \ {op.start} \subseteq Staying
        /\ \A a \in Frames(flash') \ {op.start} : flash'[a] = flash[a]
        /\ EndBefore(flash', Frames(flash') \ {op.start}, op.start)
    BY <1>1, <1>2, <2>1, <2>3, WorkingPlaces DEF StoringInOrder
  <2>5. Settled' = Frames(flash') \ {op.start} /\ Staying' = Settled'
    BY <1>2 DEF Settled, Staying
  <2>6. Staying \subseteq Settled
    BY DEF Staying, Settled
  <2>7. SentInOrder(sent, Earlier, flash', Settled', op.start)
    <3>1. Settled' \subseteq Settled /\ \A a \in Settled' : flash'[a].seq = flash[a].seq
      BY <2>4, <2>5, <2>6
    <3>2. Earlier \in Nat /\ SentInOrder(sent, Earlier, flash, Settled, op.start)
      BY <2>1, EarlierType DEF StoringInOrder, PipelineInv
    <3> QED
      BY <3>1, <3>2, SentInOrderKept
  <2>8. index'.count > 0 => \A a \in Staying' : Ahead(index'.oldest, op.start) <= Ahead(a, op.start)
    BY <1>1, <2>1, <2>4, <2>5 DEF StoringInOrder
  <2> QED
    BY <1>1, <1>2, <1>3, <2>2, <2>4, <2>5, <2>7, <2>8 DEF StoringInOrder
<1>5. logger'.at = "store" /\ op'.seq = logger'.event.seq /\ sent' # <<>> /\ sent'[Len(sent')] = logger'.event
  BY <1>1, <1>2 DEF UartInv
<1> QED
  BY <1>2, <1>4, <1>5 DEF UartInv

(* The frame is read back and takes its place in the index.                *)
LEMMA StoreEnds ==
  ASSUME PipelineInv, CleanInv, UartInv, Stored
  PROVE  UartInv'
<1>1. /\ logger.at = "store" /\ logger' = [logger EXCEPT !.at = "count"] /\ sent' = sent
      /\ Verify \/ AppendFails
  BY DEF Stored
<1>2. /\ op'.at = "idle" /\ logger'.at = "count" /\ Earlier' = Len(sent) /\ Earlier = Len(sent) - 1
      /\ sent # <<>> /\ sent[Len(sent)] = logger.event /\ Appending
  <2>1. op' = Nothing /\ Appending
    BY <1>1 DEF Verify, AppendFails, Appending
  <2>2. logger'.at = "count"
    BY <1>1 DEF PipelineInv, EventTypes
  <2> QED
    BY <1>1, <2>1, <2>2 DEF UartInv, Earlier, Nothing
<1>3. ASSUME faults' = 0
      PROVE  IdleInOrder' /\ ~busy'
  <2> DEFINE F == Frames(flash)
             s == op.start
             S == F \ {s}
  <2>1. Verify /\ faults = 0 /\ busy' = busy /\ flash' = flash /\ op.at = "verify"
    <3>1. faults \in Nat
      BY DEF PipelineInv, IndexInv, Inv, StorageType
    <3>2. ~AppendFails
      BY <1>3, <3>1 DEF AppendFails, Fault
    <3> QED
      BY <1>1, <1>3, <3>2 DEF Verify
  <2>2. ~busy /\ StoringInOrder /\ op.seq = logger.event.seq /\ Intact
    BY <1>2, <2>1 DEF UartInv, CleanInv
  <2>3. ~busy'
    BY ONLY <2>1, <2>2, Zenon
  <2>4. /\ Inv /\ HomedIn(flash) /\ Written /\ flash \in [Addrs -> Cell] /\ s \in Addrs /\ F \subseteq Addrs
        /\ IndexTracks
    BY FramesFinite DEF PipelineInv, IndexInv, Inv, StorageType
  <2>5. ValidAt(flash, s)
    BY <2>1, <2>2, <2>4, IntactIsValid
  <2>6. s \in F /\ op.addr > s /\ flash[s] = FrameByte(op.seq, op.len, 0)
    BY <2>1, <2>4, <2>5, ReadBackIntact
  <2>7. flash[s].seq = op.seq /\ flash[s].len = op.len /\ op.addr = s + flash[s].len
    BY <2>1, <2>4, <2>6 DEF FrameByte, Inv, OpShape
  <2>8. PICK e : e = Wrap(s + flash[s].len)
    OBVIOUS
  <2>9. EndBefore(flash, S, s) /\ SentInOrder(sent, Earlier, flash, S, s)
        /\ (index.count > 0 => \A a \in S : Ahead(index.oldest, s) <= Ahead(a, s))
    BY <2>1, <2>2 DEF StoringInOrder, Settled, Staying
  <2>10. /\ e \in Addrs /\ Apart(flash, F, e)
         /\ Ahead(s, e) = AreaSize - flash[s].len
         /\ \A a \in S : Ahead(a, e) = Ahead(a, s) - flash[s].len
    BY <2>4, <2>6, <2>8, <2>9, PlaceJoins
  <2>11. SentInOrder(sent, Earlier', flash, F, e)
    <3>1. Earlier \in Nat /\ Earlier + 1 = Len(sent) /\ sent \in Seq(Event)
      BY <1>2, EarlierType DEF PipelineInv
    <3>2. flash[s].seq = sent[Earlier + 1].seq
      BY <1>2, <2>2, <2>7, <3>1
    <3>3. SentInOrder(sent, Earlier + 1, flash, F, e)
      BY <2>4, <2>6, <2>9, <2>10, <3>1, <3>2, SentInOrderJoins
    <3>4. Earlier' = Earlier + 1
      BY <1>2, <3>1
    <3> QED
      BY ONLY <3>3, <3>4
  <2>12. /\ index'.write = e /\ index'.count = index.count + 1
         /\ index'.oldest = IF index.count = 0 THEN s ELSE index.oldest
    BY <2>1, <2>5, <2>7, <2>8 DEF Verify, Updated
  <2>13. ASSUME NEW a \in F
         PROVE  Ahead(index'.oldest, e) <= Ahead(a, e)
    <3>1. index.count = Cardinality(S) /\ (index.count > 0 => index.oldest \in S)
      BY <2>1, <2>2, <2>4, <2>6 DEF IndexTracks, Counts
    <3>2. IsFiniteSet(S) /\ Cardinality(S) \in Nat /\ (Cardinality(S) = 0 <=> S = {})
      <4>1. IsFiniteSet(S)
        BY FramesFinite, FS_RemoveElement
      <4> QED
        BY <4>1, FS_CardinalityType, FS_EmptySet
    <3>3. flash[s].len \in Nat /\ AreaSize \in Nat
      BY <2>4, <2>6, FrameCells, AreaPositive
    <3>4. CASE index.count = 0
      <4>1. S = {} /\ index'.oldest = s
        BY <2>12, <3>1, <3>2, <3>4
      <4>2. a = s
        BY <4>1
      <4> QED
        BY <2>10, <3>3, <4>1, <4>2
    <3>5. CASE index.count # 0
      <4>1. index.count > 0 /\ index.oldest \in S /\ index'.oldest = index.oldest
        BY <2>12, <3>1, <3>2, <3>5
      <4>2. /\ Ahead(index.oldest, e) = Ahead(index.oldest, s) - flash[s].len
            /\ Ahead(index.oldest, s) \in Nat /\ Ahead(index.oldest, s) < AreaSize
            /\ Ahead(a, s) \in Nat
        BY <2>4, <2>10, <4>1, AheadType, AreaPositive
      <4>3. CASE a = s
        BY <2>10, <3>3, <4>1, <4>2, <4>3
      <4>4. CASE a # s
        <5>1. Ahead(a, e) = Ahead(a, s) - flash[s].len /\ Ahead(index.oldest, s) <= Ahead(a, s)
          BY <2>9, <2>10, <4>1, <4>4
        <5> QED
          BY <3>3, <4>1, <4>2, <5>1
      <4> QED
        BY <4>3, <4>4
    <3> QED
      BY <3>4, <3>5
  <2> QED
    BY <1>1, <2>1, <2>3, <2>10, <2>11, <2>12, <2>13 DEF IdleInOrder
<1> QED
  BY <1>2, <1>3 DEF UartInv, Appending

LEMMA NoFramesInErased ==
  ASSUME \A a \in Addrs : flash[a] = Erased
  PROVE  Frames(flash) = {}
BY DEF Frames, ValidAt, Erased

(* After a boot with nothing wrong and after an erase the log is empty.    *)
LEMMA LogEmpties ==
  ASSUME PipelineInv, CleanInv, UartInv, Restart \/ EraseDone
  PROVE  UartInv'
<1>1. /\ op' = Nothing /\ op'.at = "idle" /\ sent' = sent /\ logger' = logger /\ busy' = FALSE
      /\ flash' = flash /\ faults' = faults
  BY DEF Restart, EraseDone, Boot, EndWipe, pipelineVars, eventVars, Nothing
<1>2. ASSUME faults' = 0
      PROVE  IdleInOrder'
  <2>1. \A a \in Addrs : flash[a] = Erased
    <3>1. CASE Restart
      BY <1>1, <1>2, <3>1 DEF CleanInv, Restart, Boot
    <3>2. CASE EraseDone
      BY <3>2, AreaPositive DEF EraseDone, EndWipe, PipelineInv, IndexInv, WipeProgress, Addrs
    <3> QED
      BY <3>1, <3>2
  <2>2. Frames(flash') = {}
    BY <1>1, <2>1, NoFramesInErased
  <2>3. index'.count = 0
    <3>1. CASE Restart
      <4>1. Rebuilt(flash, index') /\ Frames(flash) = {}
        BY <1>1, <2>2, <3>1 DEF Restart, Boot
      <4> QED
        BY <4>1 DEF Rebuilt, EmptyIndex
    <3>2. CASE EraseDone
      BY <3>2 DEF EraseDone, EndWipe, EmptyIndex
    <3> QED
      BY <3>1, <3>2
  <2> QED
    BY <2>2, <2>3, NothingSentInOrder DEF IdleInOrder, Apart, EndBefore
<1> QED
  BY <1>1, <1>2 DEF UartInv, Appending

(* The storage rests and no event is taken back.                           *)
LEMMA StorageRests ==
  ASSUME PipelineInv, UartInv,
         flash' = flash, index' = index, op' = op, busy' = busy, faults' = faults,
         logger'.at \in {"append", "store"} => sent' # <<>> /\ sent'[Len(sent')] = logger'.event,
         logger.at = "store" => logger' = logger,
         Earlier' \in Nat, Earlier <= Earlier', \A i \in 1 .. Earlier : sent'[i] = sent[i]
  PROVE  UartInv'
<1>1. Appending' => logger'.at = "store" /\ op'.seq = logger'.event.seq
  BY DEF UartInv, Appending
<1>2. ASSUME faults' = 0, busy'
      PROVE  op'.at = "wipe"
  <2>1. busy
    BY ONLY <1>2, busy' = busy, Zenon
  <2> QED
    BY <1>2, <2>1 DEF UartInv
<1>3. \A S, p : SentInOrder(sent, Earlier, flash, S, p) => SentInOrder(sent', Earlier', flash', S, p)
  <2>1. Earlier \in Nat
    BY EarlierType DEF PipelineInv
  <2> SUFFICES ASSUME NEW S, NEW p, SentInOrder(sent, Earlier, flash, S, p)
               PROVE  SentInOrder(sent', Earlier', flash', S, p)
    OBVIOUS
  <2> QED
    BY <2>1, SentInOrderKept
<1>4. Frames(flash') = Frames(flash) /\ Settled' = Settled /\ Staying' = Staying
  BY DEF Settled, Staying
<1>5. ASSUME faults' = 0, op'.at = "idle"
      PROVE  IdleInOrder'
  BY <1>3, <1>4, <1>5 DEF UartInv, IdleInOrder
<1>6. ASSUME faults' = 0, Appending'
      PROVE  StoringInOrder'
  BY <1>3, <1>4, <1>6 DEF UartInv, StoringInOrder, Appending
<1> QED
  BY <1>1, <1>2, <1>5, <1>6 DEF UartInv

(* The logger's steps that leave the storage alone, and the other tasks'.  *)
LEMMA OthersKeepUart ==
  ASSUME PipelineInv, UartInv,
         \/ \E t \in Tasks : DecideToLog(t) \/ MakeEvent(t) \/ Enqueue(t)
                             \/ EnqueueFull(t) \/ CountEvent(t)
         \/ Receive \/ SendFrame \/ SendRefused \/ CountSent
         \/ ResumeLogGeneration \/ PauseLogGeneration \/ BeginDump \/ EndDump \/ SetNextSeq
         \/ UNCHANGED allVars
  PROVE  UartInv'
<1>1. flash' = flash /\ index' = index /\ op' = op /\ faults' = faults
  BY DEF DecideToLog, MakeEvent, Enqueue, EnqueueFull, CountEvent, Receive, SendFrame, SendRefused,
         CountSent, ResumeLogGeneration, PauseLogGeneration, BeginDump, EndDump, SetNextSeq, vars, allVars
<1>2. busy' = busy
  BY Zenon DEF DecideToLog, MakeEvent, Enqueue, EnqueueFull, CountEvent, Receive, SendFrame, SendRefused,
         CountSent, ResumeLogGeneration, PauseLogGeneration, BeginDump, EndDump, SetNextSeq, vars, allVars
<1>3. Earlier \in Nat /\ sent \in Seq(Event) /\ Earlier <= Len(sent) /\ Len(sent) \in Nat
  BY EarlierType DEF PipelineInv
<1>4. CASE SendFrame
  <2>1. /\ logger.at = "send" /\ logger' = [logger EXCEPT !.at = "append"]
        /\ sent' = Append(sent, logger.event) /\ logger.event \in Event
        /\ logger'.at = "append" /\ logger'.event = logger.event
    BY <1>4 DEF SendFrame, PipelineInv, EventTypes
  <2>2. /\ sent' # <<>> /\ Len(sent') = Len(sent) + 1 /\ sent'[Len(sent) + 1] = logger.event
        /\ \A i \in 1 .. Len(sent) : sent'[i] = sent[i]
    BY <1>3, <2>1
  <2>3. Earlier = Len(sent) /\ Earlier' = Len(sent)
    BY <1>3, <2>1, <2>2 DEF Earlier
  <2> QED
    BY <1>1, <1>2, <1>3, <2>1, <2>2, <2>3, StorageRests
<1>5. CASE Receive \/ SendRefused \/ CountSent
  <2>1. /\ logger.at \in {"rest", "send", "count"} /\ logger'.at \in {"rest", "send"} /\ sent' = sent
    BY <1>5 DEF Receive, SendRefused, CountSent, Resting
  <2>2. Earlier = Len(sent) /\ Earlier' = Len(sent)
    BY <2>1 DEF Earlier
  <2> QED
    BY <1>1, <1>2, <1>3, <2>1, <2>2, StorageRests
<1>6. CASE sent' = sent /\ logger' = logger
  <2>1. Earlier' = Earlier
    BY <1>6 DEF Earlier
  <2>2. logger.at \in {"append", "store"} => sent # <<>> /\ sent[Len(sent)] = logger.event
    BY DEF UartInv
  <2> QED
    BY <1>1, <1>2, <1>3, <1>6, <2>1, <2>2, StorageRests
<1>7. \/ SendFrame \/ Receive \/ SendRefused \/ CountSent
      \/ sent' = sent /\ logger' = logger
  BY DEF DecideToLog, MakeEvent, Enqueue, EnqueueFull, CountEvent,
         ResumeLogGeneration, PauseLogGeneration, BeginDump, EndDump, SetNextSeq,
         allVars, pipelineVars, eventVars
<1> QED
  BY <1>4, <1>5, <1>6, <1>7

(* An erase, and whatever fails.                                           *)
LEMMA EraseKeepsUart ==
  ASSUME PipelineInv, UartInv, BeginErase \/ EraseStep \/ EraseFails \/ Crash
  PROVE  UartInv'
<1>1. CASE BeginErase \/ EraseStep
  <2>1. /\ op'.at = "wipe" /\ sent' = sent /\ logger' = logger
    BY <1>1 DEF BeginErase, StartWipe, EraseStep, WipeSector, Nothing, pipelineVars, eventVars,
                PipelineInv, IndexInv, Inv, StorageType
  <2> QED
    BY <2>1 DEF UartInv, Appending
<1>2. CASE EraseFails \/ Crash
  <2>1. /\ op'.at \in {"idle", "off"} /\ faults' = faults + 1 /\ faults \in Nat
    BY <1>2 DEF EraseFails, WipeFails, Crash, PowerLoss, Fault, Off, Nothing,
                PipelineInv, IndexInv, Inv, StorageType
  <2>2. \/ logger' = Resting
        \/ sent' = sent /\ logger' = logger
    BY <1>2 DEF EraseFails, Crash, eventVars
  <2> QED
    BY <2>1, <2>2 DEF UartInv, Appending, Resting
<1> QED
  BY <1>1, <1>2

LEMMA StepUartInv ==
  ASSUME PipelineInv, CleanInv, UartInv, [PipelineNext]_allVars
  PROVE  UartInv'
BY StoreBegins, StoreWorks, StoreEnds, LogEmpties, OthersKeepUart, EraseKeepsUart
   DEF PipelineNext, LoggerStep, EraseGoesOn
-----------------------------------------------------------------------------
(* What the invariant says of a dump.                                      *)

Ascending(K) == Sorted(K, <)

(* The values of a rising sequence, sorted, are that sequence.             *)
LEMMA RisingIsSorted ==
  ASSUME NEW n \in Nat, NEW h \in [1 .. n -> Nat],
         \A i, j \in 1 .. n : i < j => h[i] < h[j],
         NEW K, K = {h[i] : i \in 1 .. n}
  PROVE  Ascending(K) = h
<1> DEFINE below(a) == {b \in K : b < a}
<1>1. ASSUME NEW m \in 0 .. n
      PROVE  LET T == {h[i] : i \in 1 .. m} IN IsFiniteSet(T) /\ Cardinality(T) = m
  <2> DEFINE T == {h[i] : i \in 1 .. m}
             f == [i \in 1 .. m |-> h[i]]
  <2>1. /\ m \in Nat /\ f \in [1 .. m -> T]
        /\ \A i, j \in 1 .. m : i # j => f[i] # f[j]
    <3>1. \A i \in 1 .. m : i \in 1 .. n /\ i \in Nat /\ h[i] \in Nat
      OBVIOUS
    <3>2. ASSUME NEW i \in 1 .. m, NEW j \in 1 .. m, i # j
          PROVE  h[i] # h[j]
      <4>1. i < j \/ j < i
        BY <3>1, <3>2
      <4> QED
        BY <3>1, <4>1
    <3> QED
      BY <3>2
  <2>2. \A t \in T : \E i \in 1 .. m : f[i] = t
    OBVIOUS
  <2>3. IsFiniteSet(1 .. m) /\ Cardinality(1 .. m) = m
    BY <2>1, FS_Interval
  <2> HIDE DEF f
  <2>4. ExistsBijection(1 .. m, T)
    <3>1. f \in Bijection(1 .. m, T)
      BY <2>1, <2>2 DEF Bijection, Injection, Surjection, IsInjective
    <3> QED
      BY <3>1 DEF ExistsBijection
  <2> HIDE DEF T
  <2>5. IsFiniteSet(T) /\ Cardinality(T) = m
    BY <2>3, <2>4, FS_Bijection
  <2> QED
    BY <2>5 DEF T
<1>2. Cardinality(K) = n
  BY <1>1, n \in 0 .. n
<1>3. ASSUME NEW i \in 1 .. n
      PROVE  Cardinality(below(h[i])) = i - 1
  <2>1. i - 1 \in 0 .. n
    OBVIOUS
  <2>2. \A j \in 1 .. n : h[j] < h[i] <=> j \in 1 .. i - 1
    <3> SUFFICES ASSUME NEW j \in 1 .. n
                 PROVE  h[j] < h[i] <=> j \in 1 .. i - 1
      OBVIOUS
    <3>1. h[i] \in Nat /\ h[j] \in Nat /\ (i < j => h[i] < h[j]) /\ (j < i => h[j] < h[i])
      OBVIOUS
    <3>2. CASE j < i
      BY <3>1, <3>2
    <3>3. CASE j = i
      BY <3>1, <3>3
    <3>4. CASE i < j
      BY <3>1, <3>4
    <3> QED
      BY <3>2, <3>3, <3>4
  <2>3. below(h[i]) = {h[j] : j \in 1 .. i - 1}
    BY <2>2
  <2> QED
    BY <1>1, <2>1, <2>3
<1>4. ASSUME NEW i \in 1 .. n
      PROVE  (CHOOSE a \in K : Cardinality(below(a)) = i - 1) = h[i]
  <2> DEFINE P(a) == Cardinality(below(a)) = i - 1
  <2>1. h[i] \in K /\ P(h[i])
    BY <1>3
  <2>2. \A a \in K : P(a) => a = h[i]
    <3> SUFFICES ASSUME NEW j \in 1 .. n, P(h[j])
                 PROVE  j = i
      OBVIOUS
    <3>1. Cardinality(below(h[j])) = j - 1
      BY <1>3
    <3> HIDE DEF below
    <3> QED
      BY <3>1
  <2> HIDE DEF P
  <2>3. (CHOOSE a \in K : P(a)) = h[i]
    BY <2>1, <2>2
  <2> QED
    BY <2>3 DEF P
<1> QED
  BY <1>2, <1>4 DEF Ascending, Sorted

(* The walk from the oldest frame meets frames in the order in which they  *)
(* are met from the write pointer, though it may stop before the last.     *)
LEMMA WalkGoesAround ==
  ASSUME PipelineInv, op.at = "idle", ~busy,
         index.count > 0 => \A a \in Frames(flash) : Ahead(index.oldest, index.write) <= Ahead(a, index.write)
  PROVE  /\ Walk \in Seq(Frames(flash))
         /\ \A i, j \in 1 .. Len(Walk) :
              i < j => Ahead(Walk[i], index.write) < Ahead(Walk[j], index.write)
<1> DEFINE F == Frames(flash)
           N == Cardinality(F)
           o == index.oldest
           p == index.write
           around == [i \in 1 .. N |-> CHOOSE a \in F :
                        Cardinality({b \in F : Ahead(b, o) < Ahead(a, o)}) = i - 1]
           stops == {i \in DOMAIN around : flash[around[i]].seq = index.newestSeq}
           last == IF stops = {} THEN Len(around)
                   ELSE CHOOSE i \in stops : \A j \in stops : i <= j
<1>1. Walk = IF index.count = 0 THEN <<>> ELSE SubSeq(around, 1, last)
  BY DEF Walk, Sorted
<1>2. /\ IsFiniteSet(F) /\ F \subseteq Addrs /\ N \in Nat /\ index.count = N /\ p \in Addrs
      /\ index.count > 0 => o \in F
  <2>1. IsFiniteSet(F) /\ F \subseteq Addrs
    BY FramesFinite DEF PipelineInv, IndexInv, Inv, StorageType
  <2>2. index.count = N /\ p \in Addrs /\ (index.count > 0 => o \in F)
    BY DEF PipelineInv, IndexInv, Inv, StorageType, Index, IndexTracks, Counts
  <2> QED
    BY <2>1, <2>2, FS_CardinalityType
<1>3. CASE N = 0
  <2>1. Walk = <<>>
    BY <1>1, <1>2, <1>3
  <2> QED
    BY <2>1
<1>4. CASE N # 0
  <2> DEFINE key == [a \in F |-> Ahead(a, o)]
  <2>1. ASSUME NEW a \in F
        PROVE  /\ key[a] = Ahead(a, p) - Ahead(o, p)
               /\ Ahead(a, p) \in Int /\ Ahead(o, p) \in Int /\ key[a] \in Int
    <3>1. a \in Addrs /\ o \in Addrs /\ p \in Addrs /\ Ahead(o, p) <= Ahead(a, p)
      BY <1>2, <1>4
    <3>2. Ahead(a, o) = Ahead(a, p) - Ahead(o, p)
      BY <3>1, AheadShift
    <3>3. Ahead(a, p) \in Int /\ Ahead(o, p) \in Int
      BY <3>1, AheadType
    <3> QED
      BY <3>2, <3>3
  <2>2. key \in [F -> Int] /\ \A a, b \in F : key[a] = key[b] => a = b
    <3>1. \A a, b \in F : Ahead(a, p) = Ahead(b, p) => a = b
      BY <1>2, AheadType
    <3>2. \A a, b \in F : key[a] = key[b] => Ahead(a, p) = Ahead(b, p)
      <4> HIDE DEF key
      <4> QED
        BY <2>1
    <3>3. key \in [F -> Int]
      BY <2>1
    <3> HIDE DEF key, F
    <3> QED
      BY <3>1, <3>2, <3>3
  <2>3. \A i \in 0 .. N - 1 : \E a \in F : Rank(F, key, a) = i
    <3> HIDE DEF key, F
    <3> QED
      BY <1>2, <2>2, RanksAreOneToOne
  <2>4. ASSUME NEW a \in F
        PROVE  {b \in F : Ahead(b, o) < Ahead(a, o)} = Below(F, key, a)
    BY DEF Below
  <2>5. ASSUME NEW i \in 1 .. N
        PROVE  around[i] \in F /\ Rank(F, key, around[i]) = i - 1
    <3>1. PICK a \in F : Rank(F, key, a) = i - 1
      <4>1. i - 1 \in 0 .. N - 1
        BY <1>2
      <4> QED
        BY <4>1, <2>3, Zenon
    <3>2. Cardinality({b \in F : Ahead(b, o) < Ahead(a, o)}) = i - 1
      BY <2>4, <3>1, Zenon DEF Rank
    <3>3. /\ around[i] \in F
          /\ Cardinality({b \in F : Ahead(b, o) < Ahead(around[i], o)}) = i - 1
      BY <3>2, Zenon
    <3> HIDE DEF around, key, F
    <3> QED
      BY <3>3, <2>4, Zenon DEF Rank
  <2>6. around \in Seq(F) /\ Len(around) = N
    <3>1. around \in [1 .. N -> F]
      BY <2>5
    <3> HIDE DEF N, F, around
    <3> QED
      BY <1>2, <3>1, FunctionIsSequence
  <2> HIDE DEF around, key, F
  <2>7. ASSUME NEW i \in 1 .. N, NEW j \in 1 .. N, i < j
        PROVE  Ahead(around[i], p) < Ahead(around[j], p)
    <3>1. /\ around[i] \in F /\ Rank(F, key, around[i]) = i - 1
          /\ around[j] \in F /\ Rank(F, key, around[j]) = j - 1
      BY <2>5
    <3>2. key[around[i]] < key[around[j]]
      <4> SUFFICES ASSUME key[around[j]] <= key[around[i]]
                   PROVE  FALSE
        BY <2>2, <3>1
      <4>1. Below(F, key, around[j]) \subseteq Below(F, key, around[i])
        BY <2>2, <3>1 DEF Below
      <4>2. IsFiniteSet(Below(F, key, around[i]))
        BY <1>2, FS_Subset DEF Below
      <4>3. Rank(F, key, around[j]) <= Rank(F, key, around[i])
        BY <4>1, <4>2, FS_Subset DEF Rank
      <4> QED
        BY <2>7, <3>1, <4>3
    <3> QED
      BY <2>1, <3>1, <3>2
  <2>8. last \in 1 .. N
    <3>1. CASE stops = {}
      BY <1>2, <1>4, <2>6, <3>1
    <3>2. CASE stops # {}
      <4> DEFINE Least(i) == \A j \in stops : i <= j
                 value == [i \in stops |-> i]
      <4>1. stops \subseteq 1 .. N /\ IsFiniteSet(stops)
        <5>1. stops \subseteq 1 .. N
          BY <2>6
        <5>2. IsFiniteSet(1 .. N)
          BY <1>2, FS_Interval
        <5> QED
          BY <5>1, <5>2, FS_Subset
      <4> HIDE DEF stops
      <4>2. Cardinality(stops) \in Nat /\ Cardinality(stops) # 0
        BY <3>2, <4>1, FS_CardinalityType, FS_EmptySet
      <4>3. PICK i \in stops : Rank(stops, value, i) = 0
        <5>1. value \in [stops -> Int] /\ \A a, b \in stops : value[a] = value[b] => a = b
          BY <4>1
        <5>2. 0 \in 0 .. Cardinality(stops) - 1
          BY <4>2
        <5> HIDE DEF value
        <5> QED
          BY <4>1, <5>1, <5>2, RanksAreOneToOne
      <4>4. Below(stops, value, i) = {}
        <5>1. IsFiniteSet(Below(stops, value, i))
          BY <4>1, FS_Subset DEF Below
        <5> QED
          BY <4>3, <5>1, FS_EmptySet DEF Rank
      <4>5. Least(i)
        <5>1. \A j \in stops : ~(value[j] < value[i])
          BY <4>4 DEF Below
        <5>2. \A j \in stops : j \in Nat /\ value[j] = j
          BY <4>1
        <5> HIDE DEF value
        <5> QED
          BY <5>1, <5>2
      <4> HIDE DEF Least
      <4>6. (CHOOSE k \in stops : Least(k)) \in stops
        BY <4>5
      <4>7. last = CHOOSE k \in stops : Least(k)
        BY <3>2 DEF Least
      <4> QED
        BY <4>1, <4>6, <4>7
    <3> QED
      BY <3>1, <3>2
  <2> HIDE DEF last, stops, N
  <2>9. Walk = SubSeq(around, 1, last)
    BY <1>1, <1>2, <1>4
  <2>10. /\ Walk \in Seq(F) /\ Len(Walk) = last
         /\ \A i \in 1 .. last : Walk[i] = around[i]
    <3>1. last \in Nat /\ last <= Len(around) /\ \A i \in 1 .. last : i \in 1 .. Len(around)
      BY <1>2, <2>6, <2>8
    <3>2. Len(SubSeq(around, 1, last)) = last
      BY <2>6, <3>1
    <3>3. SubSeq(around, 1, last) \in Seq(F)
      BY <2>6, <3>1
    <3>4. \A i \in 1 .. last : SubSeq(around, 1, last)[i] = around[i]
      BY <2>6, <3>1
    <3> QED
      BY <2>9, <3>2, <3>3, <3>4
  <2>11. \A i \in 1 .. last : i \in 1 .. N
    BY <1>2, <2>8
  <2>12. ASSUME NEW i \in 1 .. Len(Walk), NEW j \in 1 .. Len(Walk), i < j
         PROVE  Ahead(Walk[i], p) < Ahead(Walk[j], p)
    BY <2>7, <2>10, <2>11, <2>12
  <2> QED
    BY <2>10, <2>12 DEF F
<1> QED
  BY <1>3, <1>4

(* At rest the frames of a dump are the frames of events in sent, in their *)
(* order.                                                                  *)
LEMMA DumpInUartOrder ==
  ASSUME PipelineInv, UartInv
  PROVE  StoreKeepsUartOrder
<1> SUFFICES ASSUME op.at = "idle", faults = 0
             PROVE  \E kept \in SUBSET DOMAIN sent :
                      LET at == Sorted(kept, <)
                      IN  /\ Len(Walk) = Len(at)
                          /\ \A i \in DOMAIN at : flash[Walk[i]].seq = sent[at[i]].seq
  BY Zenon DEF StoreKeepsUartOrder
<1> DEFINE F == Frames(flash)
           p == index.write
<1>1. IdleInOrder /\ ~busy
  BY DEF UartInv
<1>2. /\ Walk \in Seq(F)
      /\ \A i, j \in 1 .. Len(Walk) : i < j => Ahead(Walk[i], p) < Ahead(Walk[j], p)
  BY <1>1, WalkGoesAround DEF IdleInOrder
<1>3. Earlier \in Nat /\ sent \in Seq(Event) /\ Earlier <= Len(sent) /\ Len(sent) \in Nat
  BY EarlierType DEF PipelineInv
<1>4. PICK g \in [F -> 1 .. Earlier] :
        /\ \A a \in F : flash[a].seq = sent[g[a]].seq
        /\ \A a, b \in F : Ahead(a, p) < Ahead(b, p) => g[a] < g[b]
  BY <1>1 DEF IdleInOrder, SentInOrder
<1>5. PICK n \in Nat : n = Len(Walk)
  BY <1>2
<1>6. \A i \in 1 .. n : Walk[i] \in F
  BY <1>2, <1>5
<1> DEFINE h == [i \in 1 .. n |-> g[Walk[i]]]
           kept == {h[i] : i \in 1 .. n}
<1>7. h \in [1 .. n -> Nat] /\ \A i \in 1 .. n : h[i] \in 1 .. Earlier /\ flash[Walk[i]].seq = sent[h[i]].seq
  BY <1>3, <1>4, <1>6
<1>8. \A i, j \in 1 .. n : i < j => h[i] < h[j]
  BY <1>2, <1>4, <1>5, <1>6
<1> HIDE DEF h
<1>9. kept \in SUBSET DOMAIN sent
  BY <1>3, <1>7
<1>10. PICK K : K = kept
  OBVIOUS
<1>11. K \in SUBSET DOMAIN sent
  BY <1>9, <1>10
<1>12. Ascending(K) = h
  <2>1. K = {h[i] : i \in 1 .. n} /\ h \in [1 .. n -> Nat]
    BY <1>7, <1>10
  <2> QED
    BY ONLY <1>5, <1>8, <2>1, RisingIsSorted
<1>13. Len(h) = n /\ DOMAIN h = 1 .. n
  BY <1>7, FunctionIsSequence
<1> HIDE DEF kept
<1> SUFFICES LET at == Sorted(K, <)
             IN  /\ Len(Walk) = Len(at)
                 /\ \A i \in DOMAIN at : flash[Walk[i]].seq = sent[at[i]].seq
  BY <1>11
<1> QED
  BY <1>5, <1>7, <1>12, <1>13 DEF Ascending, Sorted

(* The flash log keeps to the order of the UART stream and holds nothing   *)
(* that was not sent, until the power or the flash fails: for every number *)
(* of tasks and events, every geometry of the log area and however often   *)
(* the numbers wrap, start again or occur twice, a dump of the log is a    *)
(* subsequence of what write_frame took.                                   *)
THEOREM StoreFollowsUart == PipelineSpec => []StoreKeepsUartOrder
<1>1. PipelineInit => CleanInv /\ UartInv
  BY InitCleanInv, InitUartInv DEF PipelineInit
<1>2. PipelineInv /\ CleanInv /\ UartInv /\ [PipelineNext]_allVars => CleanInv' /\ UartInv'
  BY StepCleanInv, StepUartInv, PipelineStepsStorage DEF PipelineInv
<1>3. PipelineInv /\ UartInv => StoreKeepsUartOrder
  BY DumpInUartOrder
<1> QED
  BY <1>1, <1>2, <1>3, PipelineInvHolds, PTL DEF PipelineSpec
=============================================================================
