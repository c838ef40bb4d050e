# Verification of PicoWEnvironmentLogger

TLA+ models of the firmware of the Pico W environment logger, TLC runs that
check them on small instances, and TLAPS proofs about them for every size. The
models are translated from `src/src`, `src/include` and `src/debug`; `PROJECT.json` names,
for every definition that models code, the file and the lines it stands for.

## 1. The system

A Pico W runs FreeRTOS on one core, with preemption and time slices. Sensor
tasks make log events, a logger task sends each event as a binary frame on a
UART and stores the same frame in an external SPI flash, and a command task on
the console pauses logging, sends stored frames again, or erases them. A web
server shows the last environment values.

```
 adc_task  temperature_task  environment_task        button_task
     \           |      \          |      \               |
      \  makeEvent, log  \   I2C    \   environment_data  | display_mode_queue
       v         v        \   |      \       |            v
      EventLogger::queue_  \  v       v      v       temperature_task (LCD)
             |            shared_io_mutex   HttpServer
        logger task            ^
          |       \            |
   write_frame   append ---> FlashLogStorage <--- command_task (a, lN, e)
          v                    |  mutex_                |
       UartDma <---------------+-----------------------+  write_buffer_blocking
       ring, DMA channel,   FlashDriver
       completion interrupt  W25Q32
```

| Component | State it keeps | Operations | Hard part | What makes it correct |
| --- | --- | --- | --- | --- |
| UartDma | ring, head, tail, DMA transfer, statistics | `write_frame`, `write_byte`, `write_buffer_blocking`, `dma_irq_handler` | two writers, a DMA channel and an interrupt on one ring; an early return that leaves interrupts off | bytes leave once and in order; none is stranded; a log frame is whole |
| FlashLogStorage | flash area, write/oldest/newest address, newest number, count | `append`, `eraseLogArea`, `rebuildIndexFromFlash`, `sendFramesOldestFirst`, `sendLatestFrames` | power loss and failing commands at every step, wrap of area and numbers, an index beside the data | the index is right; only the oldest frames are lost; a dump is complete and in order |
| EventLogger | `seq_`, `queue_`, counters | `makeEvent`, `log`, `receive`, `sendBinary`, `setNextSeq` | several producers, full queue, refused frames, failed appends | per-task order; every event sent or counted; numbers stay fresh |
| command_task | `g_log_paused`, the command | line editor, `p r a lN e s h` | works on the log while others log; a buffer of 32 keys | commands do what `printHelp` says, and are the lines typed |
| FlashDriver | none; the chip's WEL and WIP | `pageProgram`, `sectorErase`, `writeEnable`, `waitWhileBusy` | deadlines of a task that can be preempted | success means done; the chip is at rest between calls |
| Temperature task, ADT7410, AQM0802 | `initialized_`, `current_mode`, `lcd_initialized` | cycle of 1 s: init, read with retry, mode, display | a sensor that goes and comes, the mutex, the maintenance flag | the sensor is used again; the display follows the button |
| Environment task, BME280, EnvironmentData | calibration, last values and `valid` | read with retry, publish | values of a chip that was not set up | valid values were measured |
| Button task | `mode`, `display_mode_queue` | debounced press | a queue of length one, overwritten | the last mode gets through |
| `shared_io_mutex`, `g_flash_maintenance_busy` | the mutex, the flag | take with 1000 ms, give; raise, lower | flag checked once per cycle, early returns | no I2C while flash writes; the flag goes down again |
| ADC task, utility | moving average | sample, filter, log | a ring with a running sum | the mean of the last 16 samples |
| Wi-Fi task, HttpServer | `g_wifi_status`, `g_http_server_started`, two static reply buffers, lwIP's control blocks | join, watch the link, `http_server_init`, accept and receive callbacks | link lost and regained, clients that vanish, a small heap, one buffer for all replies | replies are not mixed; every request ends; nothing leaks; status and server follow the link |
| Host viewers (`debug`) | place in the stream, `expected_seq`, counts | resynchronise on the magic bytes, read a frame, detect gaps | a broken frame before a good one | later frames are found again; gaps are losses |

`PROJECT.json` has the complete list, with the parts that are left out and why,
and the list of hazards, each at the line where it bites.

## 2. Modules

| Module | Models | State ↔ code |
| --- | --- | --- |
| `ByteFifo` | what the transmit path promises: a bounded FIFO of bytes | abstract |
| `UartTx` | `UartDma` transmit side with its two callers | `buf, head, tail, running, active` are `tx_buf_, tx_head_, tx_tail_, tx_dma_running_, tx_dma_active_count_`; `rd, left, pending` are the DMA channel; `masked` is PRIMASK |
| `LogStore` | what the storage promises: a list of frames that loses its oldest ones | abstract |
| `FlashLog` | `FlashLogStorage`, one flash command per step | `flash` is the log area cell by cell; `index` is the five members of the index; `op` is the call under way; `busy` is the maintenance flag |
| `LogPipeline` | `EventLogger`, the sensor tasks' logging, `command_task`; EXTENDS `FlashLog` | `queue`, `paused` and the counters as named; `task`, `logger`, `command` say where each task is in its function |
| `FlashDriver` | the driver's deadlines and the chip | `chip` is WEL, the time WIP stays up, and whether a command was taken; `driver` is the place in the function and the ticks left |
| `SharedIo` | everybody who uses `shared_io_mutex`; EXTENDS `FlashDriver` | `holder` is the mutex; `temperature`, `environment`, `writer` say where the tasks are; `latest` is `g_env_data` |
| `WebServer` | `WifiTask`, `HttpServer`, and of lwIP what they rely on | `wifi` is the place in `wifi_task`; `status`, `started`, `response` as named; `port80` is what lwIP holds for the port; `conn`, `inbox`, `held` are a control block, its segments not yet seen and its pbufs in use (`PbufFree` is the callback's `pbuf_free`, the rest is freed by lwIP); `client` is the browser |
| `LogViewer` | `logger_viewer.py` and the layout of `buildFrame`; one step per frame read | `sent` is a sequence of cells, each a byte with the frame it came from; `place` how far `reader` is; `shown` what was printed as good; `stats` is `Stats` |
| `CommandLine` | line editor and parser of `command_task`; one step per key | `line.text` is `cmd_buf` up to `pos`, `line.ran` what the lines did; `keys` is history |
| `MovingAverage` | `MovingAverage` of `utility.h`; one step per sample | `buffer, index, count, sum` as named; `totals`, the sums of the first 0, 1, 2 ... readings, is history |
| `Bme280` | calibration, raw values, temperature and humidity of `BME280::read`; one step per reading | `cal` is `cal_`, with `t_fine`; `sensor` is what the chip stores |
| `UartTxProofs`, `SharedIoProofs`, `WebServerProofs` | proofs about the module named | |
| `FlashLogProofs`, `FlashOrderProofs`, `LogStoreProofs` | proofs about `FlashLog`, each on top of the one before: types, sectors, what the index counts, erased cells and distances around the log; the order of the frames and what a dump sends; that `FlashLog` implements `LogStore` | |
| `LogPipelineProofs` | proofs about `LogPipeline`, on top of `FlashOrderProofs` | |
| `PartsProofs` | proofs about `CommandLine`, `MovingAverage` and `LogViewer` | |
| `MC*` | instances for TLC | |

How steps were chosen. A handler that runs with interrupts off is one action
(all of `UartTx`). A function that gives a mutex back between two calls, or in
which power can fail in the middle, is one action per stretch between two such
points (`append` is `BeginAppend`, `EraseSector`, `ProgramPage`, `Verify`).
Where two statements may be separated by a task switch that matters they are
two actions (`MakeEvent` and `Enqueue`; `EraseDone` and `SetNextSeq`).

Composition. `LogPipeline` runs `FlashLog`'s actions under the logger and the
command task; `SharedIo` runs `FlashDriver`'s. Two boundaries are abstract. The
pipeline sees the UART as a choice to take or to refuse a frame, which is what
`UartTx` shows of `write_frame`. `FlashLog` sees a flash command as done,
failed or cut short; `FlashDriver` shows that "done" can be believed
(`SuccessMeansDone`), and that a command that failed by its deadline may well
have been done, which is why `AppendFails` and `WipeFails` allow both.

What is abstracted. A frame's bytes are numbered cells: CRC, header layout and
payload are not computed, and a CRC never matches by accident. A cell
programmed twice is garbage. Sequence numbers are counted modulo `SeqCount`
with the code's signed comparison. Text, formatting and console output are left
out. In `SharedIo` sensor values are "measured" or "not measured"; in
`WebServer` a value is the number of the publication it came from, a request
one segment or the two halves of its first line, and a reply the kind and the
value it carries. `LogViewer` shrinks the frame (header of two bytes, CRC of
one, bytes up to 9) and keeps what matters: a byte can be half a magic, and a
false length can be longer than any real frame.

`WebServer`'s step is a callback: `pico_cyw43_arch_lwip_threadsafe_background`
runs lwIP under one lock, which `http_server_init` takes as well. A segment with
an error code never reaches the receive callback (lwIP passes `ERR_OK`), so its
second branch is not modelled.

## 3. What TLC checks

Every property has at least one mutant: a definition of the model changed as a
bug in the code would change it, under which TLC finds the property violated.

| Run | Instance | Shows |
| --- | --- | --- |
| `uart_tx` | ring of 4, chunks of 2, frames of 1 to 3 bytes, 3 log frames, 1 stored frame | `UartTx` implements `ByteFifo`; transfers stay in the ring and in the accepted bytes; no byte is stranded; log frames are unbroken; every byte is sent; a dump ends |
| `uart_frames_mixed` | ring of 4 | **violated**: a dumped frame has a log frame inside |
| `flash_and_parts` | storage: 2 sectors of 2 pages of 4, wrap at 20 numbers; frames of 3 and 7 while nothing fails, frames of 3 with two faults of any of three kinds anywhere; viewer: 5 short frames of 3 kinds, any run of bytes lost; line editor: 7 keys, buffer of 4; average: windows up to 3, up to 7 samples; BME280: 2 calibrations, raw values sampled over the range | placement, programming, the rebuilt index, complete dumps and the latest frames, healing after a bad read-back, isolation of sectors; `FlashLog` implements `LogStore`; the viewer finds the rest and counts the losses; lines run as typed; the average is that of the window; readings depend on this reading's registers alone |
| `flash_exact_fit` | frames as long as a sector, one power loss | **violated**: a dump after a restart misses frames |
| `flash_wipe_busy` | one failed erase | **violated**: the maintenance flag stays up |
| `pipeline` | two tasks, two events each, queue of 2, one power loss | per-task order, nothing lost uncounted, flash follows the UART, fresh numbers after the restart |
| `pipeline_live` | two tasks, all commands, any one fault | the queue always drains; the index counts what is in flash |
| `pipeline_seq_race` | two tasks, one power loss | **violated**: a dump after a restart misses the last frame |
| `shared_io` | deadlines of 1 and 2 ticks, 2 tries, 2 display modes, both sensors come and go | driver and mutex, sensor recovery, display |
| `env_valid` | the same | **violated**: values of a BME280 that was not set up are served as valid |
| `web` | 2 connections, a heap for one reply, one publication, 2 failing calls | replies not mixed, every segment given back, requests settled, status and server follow the link |
| `web_split` | one connection | **violated**: a request for the values that arrives in two segments is given the page |

`flash_and_parts` is the run of what needs no other task: the storage, once with
frames of all lengths and no fault and once with short frames and faults, and the four small modules `LogViewer`, `CommandLine`, `MovingAverage`
and `Bme280`. They share no variable, so `MCParts` lets each behaviour exercise
one of them: interleaving them would only repeat the same states.

Why the bounds are enough. The ring of 4 wraps, fills, refuses a frame, and has
runs that are cut by the chunk limit and by its end. Two sectors are
all neighbours a sector can have; frames of 3 and 7 in sectors of 8 give a gap
at the end, a second frame that does not fit, and a frame over two pages; 20
numbers let the signed comparison wrap while at most six frames are stored. Two
faults let a second one hit the recovery of the first. A torn program leaves each
of its cells done, untouched or garbage; a torn erase leaves any set of the
sector's frames, and its other cells all erased or all garbage. Two tasks and a queue
of one or two give every overtaking and every full queue between two producers.
A deadline of two ticks and a chip of one or two covers a chip that is early
and one that is just in time. The length of `append` and of the erase loop in
commands is one here (`MaxCommands`); a longer one repeats the same steps, and
the proof is for any number. Two
connections and a heap for one reply are enough for two replies to meet in the
buffers and in the heap; more connections only add waiting ones. Five frames
are longer together than the longest false frame by half or more. Seven keys on a buffer of
three characters reach every full, emptied and re-used buffer; seven samples go
round a window of three twice. `SYMMETRY` is used in `pipeline` only, where no
temporal property is checked and no task is special.

Deadlock checking is off where the bounds on frames, events or faults let the
model stop although the program goes on; in `web` also because `wifi_task` ends
itself when `cyw43_arch_init` fails.

Conditions in properties. `IndexMatchesFlash`, `SendsAllOldestFirst`,
`SendsLatest`, `IndexCountsFrames` and `VerifyFailureHeals` do not speak of an
index that an erase left stale by failing half way; its mark is the flag left
up, and `flash_wipe_busy` is about just that. `VerifyFailureHeals` got this
condition when it was proved: after a failed erase the search that follows a
bad read-back takes some frame the erase left for the newest, and the cells
behind that one may be half erased.
`StoreKeepsUartOrder` is stated before
the first restart, since `pipeline_seq_race` shows what the restart does to it.
`NextSeqIsFresh` is about restarts: `pipeline` has no erase, which breaks it when
somebody logs meanwhile (`task_command.cpp:112`, below). `ProgramsErasedCells` is stated until
something has failed.
`RepliesUnmixed` speaks of requests that `http_request_is_api` can recognise: the
others are those of `ApiServesJson` (`web_split`). `RequestsSettled` lets a
client's connection stay half closed if the `tcp_close` of `HttpServer.cpp:77` fails,
whose result nobody looks at. `ServerComesUp` supposes that `tcp_listen` never failed and that the station
reconnects again and again; `LinesRunAsTyped` that no line overflows the buffer;
`ViewerRecovers` that no payload holds the two magic bytes together, as no
ASCII text does. What happens otherwise is told below.

### Fairness

- `UartTx`: the DMA channel moves on, an unmasked raised interrupt is taken, and
  the writers take their next step. No fairness is asked of anybody to offer a
  frame. The logger outranks the command task but sleeps between events, of
  which the model has finitely many.
- `LogPipeline`: strong fairness of the logger's step: it has the highest
  priority (3, `main.cpp:47`) and a FreeRTOS mutex goes to the waiting task of
  highest priority, so it gets `mutex_` between two commands. A dump ends
  (`DumpFinishes`), an erase is a loop over the sectors, the board is powered
  up again.
- `SharedIo`: tasks run on and time passes. A task that asks for the mutex again
  and again gets it, and from some time on within its 1000 ms. This is an
  assumption about load: a flash command takes less than a second and gives the
  mutex back, but the code does not bound how long a starved task waits. A
  sensor that stays connected answers again and again, not always.

- `WebServer`: `wifi_task` goes on (every call in it has a time limit), and lwIP
  calls back and ends closed connections, which its timers see to. Nothing is
  asked of clients, of the link or of the sensors.

### Disagreements with what the repository says

1. `UartDma.cpp:189` A stored frame is sent byte by byte, each in a critical
   section of its own, and the logger's frames come between them; the
   receiver has to resynchronise. (`uart_frames_mixed`)
2. `FlashLogStorage.cpp:489` `nextSectorAddress` goes on a whole sector from an
   address that already is a sector start. With a newest frame that ends at a
   sector end, the write pointer after a restart skips the sector with the
   oldest frames; dumps stop early. (`flash_exact_fit`)
3. `FlashLogStorage.cpp:112` An erase that fails leaves
   `g_flash_maintenance_busy` up and the sensor tasks idle; the index stays as it
   was too. (`flash_wipe_busy`)
4. `EventLogger.cpp:118` Numbering and queueing are two steps; frames can be
   stored out of number, and the rebuilt index then takes the wrong one for the
   newest. (`pipeline_seq_race`)
5. `EnvironmentTask.cpp:66` The BME280 is read and its values published as valid
   although its init failed or it lost its set-up. (`env_valid`)
6. `HttpServer.cpp:202` The path is looked for in one segment. A request for
   `/api` whose first line comes in two is answered with the page, where `README.md`
   promises JSON. (`web_split`)

Noticed, and no property:

- `task_command.cpp:112` The number is set to 0 after the erase has given `mutex_`
  back. An event numbered in between is stored first, its number is given out
  again, and the dump stops at the first of the two. `LogPipeline` has these steps
  (`EraseDone`, `MakeEvent`, `SetNextSeq`): `SendsEveryFrame` and `NextSeqIsFresh`
  fail where an instance allows both an erase and a task that logs during it.
- `EventLogger.cpp:101` calls the UART's counter lost bytes, but `UartDma.cpp:180`
  counts every retry of one byte. The high-water mark (`EventLogger.cpp:125`) is
  read after the event may have left the queue.
- `HttpServer.cpp:77` The result of `tcp_close` is not looked at and no `tcp_poll`
  is set: if it fails when the client has closed his side, the control block stays
  half closed until the link is lost. The model has this step (`RecvFinFails`).
- `HttpServer.cpp:131` sets neither `tcp_err` nor `tcp_poll`, and keep-alive is
  off: a client that connects, sends nothing and vanishes holds one of five
  control blocks until a restart.
- `HttpServer.cpp:160` A failed `tcp_listen` leaves the bound block behind; every
  later `tcp_bind` of the port fails. A failed start is tried again only after
  the link was lost.
- `task_command.cpp:142` What is typed behind the 32nd key of a line counts as a
  new line: its last character may be an `e`.
- `logger_viewer.py:322` compares numbers without their wrap. After an erase,
  which sets them back to 0, frames are called late until the old number is
  reached. On a live port a read that times out inside a frame (line 178) drops the bytes
  read so far; the model's stream only ends. `ADC_RE` (line 289) does not match the text that `adc_task` logs.

## 4. What is proved

TLAPS checks these for every value of the constants that the named assumptions
allow: sizes positive, frames no longer than a sector, a ring of two or more
slots, `ChipTime <= BusyWait`, three or more sequence numbers (of two
numbers on a circle neither is newer; the program has 2^32), and for the viewer
no more frames than a byte of the model can number.

| Theorem | Says | Argument |
| --- | --- | --- |
| `UartTxProofs!TypeCorrect`, `WindowInRing`, `NothingStranded` | types; DMA transfer inside ring and data; bytes in the ring have a transfer | `Inv` |
| `UartTxProofs!FifoImplemented` | `UartTx` implements `ByteFifo` | `RingContents` |
| `UartTxProofs!LogFramesWhole` | a log frame is accepted with no byte of another inside, and so, by `FifoImplemented`, leaves | what a push appends |
| `FlashLogProofs!TypeCorrect`, `AppendInSector` | types, faults included; an append never leaves its sector, its page or the area | `OpShape` |
| `FlashLogProofs!SectorsIsolated` | no flash command, complete, failed or torn, touches another sector | arithmetic of sectors |
| `FlashLogProofs!AppendOnErasedCells` | until something fails, an append programs erased cells only | `CleanInv` |
| `FlashOrderProofs!NumbersStayFresh`, `NumbersFreshWithoutFaults` | the next number is newer than every stored one | `Aged` |
| `FlashOrderProofs!IndexTrue`, `IndexTrueWithoutFaults` | the index names the true oldest and newest frame and counts them all | `OrderInv` |
| `FlashOrderProofs!DumpsOldestFirst`, `LatestAreLatest`, `DumpsWithoutFaults` | command `a` sends every frame once and by age, command `lN` the newest | `OrderInv`, then `WalkIsByAge` |
| `FlashOrderProofs!ReadBackHeals` | a frame that cannot be read back costs no other | `HealInv` |
| `LogStoreProofs!LogStoreImplemented`, `LogStoreWithoutFaults` | `FlashLog` implements `LogStore`: each step adds the newest frame, loses oldest ones, or is a stutter | `StoreInv` |
| `LogPipelineProofs!PipelineTypeCorrect` | types, queue no longer than its length | `PipelineInv` |
| `LogPipelineProofs!IndexCountsAlways` | the index counts what is in flash and its ends are in flash, faults and restarts included | `IndexInv` |
| `LogPipelineProofs!OrderOnTheUart` | the events of a task leave in the order in which it made them | `TaskOrder` |
| `LogPipelineProofs!EveryEventCounted` | each event a task made since the restart is on its way, was counted as sent or was counted as dropped | `Counted` |
| `LogPipelineProofs!StoreFollowsUart` | until something fails, a dump of the flash log is a subsequence of what the UART took | `UartInv` |
| `SharedIoProofs!TypeCorrect` | types | `Inv` |
| `SharedIoProofs!DriverTellsTruth`, `ChipAtRest` | success means the chip has done it; the chip is at rest between calls, also after a failure | `DriverShape` |
| `SharedIoProofs!BusAndFlashApart` | no I2C transfer while the chip works | `DriverShape` and `MutexShape` |
| `WebServerProofs!WebTypeCorrect` | types | `WebInv` |
| `WebServerProofs!OwnReplies` | a client whose request is recognised reads the answer to it, not older than it | `Agree` |
| `PartsProofs!AverageIsOfWindow` | the average is that of the last N readings, or of all while there are fewer | `AverageInv` |
| `PartsProofs!CommandsAsTyped` | the lines run are the lines typed, every rubout applied | `LineInv` |
| `PartsProofs!ViewerRecoversAlways` | whatever run of bytes is lost, the viewer shows every frame before it and those further behind it than a misread frame can reach | `ViewerInv` |
| `PartsProofs!GapsAreOfLosses` | no number is counted as late or duplicate, and none as missing that is not | `ViewerInv` |

The inductive invariants.

- `UartTx`: `DmaShape` ties the channel to the ring (while a transfer runs, its
  read index is the tail plus what it has moved). `RingContents` says that the
  slots from the read index to the head hold exactly the accepted bytes that
  are not on the wire. Without it the step that moves a byte cannot be
  shown to move the right one. Every step then is a `Put`, a `Deliver` or a
  stutter of `ByteFifo`. For `LogFramesWhole` no more is needed than that the
  logger pushes a frame as a whole.
- `FlashLog`, places: `OpShape` says where an operation can stand: a frame being
  written lies in one sector, its address inside it, a deliberate erase stands
  at a sector start. Lemmas about `Wrap`, `NextSector` and `SectorEnd` do the
  modular arithmetic once.
- `FlashLog`, counts: `IndexInv` follows the index through an append. It counts
  first the frames that the erase will leave and then the frames besides the new
  one, which holds only as long as the bytes programmed so far are intact;
  once they are not, the read-back fails and the index is rebuilt. That no
  frame's cells cross a sector (`HomedIn`) is what lets an erase take
  whole frames away.
- `FlashLog`, clean cells: `CleanInv` says that until something fails the cells
  from the write pointer to the end of its sector are erased, or it stands at
  a sector start. After a fault that is false: behind a torn append lie
  programmed cells, and `CleanFrom` looks only at one byte. What a fault may
  cost is the subject of `ReadBackHeals`.
- `FlashLog`, order: `OrderInv` says that going backwards from the write pointer the
  frames are met by age (`Ordered`), that the pointer does not stand
  inside the frames of its sector (`Apart`), and that the index names the ends
  (`EndsNamed`). The age of a frame is the distance of its number from the next
  one; all ages are less than half of the numbers, which makes the code's
  signed comparison the order of ages. After power-up there only is
  some place and some number with this order, and `RebuiltOrdered` shows that
  the search of the whole log finds it.
- `FlashLog`, ages: `Aged(n)` says that the age of a frame, times the
  shortest frame's length `n`, is no more than the room between it and the write
  pointer, and one round of the log more for each fault: a failed append uses a
  number and stores nothing, and a search of the log may set the pointer
  back. Hence no frame gets half of the numbers old before it is erased.
- `FlashLog`, healing: `HealInv` says that the pointer stands right behind the
  newest frame or at a sector start (`Following`, unless a failed erase left the
  index stale) and that the first frame of a sector finds it erased.
  A frame that fails its read-back therefore is not the first of its
  sector, the search finds the one in front of it, and the next sector is taken.
- `FlashLog`, dumps: the model's `ByAge` and `Walk` sort by counting. `RanksAreOneToOne` says
  that in a finite set without ties each place is taken once; with it,
  `WalkIsByAge` shows that the walk around the log and the order of numbers
  are the same sequence.
- `FlashLog` as a `LogStore`: the list is the readable frames by age, and with
  `OrderInv` a step can be compared with it: an erase takes the frames of one
  sector, which are the oldest, and a step that makes a frame readable puts it
  behind the newest. `StoreInv` is about the second: `HeadFirst` says that a
  frame's cells are programmed from its head on, and `StillWriting` that the
  frame under way is not readable before its last page. Without it the
  cells left of an earlier, torn frame with the same number could complete
  one half way.
- `LogPipeline`: `PipelineInv` is `IndexInv` with the tasks' types: what the tasks do to
  the storage are steps the storage's lemmas speak of. `TaskOrder` says that
  along what the UART took, the event in the logger's hands and the queue
  the events of a task are in its order, and that none of them is newer than
  what the task has let go. `Counted` follows an event from the task to the queue, the
  logger's hands and the two outcomes. Each step moves it by one place, and a
  restart empties all of them. `UartInv` says that the frames, met on the way
  around from the write pointer, carry the numbers of events that were sent,
  in the order they were sent (`SentInOrder`), that the index names the first
  one met, and that a frame being written is the event sent last. It speaks of
  positions and never of the age of a number, so it needs no bound on
  the numbers, which the tasks may store out of order, wrap or set back
  to 0; equal numbers may end a walk early, and `WalkGoesAround` shows that what
  it has sent by then is the beginning of the order.
- `SharedIo`: `DriverShape` says that a command is sent only to a chip at rest
  with WEL set, and that from then on the deadline is never nearer than the end
  of the chip's work, so that also a driver that gives up leaves a chip at rest.
  This needs `ChipTime <= BusyWait`: the data sheet's longest sector erase, 400 ms, against
  `WAIT_BUSY_MS` of 500. `MutexShape` says that the driver is at work only while
  the flash writer has the mutex.
- `WebServer`: `Agree` says, connection by connection, that both ends are at the
  same point: the first segment not yet read is the beginning of this client's
  request, and the reply queued for a connection that closes is the one its
  client asked for, if his request was recognised. Without the first part the reply that the callback makes
  could not be shown to fit. One lemma (`OneConnection`) says that a step at one
  connection leaves the others in agreement; each action then is about one
  connection only.
- `MovingAverage`: `AverageInv` says which reading each slot of the ring holds: those
  before the index are of this round, the others of the round before. The
  readings appear as differences of successive `totals`, so the running sum is
  the difference of two totals, and taking out the slot at the index takes out the reading
  that leaves the window.
- `CommandLine`: `LineInv` says that the buffer is the edited text of the line so
  far. `Behind` is then the number of kept keys behind a key (`BehindIsAfter`),
  so a rubout takes away exactly the last of them.
- `LogViewer`: `ViewerInv` says that the cells sent stand in order and that the
  magic bytes follow each other only at the start of a frame. In the stream with
  its loss this leaves one other such pair, across the cut. `EndsBeforeSpared` shows
  that whatever is taken for a frame ends before the next spared one, which
  therefore is met (`SparedIsMet`): a frame misread at the cut can claim no
  more than `Longest`, and any other begins where a frame was sent. A good CRC then
  makes a frame one that was sent (`GoodIsWhole`), with a number above all
  shown before, and `StatsFit` is what `update_seq_stats` has counted so far.
  A number here is one byte and the largest byte is 9, so both theorems are
  about streams of up to nine frames, with any loss, where the run has five.

The conditions of `FlashOrderProofs` and `LogStoreProofs`. `NumbersOutlast(n, MaxFaults)` compares constants: no
frame is shorter than `n`, and half of the numbers last for one round of the log
and one more per fault. The program has frames of 18 bytes or more, a log of
1 MB and 2^32 numbers, so this holds for up to some 36 000 faults. Without faults the 20
numbers of `flash_and_parts` satisfy it; for two faults it asks for 39, and the run stays
with 20, on which the properties hold as well (the bound is sufficient, not exact).
`[]SectorsNotFilled` is about the run: once something has failed, no stored frame ends with
its sector. It cannot be left out, for `flash_exact_fit` shows what
`rebuildIndexFromFlash` makes of such a frame (disagreement 2). It holds
in every behaviour of `flash_and_parts`, where frames of 3 and 7 never fill a sector of 8, and
the theorems without faults do not need it.

Only model-checked:

- all liveness (fairness and ENABLED are out of the prover's reach);
- `NextSeqIsFresh` for `LogPipeline`, where two
  tasks number their events and the order of numbers can differ from that in flash;
- `ReadingsFollowTheAir`: products of variables with divisions, which the SMT
  solver does not decide.

## 5. What is not modelled

Left out: pin and clock set-up, LED, FreeRTOS hooks, build files and the
plotting scripts, which hold no state a property could be about; the characters
on the LCD and the HTML page; the pressure formula of the BME280, which needs
integers of 64 bits; the receive side of the UART, `sendStats` and
`logFromISR`, which are compiled but used by no task.
