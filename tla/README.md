# METUCube flight software: models, checks and proofs

METUCube's on-board computer runs NASA's core Flight System (cFS). Its applications are separate
tasks that exchange messages over the cFE software bus. Three boundaries make the system hard to get
right: the CAN bus (and an SPI line) to the other cards, the file system, where the Data Storage
application (DS) keeps telemetry and photos across restarts, and the network to the cameras and to the ground.

The modules here are translated from the code in `src/apps/`. `PROJECT.json` maps every definition to
the lines it stands for, and lists the hazards with the properties that cover them.

## 1. Inventory

| Component | State | Operations | Talks to |
|---|---|---|---|
| **COMMMC image transfer** (`commMC_app_imgxfer.c`) | transfer state, open file, size, chunk size and count, current chunk, idle ticks, last photo's path | request, BEGIN_ACK, CHUNK_ACK, SPI_TX_DONE, RESULT, idle tick, DS file-complete | CANIOMC (control frames, chunks for SPI), the COMM card through it, DS |
| **CANIOMC segmentation** (`canIOMC_segmentation.c`) | four reassembly slots | segment and send, feed a frame | CAN bus |
| **CANIOMC bridge** (`canIOMC_app*.c`, the SocketCAN and spidev drivers) | open devices, configuration table, SPI notice | start, forward to CAN, poll and publish, route, SPI write, heartbeat, housekeeping | every subsystem application, CAN, SPI |
| **DS packet filter table** (`ds_table.c`, `ds_cmds.c`) | filter table, hash lists, subscriptions | ADD MID, REMOVE MID, filter commands, table load, look-up, judging a packet | software bus, ground |
| **DS destination files** (`ds_file.c`, `ds_table.c`) | per destination: handle, name, size, age, sequence count, enabled, path, base name and extension; the counts in the Critical Data Store | store packet, create, close, move, age, commands, table load, restart | file system, COMMMC (file-complete telemetry) |
| **HK combiner** (`hk_utils.c`, `hk_app.c`, `hk_dispatch.c`) | copy table, runtime table, combined packets in a memory pool, subscriptions | packet in, combined packet out, table validation and update, commands | every application's housekeeping, the ground |
| **POWERMC, MPPTMC, ADCSMC, PAYLOADMC, COMMMC as subsystem applications** | last telemetry, miss count | wake-up, housekeeping packet, CAN request, telemetry and heartbeat in | CANIOMC, their boards through it, HK |
| **PAYLOADMC cameras** (`payloadMC_app_cmds.c`, `payloadMC_gvcp_hal_udp.c`) | cameras initialised, imaging mode, the frame being put together | take photo, capture frame, camera heartbeat, chunks to DS, close the photo file | cameras over UDP, DS |
| **COMMMC ground link** (`commMC_app_cmds.c`, `commMC_app_utils.c`) | position in the file, counters | file to ground at start | ground (TCP) |
| **sch_lab** | semaphore, per message a counter | tick, 1 Hz message, schedule table | wakes every application |
| ground tools, mission definitions | none of their own | | |

Components interact by messages only. The software bus copies a message into each subscriber's pipe;
when a pipe is full the message is dropped and the sender is still told `CFE_SUCCESS`. Each
application is one task that takes one message at a time, or times out waiting. So a handler is one
atomic step, and interleaving happens between handlers of different tasks. Where a handler takes long
(PAYLOADMC's capture, COMMMC's file to the ground) or can be cut by a reset (DS storing a packet), it is
several steps.

What is hard:

* **Ordering and stale messages.** The image transfer's answers carry no transfer identity: the session of
  BEGIN_ACK is stored and never compared, and RESULT has no index either. A late answer of an aborted
  transfer can arrive in a state of the next one that waits for exactly that message.
* **Loss.** CAN frames and camera packets are lost, a send can fail half way through a message, pipes drop.
* **Time.** The abort guard counts receive timeouts, and every message restarts the timeout. A stale flag
  counts wake-ups without an answer, and the first request is made before the answer could be heard.
* **Bounds.** Chunk indices are 16 bits wide, packet counts 14, there are four reassembly slots, pools and
  pipes have few places, miss counters stop at 255.
* **Tables replaced under traffic.** HK frees and takes pool buffers and subscriptions while packets made for
  the old table are still in its pipe.
* **Data structures under long command sequences.** DS's hash lists.
* **Persistence.** File names come from counts that reach the Critical Data Store some steps later.
* **Long handlers.** While PAYLOADMC captures, its housekeeping requests, its board's answers and its
  heartbeats queue up in one pipe.

## 2. Modules

| Module | Models |
|---|---|
| `ImgXfer` | the transfer state machine, one action per entry point, open to any message in any state |
| `ImageDelivery` | what a transfer promises: one photo's bytes accepted from first to last, success counted only then |
| `ImgXferDelivery` | the refinement mapping from `ImgXfer` to `ImageDelivery` |
| `ImgXferLink` | a closed system: `ImgXfer`, both pipes, CANIOMC's start and loop, CAN, SPI and the COMM card |
| `SchLab` | the scheduler: timer, semaphore, 1 Hz synchronisation, schedule table |
| `ImgXferIdle` | `ImgXfer` under COMMMC's receive timeout and the wake-ups of `SchLab` |
| `CanSegmentation` | segmentation and reassembly on a shared bus that loses frames |
| `MessageChannel` | what they promise: whole messages, in order and once, or none |
| `DsFilterHash` | DS's filter table with its hash lists and subscriptions |
| `DsFilter` | on top of it, the filters themselves: verification, commands, and which packets they pass |
| `DsFile` | DS's destination files, their names, limits and counts across resets |
| `HkCombiner` | the HK application, alone among users that may do anything (`HkSpec`) |
| `Subsystems` | the five subsystem applications, their pipes and their boards, on top of `HkCombiner` |
| `PhotoCapture` | PAYLOADMC's cameras, a capture, its chunks and DS's photo file |
| `GroundLink` | COMMMC's file to the ground |
| `Housekeeping` | the composition of the last four |
| `ImgXfer_proofs`, `ImgXferLink_proofs`, `CanSegmentation_proofs`, `DsFilter_proofs`, `DsFile_proofs`, `HkCombiner_proofs`, `PhotoCapture_proofs`, `Housekeeping_proofs` | theorems, see section 6 |
| `MC*` | instances for TLC |

Definitions whose comment starts with "Mutant" are plausible wrong versions of the definition that
follows them. They are part of no specification. Substituting one shows that a property can fail.

**ImgXfer.** The variables are the `Xfer...` fields of `COMMMC_AppData_t`. A photo stands for its path, and
`NoPhoto` for `HasLastPhoto == false` or a null `FILE *`. The two command counters are modelled by what
transfers add to them. `sent` holds the messages the last handler transmitted: at most one, and for an
abort possibly none, since the ABORT is best effort. `handed` is a history of the slices handed to
the SPI service. Failures of `fopen`, `fread`, `fseek`, `OS_TranslatePath` and
`CFE_SB_TransmitMsg` are choices. File contents, the CRC, byte order and event messages are left out;
the casts to `uint16` of the chunk index are `% IdxMod`. The file size is a natural number, which is
faithful up to the 4 GB a `uint32` holds.

**ImgXferLink.** Pipes are bounded sequences with the software bus's drop on overflow (`Post`). CANIOMC starts
with both devices, without SPI (it then runs and answers every chunk with a failure), or not at all (no
device for CAN, no configuration table: nobody hears COMMMC). One CANIOMC step is one pass of its main loop:
forward one message to CAN and drain the receive side, write one chunk to SPI and notify, answer a
heartbeat or housekeeping wake-up, or time out and drain. The COMM card is not in the repository. It is
modelled from what COMMMC's handlers and `canIOMC_app_header_defs.h` ask of it: it answers a BEGIN with a
chunk size or refuses it, arms its SPI receiver before acknowledging a chunk, refuses a chunk it does not
expect, and judges at END whether it has every slice. Control messages travel as wholes here;
`CanSegmentation` looks below that level.

**SchLab and ImgXferIdle.** The timer gives a counting semaphore, the task takes it tick by tick and counts every entry of
the table; before the first 1 Hz message it sends nothing, without its devices it ends. `ImgXferIdle` counts
in seconds: the receive timeout is five seconds, the two wake-ups of COMMMC (1005 and 1201 ticks of 10 ms) are
rounded to 10 and 12 seconds, and both they and the COMM telemetry the former asks for restart the timeout. The
initial state allows every phase between them, and the scheduler may be a second behind.

**CanSegmentation.** A stream is a (sender, receiver, message id); a frame is (stream, sequence type, the
part of the message in it). `Arrive` is one frame through `CANIO_FeedFrame`, `Lose` a lost frame and
`StopShort` a message abandoned half way. Streams to other nodes use slots too, as in the code, which
filters receivers only after reassembly. `Published` is the length check CANIOMC makes before it publishes telemetry; routed messages
have none, but they are single frames. `intact` is the history of whether all of a message arrived so far and its beginning was not refused.

**DsFilterHash and DsFilter.** One hash link per filter entry, exactly as `HashLinks` is indexed. `AddMsgID` does what
`DS_TableAddMsgID` does and no more: it does not clear `Next`. A walk longer than the table has met a
cycle; the action then sets `hung`, as the DS task would never take another message. The bus may refuse to subscribe DS or to take a
subscription back, for a command or for any ID of a table (`Refusable`); DS looks at neither answer and goes on. `refused` is the history of the IDs
for which it last did. `DsFilter` extends every operation with
what happens to the entry's filters, adds the FILTER FILE, TYPE and PARMS commands with their verification, and translates
`DS_IsPacketFiltered` with the widths of its time value (eleven bits of seconds, four of subseconds). `ordered` is the history of
what the ground last asked for. A message ID stands in a table once, as in the delivered one.

**DsFile.** A packet's way to its destinations is cut at what survives a reset: a file created
(truncating one of the same name), a header written, the Critical Data Store (CDS) copied, a packet
written. A reset may fall between any two of these. A command, a table update and a housekeeping
request are one step each, between packets, as DS is one task. A file name is its destination,
its stem (path, base name and extension, which commands and tables change), its sequence part and whether it was moved. `disk`
counts the whole packets in each file; file contents, the header rewritten at close, telemetry counters and rates are left
out. Failures of file creation, writes, moves and CDS accesses and of the default table's load are choices; a CDS area that
cannot be created or filled counts as not there. `handles` is what OSAL holds,
counted apart from what DS believes (`open`), so that a leak shows. `lost` and `rewound` are histories:
files truncated or replaced with packets in them, and destinations whose count anything but the
increment in `DS_FileCreateDest` set back. `AppNames` are the application names of the build,
on which the scheduler's entry for DS depends.

**HkCombiner.** A copy table is a function from entries to records with the fields of `hk_copy_table_entry_t`; the runtime table is
one function per field. The pool is a set of blocks, each free or holding a packet named by its header, and `PutPoolBuf`,
`GetPoolBuf` and `Subscribe` may fail at any entry (`keep`, `refuse`, `deny`). The bytes an entry copies are one value in
`cell`. A copy to the null pointer, or past the end of a buffer, sets `run` to `"FAULT"`: what happens then is not
defined. Histories: `refused`, `denied` and `leaked` say what the pool and the bus did, `since` what arrived
since a packet was last sent. The counters are left out but for `MissingDataCtr`, which is what tells the ground that a packet
is incomplete.

**Subsystems.** An application's whole housekeeping cycle: the wake-up fills the packet from the cache, with the stale flag as
`HkPacket` computes it, sends the request over CAN and counts a miss; telemetry or a heartbeat clears the count. Each
of the five applications has its own operators, since subscriptions, request and start differ; what they share is
stated once (`PrepareHkPacket`, `Alive`, `Receive`). `Published` is CANIOMC's routing by sender and message ID. `prompt` is
the history of applications whose board has always answered before the next wake-up. The boards are not in the repository; they answer a request at
most once, may ping, may stop.

**PhotoCapture.** One packet of the stream at a time, as `PAYLOADMC_GVCP_HAL_CaptureFrame` takes them: a leader begins the frame,
pixels of the same block are appended in the order they come, a trailer ends it. Packets may be lost and keep their order per
camera; several cameras on the one port interleave. Then the picture goes to DS chunk by chunk with retries, each through
DS's bounded pipe, and the close command. Of DS there is what can end the photos' file or keep a chunk out of it: `DsStores` rolls it at its size limit,
`DsCannotStore` is a file that cannot be created or a header or chunk that cannot be written (the file is closed and announced as it is, and
the destination disabled), `DsSkips` a disabled destination, `DsCloses` PAYLOADMC's command, `DsClosesEarly` the age limit or a command of the ground, `DsSwitched`
a command that enables or disables. `completed` is what DS has announced in its last step; an empty file is left out of it. Names, ages and resets are `DsFile`'s.
Histories: `spoilt` has the captures of which a chunk was dropped or not stored, that DS cut in two, or that several cameras mixed, `unclosed` those
whose close command was dropped.

**GroundLink.** The announcement, the pieces and the last packet, each on its own connection that may fail; a failed piece is
counted and the next one follows. What the ground has is a set, since its listener serves every connection in a thread of its own.

**Housekeeping.** All of these in one system. `Scenario` says what may happen in one behaviour (which applications run, which tables
may be loaded, how many commands, failures, captures), so that the cases add up and do not multiply. Scheduled wake-ups come once the
last one was served, or while the task is held up by a capture or by the file to the ground, which then fill its pipe.

## 3. Runs

### `imgxfer` (pass; 6352 states)
Any entry point, with any arguments, in any state: this covers late, repeated, reordered, truncated
and foreign messages. Photos of 1, 6 and 7 bytes with chunk sizes 1, 3 and 4 give one chunk, full last
chunks and short last chunks; 0 and 5 are unusable sizes. `IdxMod = 2` makes the index wrap after two
chunks, so a transfer of seven chunks wraps it several times. Two ticks reach the abort guard.

* `ImageCovered`, `HandedInOrder`, `ChunkInRange`: every byte goes out exactly once, in order.
* `FileOpenIffActive`, `OneOutcomePerTransfer`: no leaked handle, one count per transfer.
* `TransferIsOfOnePhoto`: a photo completed meanwhile changes nothing.
* `DeliversImages`: the refinement of `ImageDelivery`.

### `link` (pass; about two million states)
Three requests or wake-ups, one fault of any kind (a CAN loss either way, a message dropped at a pipe, a failed SPI write),
two completed files and a pipe of three; CANIOMC with either set of devices, or absent. `late` records whether the card ever let
COMMMC's timeout pass.

* `OnWireBeforeAdvance`: COMMMC asks for the next chunk only when the last one is on the wire.
* `SidesAgree`: when a slice may be clocked out the card is armed for it, with the same photo and chunk size, as
  long as the card was never late. A late card can break it: see the stale acknowledgement under section 5.
* `SuccessIsThisPhotos`: no success is counted on another transfer's verdict, as long as the card was never late.
* `TransferEnds`: every transfer ends, under the fairness below.

One fault and three requests are what a stale answer takes: a transfer that fails, one that receives what the
first left behind, and one to show recovery. A run with a second fault is too large for the time budget. Larger numbers are
covered by the proofs of the three invariants. They matter: with three requests `SuccessIsThisPhotos` holds even of a late card, with
seven it does not (section 5), which is why it speaks of a card in time.

### `idle` (pass; 5.7 million states) and `idle_retry` (violation of `NoTransferHangs`)
`idle`: with the wake-ups at every phase, the scheduler up to a second behind (`MaxLag = 1`), telemetry answers after 0 or 1 s or
never, and one stray message, a transfer whose answer is lost is aborted within 66 s (`AbortedInTime`), and none before its card has had
`MaxStuckTicks` receive timeouts, fifteen seconds, for the answer (`NotAbortedEarly`; a bound of sixteen would be violated). `idle_retry`: a card that keeps asking for the
image (every request is ignored while a transfer runs) prevents every timeout, so the transfer never ends; the scheduler is punctual there.

### `canseg` (pass; 2.1 million states) and `canseg_loss` (violation of `SuccessIsComplete`)
Two slots and four streams: single frames (which need no slot), messages of two and of three frames, and of four into a
buffer of three. The three that need a slot are one more than the slots, as five are to four in the code. Messages of a stream are told
apart modulo 2, enough to see a message joined to its predecessor.

* `RefusedOnlyWhenFull`: a message is refused only while more streams than there are slots have one under way or lost the end of one: no slot leaks.
* `OneSlotPerStream`: a stream that begins anew takes the slot it has.
* `ArrivedIsDelivered`: a message that arrives whole, fits and was not refused is handed over whole, whatever happens to the others. So the
  refused stream is the only one to suffer, and only for that message.
* `DeliversMessages`: the refinement of `MessageChannel`. It needs `MaxBurst = 1`, no two consecutive losses of a stream: with two, the end of one
  message can be joined to the start of another of the right total length, which no length check can see.

`canseg_loss` drops the length check: `CANIO_FeedFrame` itself promises a complete message.

### `dsfilter` (pass; about 221,000 states), `dsfilter_walks` and `dsfilter_own` (violations)
Four entries and five message IDs: two share a list, two another, and one is in the list of the unused
entries. `dsfilter`: four tables can be loaded, one of them refused, with filters by count and by time, filters left over in an
unused entry and the delivered ones; two filters per packet, two files, and a command per behaviour, which is what it takes
to set, or wrongly keep, one parameter. Counts and times from 0 to 7 pass the longest group twice and the end of a group of seconds (`SecondsMod = 4`,
`SubsMod = 2`). The bus can refuse two IDs, one that shares a list with another and
one in the list of the unused entries, as often as it likes; filter commands and refusals in force are counted together (`Bounded`), as the ones touch the
filters only and the others the subscriptions. `CHECK_DEADLOCK FALSE`, because a hung DS does stop.

* `PresentIsFound`, `FullMeansFull` hold until a hang.
* `SubscribedIsFiltered`, too: but for its own messages and for IDs of which the bus refused the last request, DS is subscribed to what its table
  has. An ID refused may be in the table and never received, or be received and not in the table, and the command counts as accepted.
* `StoredAsOrdered`: what the ground asked for, by whatever sequence of additions, removals, loads and commands, is what is stored.
* `WalksEnd` and `OwnMidsKept` are violated, each in a run of `DsFilterHash` alone.

### `dsfile` (pass; about 780,000 states) and `dsfile_hk` (violation of `OpenFileCloses`)
Two destinations, one of which moves its closed files, and a packet that goes to both. `MaxPackets = 3`:
with the limits chosen, a file takes one packet (`hk`; header and packet pass the limit already, and a new table
can do the same to `photos`) or two (`photos`), so three packets make every file roll and the counts wrap, whose largest value is 2.
`MaxEvents = 1`: one command, table load, clock tick, processor reset or power cycle, at any point; I/O
failures, timeouts and housekeeping are not bounded. One is what each hazard takes: a
reset between two effects, a count set back under an open file, a path changed under one. `MaxTime = 1` tells two seconds apart.

* `PacketsKept`: a count-named file that holds packets is never truncated or replaced, over processor resets at any
  point, unless its count was set back by something other than file creation.
* `CdsCurrent`: what a reset would lose is in the CDS whenever the CDS works.
* `OpenFilesSound`: one handle per open file and none otherwise; between packets, no open file without a packet.
* `SizeLimited`: a file passes its limit only with its first packet.
* `CompleteFrozen`: a file announced as complete does not change any more, which COMMMC's transfer relies on.
* `OpenFileCloses`: an open file is closed at last, if housekeeping is requested.

In `dsfile` `AppNames = {"ds"}`, the spelling the scheduler's build file looks for. `dsfile_hk` has the names of
`sample_defs/targets.cmake`; nothing else differs.

### `housekeeping` (pass; about 656,000 states)
Fifteen scenarios over the composed system, with two pool buffers, three table entries, pipes of two, a stale threshold of 2 and a
miss limit of 3 (5 and 255 in the code; the count passes the threshold and reaches the limit in both):

* one application with its board, which may answer, lose answers, ping and stop, for each of the five, and one of them, whose board keeps running, with a command and a failure of
  the table services; COMMMC beginning with a file of 0, 3 or 4 bytes (`PduLength = 2`: nothing, a rest, full pieces only);
* two applications in one packet;
* PAYLOADMC held up by captures of cameras that do not stream, so that wake-ups and answers queue up behind them;
* two captures with one camera and one mishap of DS (a failed write or creation, a file closed early, a switch), one capture with two mishaps, and one with two cameras on
  one port, with losses, DS's pipe at its limit and transmissions that fail. A picture is two chunks and a file has room for three (`FileLimit`), so a second picture in the same file
  makes it roll; two mishaps disable and enable, or fail and close;
* two pairs of tables and one table by itself loaded while packets keep coming, with one failure of the pool, the bus or the table services: an input used
  twice, a gap, an input without a packet, a packet too large, an entry that reads beyond its input, too many bytes, a place without an input.

The properties:

* `PoolSound`: each block HK holds belongs to exactly the entries of the packet it names; loads leak nothing.
* `SubscriptionsSound`: HK hears exactly what its table names, unless the bus refused it.
* `FaultsExplained`: HK writes astray only for want of a buffer, or for a table that names an input without an output.
* `CompleteIsCurrent`: a packet not counted as missing data is of this cycle.
* `NoFalseAlarm`: a board that always answers in time is never reported silent.
* `SilentBoardReported`: one that has stopped for good is reported from some time on.
* `PhotoWhole`: a file DS completes, for whatever reason, has every capture it holds anything of as one whole picture, unless a chunk of that very capture was dropped or not
  stored, DS cut it in two, or two cameras sent at once. A dropped close command lets the next capture into the file and is the only thing that does, but both are whole.
* `GroundRebuilds`: when a file counts as sent without an error the ground can put it together from packets in any order.

`CHECK_DEADLOCK FALSE`: HK's task ends when the table services fail, and a scenario's events can be used up.

## 4. Fairness

`LinkFairness` is weak fairness of each task's step and of the idle timeout: cFS tasks are scheduled by
priority and block in `CFE_SB_ReceiveBuffer`, so a task with a message gets to it, and one without gets its
timeout. The card is assumed to keep answering what it received, at any pace: `TransferEnds` does
not need it to be quick. Nothing is assumed about requests, losses and files. `IdleFairness` lets time pass
and delivers timeouts and scheduled messages; it assumes nothing of the card.

In `DsFile`, DS finishes the packet at hand (`WF` of `Storing`) and the scheduler goes on sending requests if
they are in its table at all. `SF` of `SendHk`: a request in DS's pipe is taken when DS is between packets, which
it is again and again, since the pipe is first in, first out. Nothing is assumed about packets, commands, table updates, time and resets.

In `Housekeeping`, HK, each application, DS, a capture and the file to the ground make progress when they can, and the
scheduler's wake-ups keep coming, to HK and to each application. Boards, cameras' packets and the ground owe nothing: an answer may
stay out for ever. A capture that goes on for ever holds PAYLOADMC up, so `SilentBoardReported` asks that captures end again and again.

## 5. What the violations show

1. **A stuck transfer can hang** (`NoTransferHangs`, `commMC_app.c:38`). The comment says the idle tick keeps a
   lost acknowledgement from hanging a transfer forever. It does not if messages keep arriving.
2. **A message with a hole is returned as complete** (`SuccessIsComplete`, `canIOMC_segmentation.h:101`). The
   expected sequence count is stored and never compared.
3. **The filter hash can become cyclic** (`WalksEnd`, `ds_table.c:1091`). A new link keeps its `Next`.
4. **REMOVE MID can make DS deaf** (`OwnMidsKept`, `ds_cmds.c:1286`). It unsubscribes DS's own commands, which the
   table code takes care not to do.
5. **Files are not closed for their age** (`OpenFileCloses`, `sch_lab/CMakeLists.txt:9`, against DS3002). The build looks
   for an application called `ds`; it is called `DS`. The housekeeping request is compiled out, and file ages
   are tested nowhere else. (HK, which the build spells `HK` and looks for as `HK`, is found.)

Seen while modelling, without a run of its own:

* An acknowledgement of an aborted transfer that arrives late is accepted by its index alone, so a chunk can be clocked out to a card that
  is not armed for it. If the card is late again and again its answers fall further and further behind: with seven requests the model reaches
  a transfer that takes an earlier one's RESULT for its own and counts a photo as sent that the card never judged. `XferSession`, which is
  stored and never compared, would tell the two apart.
* In MPPTMC and PAYLOADMC a heartbeat clears the miss count too, so "stale" there means neither readings nor a heartbeat; a
  packet without the flag may carry old readings.
* The first housekeeping packets, made at start, claim fresh readings of zero: the count is 0 when they are filled.
* `HK_ValidateHkCopyTable` adds up lengths and does not look at offsets, inputs without outputs or packets too large for the
  pool; those are the exceptions in `FaultsExplained`.
* A photo's close command can be lost at DS's pipe; then the next photo is appended to the same file, although the comment at
  `payloadMC_app_cmds.c:373` has each capture land in a file of its own. Such captures are in `unclosed`.
* A chunk DS cannot write closes its file and announces it like a whole photo, which COMMMC then takes for the last image; the rest of the photo, and every one after it, is
  ignored until the ground enables the destination again or loads a new table.
* Several cameras stream to one UDP port and the receiver does not tell them apart, so their blocks may mix. As long as packets keep arriving
  the receive loop has no limit, so a capture that never completes holds PAYLOADMC's task for ever.
* A filter that FILTER PARMS or FILTER FILE has filled in but that has no type stores nothing. Sequence counts wrap at 16384, where a group
  is cut short unless X divides it.
* A file sent to the ground whose pieces failed is counted as an error, and the rest follows all the same. A file that is a multiple of the
  piece's length gets one more, empty, packet. Pieces are counted in 16 bits and packets in 14; files that pass either are assumed away.
* sch_lab's periods for the five applications and HK differ by a tick each to keep them apart; they drift against each other, and two wake-ups
  fall on one tick now and then. Nothing depends on it.
* Nothing wakes CANIOMC for its own housekeeping packet, and HK's table does not name it. Its configuration table's reload is called nowhere.
  Imaging mode is cached by CANIOMC and COMMMC and read by neither.
* `ds_msgdefs.h` says that the strings for path, base name and extension are verified; the commands take them as they are.

## 6. Proofs

Everything below is proved for every value of the constants that the modules' assumptions admit. The
assumptions are named in the modules and evaluated by TLC on the instances.

**`ImgXfer_proofs`**, for every set of photos, photo size, chunk size limit, index width, tick limit and counter width. The safety invariants
are not inductive. That every byte is handed over exactly once when END is sent follows from where each slice starts and how
many there are, which depends on the chunk number, on which wait state the transfer is in and on the chunk count belonging
to the chunk size. `IInv` says so:

* `TypeOK`, and `GuardArmed`: in a transfer the count of ticks is below the limit, so the next tick without progress counts;
* `Setup`: in a transfer the size is that of the open photo, the chunk size is positive and the chunk count is
  the ceiling of their quotient;
* `Position`: `curChunk` is below the count while a chunk is awaited and equal to it in `WAIT_RESULT`, and no file
  is open when idle (`FileOpenIffActive` follows);
* the handed slices are exactly `Piece(0)`, `Piece(1)`, ... up to the current chunk.

There is one lemma per handler (`StartKeeps` to `TickKeeps`), combined in `NextIInv`; from
`Invariance` follow `TypeCorrect`, `NoChunkOutOfRange`, `InOrder`, `WholeImageHanded`, `NoHandleLeak`,
`AlwaysGuarded`, `CountedOnce` and `OnePhotoSent`. The arithmetic (that the count of chunks covers the size and every byte
lies in one slice) is in lemmas about `NumChunks` and `Piece` at its beginning.

The last part shows `Spec => DeliversImages`: each handler's step is an `Accept`, `Start`, `Complete` or
`GiveUp` of `ImageDelivery`, or leaves its variables alone.

**`ImgXferLink_proofs`**, for any pipe depth and any number of requests, faults and files. `LinkImplementsImgXfer`: what arrives in
COMMMC's pipe is always something `ImgXfer` allows, so the theorems above hold of the closed system; `LinkDeliversImages` says
so of the refinement of `ImageDelivery`. `HandlerDoes` then says once what
each handler does, as seen from outside. Two invariants follow the messages:

* `OneSpi` and `WireIs`: at most one order to write a chunk and at most one notice of a write exist, never both, and only while COMMMC waits for the
  notice. This needs nothing of the card, so `NeverAheadOfTheWire` holds even of a late one: an idle tick that could abort and start anew finds
  the on-board pipes empty.
* `Flight`, while the card was never late: of all messages on the way to the card (`Path`) and back (`Back`) at most one belongs to
  the handshake; it is the one COMMMC's state waits for and fits what the card knows (`Fits`). An ABORT may stand on the path, but only ahead of a
  BEGIN, which makes it harmless: without that part a late ABORT could close the transfer it does not belong to. `Within` is what makes this
  provable without following indices: losing, dropping, moving and inserting messages leave a queue whose marks are among the old
  ones in the same order.

`SlicesAgreed` assumes that the card answers a BEGIN only with sizes COMMMC can adopt: COMMMC keeps its own size otherwise and tells the
card nothing. `VerdictIsThisPhotos` does not need that.

The last part is about `ImgXferIdle`, for any periods, phases, lag, delays and stray messages. `IdleImplementsImgXfer`: under the clock, too, COMMMC takes only
steps of `ImgXfer`. `GuardIsPatient` (`NotAbortedEarly`) needs an invariant over two clocks: a receive timeout for each tick counted, and the
time since the last message, add up to no more than the card has been waited for (`Patient`). A message that is no answer
restarts the receive timeout (`FreshWait`), which can only make the guard later; a handler that makes progress clears ticks and wait together.

**`DsFilter_proofs`**, for any number of entries and message IDs, any hash function, tables, filters and widths of the time's bits. `HashInv` is about the
table: an ID occurs once (`Unique`), every entry, used or not, is reached by the walk of its own value although additions join
lists (`ListsLead`), and subscriptions match. The addition that hangs DS is included: it leaves the entry it was about to link behind, and no other. From it follow `PresentIsFoundHolds`, `FullMeansFullHolds`, `SubscribedIsFilteredHolds`, the last with the bus free to refuse any set of IDs (`Resubscribes`); `FilterImplementsHash` carries them over to
`DsFilter`. `StoreInv` adds that each present ID's filters are what was last ordered for it (`Agreed`) and that orders are verified ones, and
`StoredAsOrderedHolds` is then arithmetic: that of each X packets N pass at the offset ordered, and the same for time. `NumFiles` is at least
one, as `ds_verify.h:41` demands.

**`DsFile_proofs`**, for any destinations, tables, packets, limits and resets. `DsInv` joins to the types and to `CdsCurrent`, `OpenFilesSound` and
`PacketsKept` what they need to be inductive: `JobSound` (what each step of storing a packet finds open), `NamesSound` (an open file is its own
destination's, not moved, not reported) and `CountsAhead` (as long as a destination's count was not set back it is ahead of every count-named
file of that destination on disk, and the name an open one will be moved to is not taken; the file being created is the exception).
`SizeLimitedHolds` and `CompleteFrozenHolds` are action properties from the same invariant.

**`CanSegmentation_proofs`**, for any streams, message lengths, slots, buffer and losses. `SegInv` has the types and two facts about the slots: two in
use are never of one stream, and only messages of several frames take one. One lemma per kind of frame (`FirstEffect`, `ContEffect`,
`LastEffect`) says that it touches the slot of its own stream and no other. On it rest:

* `RefusedOnlyWhenFullHolds`, a matter of counting: a slot in use is accounted for by a stream with a message under way or without the end of its last
  (`Accounted`), no two by the same, so when all are in use and yet another stream begins, there are more such streams than slots. `NeverRefusedHolds` is
  the corollary for a node with a slot for each stream of several frames (`EnoughSlots`). The code has five such streams and four slots.
* `ArrivedIsDeliveredHolds`, without an assumption on slots or losses: what `intact` says of a stream's message is what its slot contains.
* `ImplementsMessageChannel`, which alone assumes `MaxBurst <= 1`. `Sound` is the invariant behind it: a slot's contents are as long as what its stream
  has sent of the message only if they are exactly that, and a slot is left over when a message begins only if the frame before was lost.
  With it each last frame is a `Finish` of its stream (`StepOfChannel`) and every other step an `InBetween`.

**`HkCombiner_proofs`**, for every copy table, pool, pipe and set of packets. `HkInv` adds to the three invariants of the run that the
blocks the pool would not take back are still held (`LeakedHeld`), that each entry's place ends inside the buffer it shares
(`PlacesSound`: the size of a packet's buffer is the furthest end of its entries, `EndsBounded`), and that data marked as
present is what its input brought last (`PresentIsLast`), of which `CompletePacketsCurrent` is the consequence at the moment a packet is sent. What HK's users
may do is left open (`HkSpec`).

**`PhotoCapture_proofs`**, for any number of cameras, size of frames, chunks, files and pipes. Three facts are inductive together (`PhotoInv`):

* `FrameSound`: in a capture with one stream each packet in the frame comes from the camera and the block the frame is of. Its number in the block is
  at least its place in the frame, since lost packets only move pixels forward, and between it and the end of the block, and it and the camera's next
  packet, there is room for the packets that follow it in the frame (`InOrder`). When the frame is full that leaves one number for each place;
* `PictureSound`: what is being sent is such a picture, all of one capture;
* `Flow`: there is a list of the pictures of all captures so far (`Pictures`) that the open file and DS's pipe agree with. What the file has of a capture that is
  not spoilt is its picture from the start, in one piece, and all of it unless the capture is the last one in it and more is on its way (`FileSound`). Each message in the pipe fits behind
  what is before it: a chunk goes on where the last one ended, or begins a picture behind one that is whole and either closed or in `unclosed` (`PipeSound`). And what
  PAYLOADMC has still to send goes on where the pipe ends (`Awaits`).

There is one lemma for each action (`...Keeps`). They rest on what a chunk does to a file (`FileGrows`), what a file is when it ends (`FileDone`, `FileCut`), and
that a spoilt capture or a message taken off the pipe leaves the rest in order (`Shift`).

**`Housekeeping_proofs`**. `StepIsHkStep`: what the applications, boards, cameras and the ground do is something HK's users may do, so
`ImplementsHk` and with it HK's four theorems hold of the composed system. `NoFalseAlarmHolds` follows the answers of a board
that is in time: its application has at most two to come, the second of which is on its way (`AskedInTime`), so no packet of its with the
flag set is in HK's pipe, in HK's buffer or sent (`NoFlag`). It asks for a threshold of two, the code has five.
The steps of `GroundLink` are COMMMC's alone and those of `PhotoCapture` PAYLOADMC's, the cameras' and DS's; from their
invariants follow `GroundRebuildsHolds` (after n pieces n times the length has been read, and while nothing failed the ground has
exactly these pieces) and `PhotoWholeHolds`.

Only model-checked: `AbortedInTime`, whose bound of 66 s comes from how the phases of two periods and the receive timeout drift against each other and
is a fact about these numbers, not about all values of the constants; and all liveness (`TransferEnds`,
`OpenFileCloses`, `SilentBoardReported`), which is out of the prover's reach (fairness, `ENABLED`). What recursive functions
compute is not proved either; the one in HK, the sum of a table's bytes, is a limit on tables on which no theorem depends.

## 7. Not modelled, and what is left

* **DS files**: the header rewritten when a file is closed (its contents are not modelled), GET FILE INFO, which only reports, counters and rates, unused entries
  of the destination table. Two destinations given the same file names by command are assumed away, as are two message IDs in two entries of one filter table.
* **CANIOMC**: the telemetry parsers, which copy field by field, and what no code reads or calls.
* **DS's file of the photos across a reset of DS**: `PhotoCapture` does not have it, `DsFile` does, without the photos' contents.
* **PAYLOADMC**: the contents of the cameras' registers (a camera does what it is told, does it and its answer is lost, or refuses), and leaders that announce an implausible picture.
* **COMMMC**: the listener task, which only prints what it reads, the minimal telemetry, on a socket of its own and assumed to take no time, checksums and hashes.
* **HK**: entries of one table that write the same bytes of a packet; the processing of an exited application's pipe by cFE.
* **Ground tools, mission definitions, device registers, CRC and SHA-256**: bench scripts, configuration, device I/O and conversions without state. Where they can fail the models have a choice.

Left for further work: the composition of `DsFile` with `PhotoCapture` and `ImgXferLink` over the name of the last photo, so that
the file announced, the file moved and the file sent are followed by name; theorems about `SchLab` alone, which is checked as part of `ImgXferIdle` only.
