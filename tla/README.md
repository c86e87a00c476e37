# ACQ2XX_API: a verification development

This directory models the programs of the ACQ2XX_API repository (the D-TACQ
data acquisition toolkit under `src/API`) in TLA+, model-checks them with TLC
and proves the core with TLAPS. The repository has no README of its own; its
documentation is the Doxygen and plain comments in the sources, and the source
is what every definition is translated from.

## 1. The system

The toolkit has three parts that have state worth modelling:

1. **`acq_demux` and its controllers** run on the card or on a host. They read
   event lines or file names from a *feed*, demultiplex raw blocks, and write
   directories of channel files or segments of an MDSplus tree. A controller
   forks a worker for each unit of work and waits for it.
2. **The client library** (`Acq2xx` over a `Transport`) sends commands to a
   card over TCP and reads channels and frames back.
3. **Pure data handling**: demultiplexing bursts marked by event signatures,
   timebases, frame tags.

| Component | State | Operations | Interacts with | Correct when |
|---|---|---|---|---|
| `CommandBuffer` | pool and queue of line buffers, counters | `getNext`, `hasDataAvailable`, `writeBack`, `dump` | the device through `select`/`read`; the run loop | no buffer lost, shared or freed twice; lines in order; policy kept; fresh lines with LOWLAT |
| `LiveFeedProcessController` and `LivePrePostProcessController` | `validatorData`, `previous`, `evnum` | `run`, `isValidInput`, `processTblock`, `dump` | the feed (a device, or a file through `CommandBufferDbg`), a forked worker, `/dev/dtacq/state`, call-outs | records not used after deletion, event numbers unique, each line answered once, no line left in the feed |
| The worker: `LivePrePostProcessController::processAction`, `dump`, `ValidatorData` | the blocks' cuts, `pss`, `msecs_start`, the directory at work | `processAction`, `adjust`, `dump` | `Acq132DataModel`, `WorkingDir`, the event indicator | the window of each event has its samples at their times; what is published is whole |
| `SubsetProcessController`, `LiveLog` | the data model | `processAction`, `dump` | same run loop, `maxq = 1` | samples of each channel, in order, none twice |
| `LiveMean`, `Decimate` as peers | files in shared memory | `dump(id)` | called by the child of another controller | files of one acquisition |
| `acq_demux` | options, data model, peers, the directory's state | `main`, `processOpts`, `createController` | `AcqType`, `WorkingDir`, the controllers | the directory has each channel of the card, whatever ran before |
| `IncomingProcessController`, `dir-watch` | `pulse`, `second`, `minute`, `current_root` | `runPulse`, `dump`, `copyLatest` | `popen`, the file system | each pulse in a directory of its own, below its second and minute |
| `OfflineProcessController`, `ContinuousProcessController` | the data model, `event_sample_start` | `run`, `processAction`, `dump` | files named on the command line or in a feed | each sample once, in order, at its time |
| `MdsProcessController` | `consecutive_child_errors`, `first_time`; environment, calibration, the clock of its events | `getDef`, `runArgs`, `runArgsChild`, `set_alarm`, `onSegmentComplete` | feed, worker, `wdt`, peers, MDSplus | raw file removed only after it is stored; failures counted; a silent feed noticed; the right nodes with the right calibration |
| `wdt` | `enabled`, a stdio buffer | `wdt`, `fgets_t` | the controller through a pipe, then `kill` | kills a hung parent, never a working one |
| `MdsContinuousProcessController`, `ContinuousMdsWrapper` | `ibuf`, `fname`, shared `n1` | `getDef`, `processRawFiles`, `mdsPutSegments` | worker, `SHM_Buffer`, MDSplus | segments in order, at the right time and length, columns equal |
| `Acq132DataModel`, `DQuad` | rows and event signatures of each quad | `processAll`, `addES`, `trimSamples`, `dump` | called by every controller | samples land in the right quad and file, times follow signatures, also at two clock rates |
| `LinearDataModel`, `AcqType` | `cooked`, `eventSignatures`, `raw_lut` | `processRaw`, `dump`, `dumpTimebase`, `clear`; the choice of the card's type | called by every controller | each word in its own channel, a time for each sample |
| `SegmentMdsWrapper`, `TimestampedSegmentMdsWrapper` | | `mdsPutSegments` | the data model, MDSplus | each sample in one segment, at its time |
| `Dt100Transport` | its sockets, and what is left in `cmd_sock` | `signon`, `acq2sh`, `acqcmd`, `readChannel`, `readStreamingFrame` | the card over TCP | a caller gets the reply and error of its own command, and the samples asked for |
| `KddTransport`, `HostdrvTransport` | two files of a driver and stdio's buffers | `acqcmd`, `acq2sh`, `readChannel` | a device driver | the same |
| `Acq2xx`, `acqread` | `ai`, `ranges`; `dbuf` | queries, `readChannelVolts`, `read_channel` | the transport | volts are calibrated; the file has the samples asked for |
| `api_test`, `acq196_api_test`, `acqcmd`, `acq2sh` | the last state told; `stat_sock`; lines of a script | capture scripts; `--while`, `--until`; commands from stdin | `Acq2xx`, `waitStateChange`, the card | a capture seen to its end; no state slept through; each line's answer printed |
| `WorkingDir` | a `.COOKING` directory | constructor, destructor | the file system | a `.COOKED` directory is complete |
| `Frame`, `DataStreamer`, `streamer` | tags, start sample | `readStreamingFrame`, handlers that print and one that stores | transport, `AcqType` | frames contiguous, valid, and stored in their place |

The behaviours that are hard: a writer that races the reader of a queue;
forked workers that fail, are killed, or are never born; state shared with a
worker that outlives it (`n1`, the files); commands that wait in stdio buffers
on both sides of a pipe; a byte stream that is cut anywhere while the reader
looks for the end of a reply; data that is cut into files, blocks, frames or
reads at places that do not match its own structure; unsigned differences and
rounding at the edges of a block; directories that a killed process leaves
behind. The list, at its lines, is in `PROJECT.json`
under `hazards`.

## 2. Modules

| Module | Models | Uses |
|---|---|---|
| `CommandFeed` | abstract: what the buffer promises to the run loop | |
| `CommandBuffer` | `CommandBuffer.cpp` | implements `CommandFeed` |
| `CommandBufferProofs` | theorems about it | `CommandBuffer`, TLAPS |
| `LiveFeed` | run loop and validator of `ProcessController.cpp`, the worker by its effects | takes its lines from `CommandFeed` |
| `LiveFeedProofs` | theorems about it | `LiveFeed`, TLAPS |
| `Acq132Data` | the data model of `Acq132.cpp`, as operators | |
| `Acq132DataProofs` | lemmas about the demultiplexer | `Acq132Data`, TLAPS |
| `EventWorker` | `processAction`, `adjust` and `dump` of the event pipeline, `WorkingDir.cpp` | `Acq132Data` |
| `EventWorkerProofs` | theorems about it | `EventWorker`, `Acq132DataProofs`, TLAPS |
| `LinearData` | `LinearDataModel` of `AcqDataModel.cpp` and the segments made of it, as operators | |
| `CardTypes` | `AcqType.cpp`: definition file, tables, sorting of words, as operators | |
| `IncomingPulses` | `IncomingProcessController` | `LinearData` |
| `AcqRead` | `acqread.cpp`, `readChannel` of the transports, the factory of transports | `LinearData` |
| `Streaming` | `Frame.cpp`, `DataStreamer.cpp`, `streamer.cpp`, `DirfileFrameHandler.cpp` | `LinearData`, an instance of `CardTypes` |
| `AcqDemux` | `acq_demux.cpp` from its options to its directory, for words of any card | `LinearData`, an instance of `CardTypes` |
| `QuadFiles` | the files of an ACQ132 by their names | an instance of `Acq132Data` |
| `MdsTree` | `acq_demux-mds`: environment, calibration, children, peers, events | `LinearData` |
| `DataStore` | every other way of samples to a file or a tree, and the choice among all | extends the six above, instances of `Acq132Data` and `CardTypes` |
| `Watchdog` | `wdt.c`, `fgets_timeout.c` and the channel to them | |
| `MdsController` | `getDef`, `runArgs`, `runArgsChild`, `set_alarm` | composed with `Watchdog` |
| `MdsControllerProofs` | theorems about both | `MdsController`, TLAPS |
| `MdsContinuous` | the continuous controller and its wrapper | |
| `MdsContinuousProofs` | theorems about it | `MdsContinuous`, TLAPS |
| `Dt100Session` | `Dt100Transport::acq2sh` and the TCP stream | |
| `KddSession` | `KddTransport` and `HostdrvTransport`: the same through a driver | extends `Dt100Session` |
| `Acq2xxVolts` | the calls of `Acq2xx`, `readChannelVolts` with its two queries | composed with both sessions |
| `Connections` | sockets and sign-on of `Dt100Transport`, `connectto.cpp` | |
| `CardPrograms` | `api_test`, `acq196_api_test`, `acqcmd`, `acq2sh`, `waitStateChange` | extends `Acq2xxVolts` and `Connections`; a card that captures |
| `SessionProofs` | theorems about the sessions and the calls over them, in every program | `CardPrograms`, TLAPS |
| `CardProgramsProofs` | theorems about the programs and the connections | `SessionProofs`, FiniteSetTheorems |

The `MC...` modules only give the constants their values for TLC.

### CommandBuffer

`pool` and `queue` are the two STL lists, as sequences of buffer names
`1..maxq`; `text[b]` is the line in buffer `b`, `hand` the pointer held by
`readLinePushQueue`, `leaked` the number of buffers that function has dropped.
`pc` follows `getNext`:

    idle -GetNext-> drain -Drain-> fill -Fill-> drain ... -DrainEnds-> serve
    serve -Deliver-> idle,  serve -Block-> wait -Wait-> deliver -Deliver-> idle

`GetBuffer` (pool, else steal, else the assertion) and `Read` (`read()` above
or equal to zero) are the two halves of `readLinePushQueue`; the device may
write between them and between any two steps. `IOError` is the `_exit` after a
failed `select` or `read`. The policy follows `maxq` as in the constructor:
`maxq > 2` is NODROP. A line is its arrival number, because nothing in the
code depends on its text.

### LiveFeed

`pc` follows `LiveFeedProcessController::run`: `next` (in `getNext`),
`validate`, `pre` (call-out, then `fork`), `wait`, `post` (decoded status,
`evnum`, call-out, `writeBack`), `check` and `quit` (the quit test reads the
feed first and the state file a moment later). `vd` names the line for which
the record behind `validatorData` was made, `freed` says that it has been
deleted. The worker processes its blocks, publishes its event directories one
at a time and exits with their number; it may fail or be killed at any point.
Without `use_fork` the same steps are taken by the loop itself and a failure
ends the program. The feed is a device or, with `CommandBufferDbg`, a file
(`from_file`): the program ends with it (`EndOfFile`), nothing is written back,
and the quit test always finds data. What a line says is chosen when it is taken. How many events
a block holds is chosen by the worker, and a directory appears in one step:
`EventWorker` has the same worker with its data and its crash points.

### Acq132Data and EventWorker

`Acq132Data` gives each quad a sequence of rows (`data`), the cursors of its
event signatures (`es`) and the signatures themselves (`sig`). `processAll`
takes `FIFOSAM` rows for each quad of the scan list in turn, as the card writes
them: `TakeTurn` is the head of its two inner loops, `GiveRow` a turn of the inner
one; `processSubBlock`, `getEvents`, `Window`, `trimSamples`, and the three
kinds of timebase (`Timebase` of a window, `dumpTimebase` over pauses,
`dumpTimebaseDR` at two clock rates) are the functions of the same name.
`dumpTimebaseDR` steps over bogus signatures (to both divisors or none) in its
loop, but its tail, after the last change, goes by the last signature with a
rate, a bogus one too, as `dr` does in the code. A
sample is known by its quad and number, so that one in the wrong place shows.

In `EventWorker`, `pc` follows a worker:

    idle -Fork-> load -Load-> next -MakeDir-> dump -DumpQuad-> format
         -DumpFormat-> announce -Announce-> remove -RemoveOld-> rename
         -RenameDir-> next ... -Finish-> idle

`line` says where the event signatures of its blocks lie, and which blocks the
validator has left. `Load` is a turn of `processRawFiles`, with `processAction`
for one block, and `load` lasts until `todo` is empty: the cuts `LeftCut`,
`MiddleCut` and `RightCut` are computed with the code's unsigned arithmetic, and
`pss` by `adjust`; `setWallClockPolicy` sets the clock of each event from its
`getSampleOffset`. `disk` maps a directory to
the files in it, with `goal`, what they should hold, beside them; files are
opened for append. `Killed` may come between any two steps, and `Restart`
begins a new run, with `evnum` back at its start, among what the old one left.

### DataStore and the modules it extends

`LinearData` has one channel for all, a row being a sample or a signature;
`CardTypes` has the step before it, from words to channels. `DataStore` starts
as one of the programs (`front`) with one of its inputs and does what that
program does; the variables of the others keep their values.

| `front` | Program | Steps |
|---|---|---|
| `files`, `continuous` | `OfflineProcessController`, `ContinuousProcessController`, with either data model | `ProcessFile`, `OfflineDump`, `ContinuousFile` |
| `demux` | the first, as `acq_demux` is called, for words of any card (`AcqDemux`) | `processOpts`, `CreateModel`, `CreateControllers`, `ProcessRaw`, `OpenDir`, `DumpAll`, `RemoveCooked`, `RenameCooking` |
| `quads` | the same for an ACQ132 (`QuadFiles`) | `QuadsRaw`, `DumpQuad`, `ScanQuad`, `DumpFormat` |
| `mds`, `rows` | `MdsProcessController` without a feed, with either wrapper | `ProcessFile`, `MdsPut` |
| `tree` | the same with a feed of files, forking (`MdsTree`) | `ReadEnv`, `AddCal`, `CreateTree`, `ForkChild`, `DecimatePeer`, `MeanPeer`, `PutAll`, `RemoveRaw`, `WaitChild` |
| `log` | `LiveLogProcessController` | `LogBlock`, `MissBlock` |
| `incoming` | `IncomingProcessController` (`IncomingPulses`) | `Pulse` |
| `stream` | `streamer` (`Streaming`) | `Send`, `Read`, `BuildFrame`, `OnFrame` |
| `channel` | `acqread` over one of three transports (`AcqRead`) | `ReadChunk`, `ReadDevice`, `OpenFails` and others |

`ch` and `tb` are the files of the channel and the timebase, `quads` those of an
ACQ132, `stored` the segments or rows in the tree. `MissBlock` is a block that
the feed skips or a line without the digits that `LiveLog` accepts.

A program of `AcqDemux` and `QuadFiles` is a record of its options and its raw
files, and several run in a row in the same place: what one leaves (channels of
another definition, a directory of a killed program, times in shared memory)
is there for the next. `CookedTrue` and `QuadFilesTrue` say what the last one
leaves. A frame of `Streaming` keeps what an earlier one left where its tags do
not match, and its handlers get it whether it was read well or not. The type of the card
is asked for once for the streamer and once for each handler that needs it, and
each answer may fail alone.
In `AcqRead`, `dbuf` is acqread's buffer and `fp_data` how far an open channel
device has been read.

In `MdsTree` the parent reads its environment, makes the tree with a
calibration from the card's table, from `vin` or none, and forks a child for
each file. The child (`child`) calls each of the peers, puts the columns of the
segments one after the other (`PutAll`, or half of it: `PutCrashes`,
`PutGivenUp`), removes the file and exits; it may be killed anywhere. Peers
write with the same names each time; `mtime` of their directory is what
`readyForUpdate` looks at. Events go by the number of children or the second.

### Watchdog and MdsController

A command (1 enable, 0 disable) goes through `outbuf`, the stdio buffer of the
controller, `pipe`, and `wbuf`, the stdio buffer of `wdt`. `SetAlarm` is
`set_alarm`: append, and write the buffer out when it is full. Nothing else
flushes it except `exit()`, by the controller or by a worker, which holds a
copy of the buffer from the `fork` (`childbuf`) and writes it out a second
time. `WdtReads` is a `poll` that sees data followed by `fgets`, which takes a
buffered line first, and fills its empty buffer by one `read` of at most `BufCap`
commands: what the pipe holds beyond that stays there (`Backlog`), and until it
is read what is next is not where a chunk of the controller begins.
`WdtTimesOut` is a `poll` on an empty pipe, whatever is in `wbuf`. `negative` is
the sign that the pointer of `fgets` has after `fgets_t` has made an int of it.

The controller's `pc` is `getdef`, `fgets` (blocked on the feed), `fork`,
`wait`. The worker stores, removes the raw file, exits; `waitpid` decodes how it
ended. A failed `fork` leads to `waitpid(-1)`, which finds no child or the
watchdog.

### MdsContinuous

Files are named by their position in the acquisition and hold one unit of
samples each, so that a segment of files p, p+1, ... belongs at time p-1.
`Name` is one turn of `getDef`'s loop for a readable name; with an id file the
first of a group sets the shared `n1`. The worker maps the files, burns them
if told to (from the last to the first), begins one segment per column, the
timebase last, advances `n1`, writes the tree and exits. The feed may skip
positions; the worker may fail where the code can fail and be killed anywhere.
Before it names anything the program opens the shared memory (`OpenShm`, from
`pc = "shm"`) and the tree (`CreateTree`, from `"tree"`). An id file has any of its
`Keys`; `getValue` leaves a value that it does not find. `Restart` is a new
controller after one that has ended by itself (without a worker at work): it
makes the shared file anew, cleared, so that `n1` is 0 again while the segments
of the last run are still in the tree.

### Dt100Session, KddSession and Acq2xxVolts

A reply is a sequence of tokens: units of output, `EOF`, and the two numbers
of the trailer, of which an error code of two digits is two tokens. TCP may cut
it between any two tokens; `Ecode` is what `sscanf` makes of as much of the
trailer as has been read, of the first digit alone a code of one digit. `Send` is the `write`;
`ReadToEOF`, `ReadMore`, `ReadToFull` and `ReadEnds` are the ways one turn of
the read loop ends. What follows the tokens used stays in the buffer that is
deleted, or in the stream: only what was not yet read (`net`) meets the next
command, and the history variable `leftover` remembers it.

`KddSession` is the session with a driver: `fds` holds the lines not yet read
from the file of the commands and from that of the shell. `SendLine` is the
`fputs`, and `CopyLine`, `CopyOverruns`, `EndOfReply` and `IncompleteReply` are
the ends of one turn of `processCommand`. A host driver opens the file of the
shell for each command (`OwnSession`). `late` remembers on which files a
command has been given up. A program has one `transport`, and `Acq2xxVolts` adds
the state of the API object. `Scans(n, what)` says which fields of a reply
`sscanf` converts, including a reply array that was never written. `Setters` are
the calls that keep only their result, `Fields` the fields that the others scan.

### CardPrograms

`program` is one of eight. `library` calls `readChannelVolts` and others in any
order, as above. The tests make the calls of `Setup` in order and then those of
`Round`, once a second, until the state they were told (`shown`) is STOP; the
first call that fails ends them (`TestReply`). SIGINT is noted by
`acq196_api_test` (`Interrupt`), and ends the `read` of a command in progress
(`ReadInterrupted`). `acqcmd` asks for the state on its command connection
(`PollCalls`), looks for the word it was given (`GoesOn`), opens a second
connection (`OpenStat`) and reads lines from it (`ReadStat`); `stat` is what the
card has written there and acqcmd has not read.

The card is external. It is armed by a command it does not refuse, by somebody
else in the programs that poll, counts samples and stops; a query is answered
with its state at the moment the command arrives; a reader of its file of
states gets the present one and then each new one. Sample counts and states
go through `shown`, and what a call scans out of an array never written may be
anything (`Told`). A session that has lost a reply, or that the card has closed,
is followed only in `library` and the shells.

`acq2sh` and `acqcmd` take commands from their arguments or from lines of stdin;
a comment is passed over. `printed` has what each `puts` prints, next to what its
command was answered. `caller` is `Connections`: a program that makes four calls
in any order over fresh connections. `descriptors` are those of the process, and
a socket is the lowest free one, so that what is closed by mistake is found by
the next. The card greets (`greeting`) and prompts with one or more lines.

## 3. Runs and bounds

| Run | Question | Bounds, and why they are enough |
|---|---|---|
| `command_buffer` | Is the queue sound, ordered, fresh; does it implement the feed? | `maxq` 1, 2, 3: both policies and the smallest queue of each kind; 5 lines exceed every queue, so that stealing, refusing and wrapping happen; 2 empty reads are enough to empty pools of 1 and 2 |
| `command_buffer_assert` | Does the assertion hold at the default size? | `maxq = 4`; violated by four empty reads in the draining loop |
| `live_feed` | Are records, event numbers, answers right, and is every line taken? | a device and a file; 3 lines: a rejected line between two others; 2 events per line: a worker killed between them; two triples that share a block |
| `live_return` | Does `processTblock` return what its comment says? | violated by one failed worker |
| `event_worker` | Does each event get its samples and times, and is only what is whole published? | 2 quads, 2 rows at a time; blocks of 16 slots rounded by 4; six sets of options, of which one window fills its rounded length and one is longer than a block leaves room for; events at both edges, adjacent, in pairs; signatures in the neighbours; eliminated blocks; two lines, one kill, one restart: a directory of an earlier run, of a killed worker, or both |
| `data_store` | Is what each program stores what was measured? | see below |
| `timebase` | Does the timebase cover the channel? | violated by one file with one signature |
| `mds_watchdog` | Does anyone lose data, kill wrongly, or go on for ever? | stdio buffers of 4 commands, filled within 4 lines, so that the pipe may hold more than a read takes; 3 failures in a row reach the code's limit on errors |
| `mds_hang` | Is a hung controller killed? | a buffer larger than the run, as 4096 bytes are for about two thousand commands |
| `mds_continuous` | Are segments in order, timed, equal? | groups of 3 and 7 files: two full groups and an unfinished one; one skipped file; 2 failures in a row; id files with each subset of their keys; one restart, after which `n1` is 0 beside the segments of the first run |
| `volts` | Does each call get its own reply; do the programs see the capture they wait for? | 2 channels, each of three transports; a buffer of 6 tokens, which a complete reply fits and a reply behind a torn trailer does not; no error or one whose code has two digits; replies of no and of two lines, one too few for the line of an error; `library`: 3 commands; the tests: 11 commands are the whole of `Setup` and a full round after it, with captures of 0 or 1 sample; acqcmd: any state to begin with, one capture that somebody else begins, so that the state awaited comes and goes once; shells: commands from the arguments and up to 4 lines of stdin; callers: every order of four calls of five kinds, so that each connection is opened before and after each other and reused, greetings and prompts of one line or longer than the buffer, six descriptors, of which three are free, and an unknown host |
| `volts_raw` | Is what is called volts calibrated? | TCP, replies always in full, a buffer never full: only the cuts vary |

The bounds of `data_store`, front by front:

- `files`, `continuous`, `mds`, `rows`: three bursts of 1 to 4 samples with pauses
  between, in one file or cut in two anywhere, and files without a signature in
  front; ACQ132 files of up to 12 slots for each of two quads, in one to three
  files cut between scans or anywhere, with `--nsamples` below, at and above
  `FIFOSAM`; at two rates, two signatures that tell of the clock, reported up to two
  samples late, in eight pairs (changes in turn, a bogus one first, last or both),
  and three pairs of divisors (either faster, either a multiple or not).
- `demux`: definitions of nine cards, whole, without each of their lines in turn,
  without the last newline, with a line said twice; a killed program before two
  others with the same and other policies for the directory, fake time stamps,
  `--ignore-es`, peers, options that are missing or wrong.
- `quads`: both kinds of card, one timebase for all or one each, no clock, limits
  and windows, two programs with the same names, two rates.
- `tree`: wrappers, ranges of channels, events by name and by interval, tables of
  `vin` that fit or do not, words of two and four bytes, each order of two peers.
- `log`: three blocks of 12 rows of two channels, and eight values of `--maxlen`
  below, at and above a bite.
- `incoming`: seven pulses where two make a second and two seconds a minute, so
  that both turn over.
- `stream`: frames of 4 rows, a stream of 13 joined at each place with up to 4
  lost rows (a whole frame), up to two rows not yet read; six sets of options
  with five cards, two of them with lock-in blocks; sample numbers beyond where
  `1 << ibit` is defined; channels 1, 32, 33 and 64 are followed, at both edges of
  a block of 32.
- `channel`: three devices, reads of 0 to 12 of 11 samples with strides 1 and 3
  from three starts, a buffer of 6 and requests of 4, so that each divides the
  other unevenly; to a file for each channel, one for all, or stdout, raw and in volts.

Properties say what the code does achieve, and where it does not the
precondition is part of them; the runs have states on both sides of it:

- `WindowTrue` needs a `--post` that leaves room in a block (`PostFits`), and for
  the windows no foreign signature in what is read of the neighbours.
- `TimebaseTrue` excepts windows cut short at the beginning, events closer than
  `pre` to the first, and a trimmed middle block behind a left one.
- `PublishedWhole` and `AnnouncedKept` are for a working directory that is emptied
  or overwritten (`CleanDirs`).
- What each program makes of a channel is a property for each, with a mutant of
  its own: `StreamedTrue` for fewer lost rows than a frame; `LoggedInOrder` for
  strides of whole rows not shorter than a bite; `ReadTrue` without what an
  unopened device leaves in the buffer; `CookedTrue` for definitions that give the
  card as it is, up to 96 channels; `PulsesTrue`; `QuadFilesTrue`, for whole scans.
- Of the trees, `NodesTrue` says that the nodes have the calibration of their
  channels, for a table that fits, that a removed file is in all of them and a
  killed child leaves them at most one segment apart; `PeerFilesTrue` that the
  files of the peers are of one acquisition, unless a child was killed. Events of
  the tree and the linear `continuous` front are in the run for their types only.
- `SegmentsTrue` is for a single file that begins with a signature that has a
  time stamp.
- `BurstsTrue` is for files cut between scans and `--nsamples` of `FIFOSAM` or more
  (`BurstsDumped`); for times, each burst begins with a signature and none follows
  another.
- `DualRateTrue` is for the same files at two rates, when the reported changes
  alternate and come in order (`Orderly`), with bogus ones anywhere. Of the tail it
  says nothing where a bogus signature is the last: `dr` has been set before the
  signature is tested (`Acq132.cpp:620`, `:625`), so that the tail, where the loop
  "skip[s] bogus DR transition", runs at the rate of the bogus one; without the
  exception TLC finds the property violated by one such signature behind a change.
- `NoFalseKill` has two parts, both while each `read` of wdt takes all the pipe
  holds: nothing kills the controller before its stdio buffer has overflowed, and
  the watchdog does not kill it as long as the feed has no comment lines, which
  put the commands out of step. After a read that leaves a backlog neither holds:
  such a read ends in the middle of what the controller and its workers have
  written, the chunk behind it may end in the pipe with an enable that was followed
  by a disable long ago, and a controller that has disabled the alarm and waits
  for its worker is killed. With three files TLC finds this without the condition.
- `ProgramsTrue` is a conjunction: `CaptureComplete` for a test that ends without an
  error; `ScriptPrinted` for a shell whose session is intact; `ConnectionsTrue`,
  that each call reads the answer to it (`OwnReplies`, if the lines of the sign-on
  fit the buffer) and that there is one connection for each purpose however
  often it is used (`KeptOnce`, until `stopStreaming` has closed descriptor 0).
- `StateAwaited` is for a state connection that the card keeps open.
- `OwnLines` holds until a command on that file was given up; on a host driver's
  shell, always.

Of the modules with proofs the runs check what is hardest to get right: type
correctness beyond the core, `NoBlockTwiceRunning` and `SegmentLengthTrue`, which
say little more than the code they are about, are left to the theorems of section 5
(`DataStore`, which has none, checks its type invariant).

In `command_buffer`, `SoundWhileInputIs` and `Conservation` carry the condition
or the term for empty reads; the run has both kinds of input. In `volts` the
properties of the session hold while it is `Intact`: after a command given up or
a close it is out of step for good, which is listed as a hazard.

**Deadlock.** Every run says `CHECK_DEADLOCK FALSE`: each of these programs may
exit, and the bounded feeds end.

**Fairness.** Weak fairness of the program's own steps, never of its
environment. `CommandBuffer`: the thread runs (`Step`), the device need not
write. `LiveFeed`: the parent and the worker are runnable processes; lines,
the state of the acquisition and failures are not fair. `MdsController`: the
parent, the worker and the watchdog run; the feed may fall silent at any time,
which is what `mds_hang` is about. `CardPrograms`: `acq2sh` goes on reading what
has been sent, a driver that does not answer gives up (`fgets` returns), and
acqcmd goes on; the card's captures are not fair. A card answers each command
it has accepted at once or not at all (it has closed), so `CallReturns` says
that the loop of `acq2sh` ends on every reply, cut and close, not that a card
answers. `StateAwaited` says that acqcmd does not go on for ever while the card
stays in the state it waits for, as long as the card does not end the
connection. `MdsContinuous`, `EventWorker`
and `DataStore` state no liveness and have no fairness.

**Mutants.** Every property of a passing run has a mutant in `PROJECT.json`: a
definition and a version of it with a plausible error, under which the run
finds the property violated. The mutants stand beside the definitions.

## 4. What the code does that its text does not say

Five runs end in a violation; each checks one sentence of the repository.

- **`command_buffer_assert`**: a `read` that returns 0 drops its buffer
  (`CommandBuffer.cpp:95`); after `maxq` of them the assertion at line 63 fails.
- **`live_return`**: "returns # events, <0 :: error" (`ProcessController.h:72`)
  cannot be: the value is an exit status (`ProcessController.cpp:361`). A
  worker that ends with `exit(-1)` counts as 255 events.
- **`mds_hang`**: "If enabled and timeout => kill parents" (`wdt.c:7`): the
  enabling command stays in an unflushed stdio buffer
  (`MdsProcessController.cpp:717`).
- **`volts_raw`**: "read and output calibrated data" (`acq2xx_api.cpp:441`):
  `ranges` is installed before it is read (`acq2xx_api.cpp:461`), and one torn
  trailer (`Dt100Transport.cpp:300`) is enough to make the reading fail.
- **`timebase`**: the format file declares one value per sample of channel and
  timebase and makes the timebase the reference (`AcqDataModel.cpp:290`, `:296`,
  `:311`); each signature followed by samples costs a time
  (`AcqDataModel.cpp:475`).

## 5. What is proved

Eight modules of theorems hold for every value of the constants, from the named
assumptions of the modules they are about: bounds are natural numbers, sizes
are positive, `MaxEvents` fits an exit status, exit codes of failures lie above
it, and a stdio buffer, of the controller as of wdt, takes an even number of commands
(`BufCapAssumption`: a command is two characters and the buffer a power of two).
For the worker: `FIFOSAM` is below the code's limit on samples, `ACQ132_BLOCKLEN`
is two turns and divides a block, a window begins at most a block before its event
(so `WorkerAssumption`; nothing earlier is in the model), an unsigned number takes
the offsets of three blocks, and a line has an event in its middle block, as the
validator accepts no other. For the programs: a caller of the
API makes calls of the API and may have more than its three standard files open
(`CallersAssumption`), and a command in the arguments is all that `acq2sh` and
`acqcmd` are given (`ScriptsAssumption`). An error code has at most two digits
(`RepliesAssumption`).
Each module about a component has one inductive invariant, `IInv`, which TLC has
checked with the constants of the component's run, and a theorem `Invariance`;
`EventWorkerProofs` has a second, `LineInv`, for what was read of a line.

| Module | Theorem | Property |
|---|---|---|
| `CommandBufferProofs` | `TypeCorrect` | `TypeInv` |
| | `NoBufferAliased`, `BuffersConserved` | `NoAliasing`, `Conservation` |
| | `NoDropKeepsLines`, `SoundUntilEmptyRead` | `NoDropNeverDiscards`, `SoundWhileInputIs` |
| | `Fresh` | `Freshness`, the latency bound of LOWLAT, an action property |
| | `ImplementsFeed` | `FeedSpec`, the refinement of `CommandFeed` |
| `LiveFeedProofs` | `TypeCorrect` | `TypeInv` |
| | `ValidatorCurrent` | `ValidatorIsCurrent`: no record of another line, none used after it was deleted |
| | `NumbersUnique` | `EventNumbersUnique`: unless a worker was killed or not born |
| | `Answered` | `AnsweredInOrder`: every accepted line once, in order |
| | `NoBlockTwice` | `NoBlockTwiceRunning` |
| `MdsControllerProofs` | `TypeCorrect` | `TypeInv` |
| | `NoFileLost` | `NoDataLoss`: no raw file removed before it is stored |
| | `NoControllerKilled` | `NoFalseKill`: no controller at work killed while the reads of wdt empty the pipe |
| `MdsContinuousProofs` | `TypeCorrect` | `TypeInv` |
| | `InOrder` | `StoredInOrder`: each column has the files in order, none twice |
| | `TimesTrue`, `LengthTrue` | `SegmentTimesTrue`, `SegmentLengthTrue` |
| | `BurnedAccounted` | `BurnedFilesAccounted` |
| | `Agree` | `ColumnsAgree` |
| `Acq132DataProofs` | `ProcessScans`, `ProcessAlike` | lemmas, no properties of a run: scans take each quad through its own rows; signatures in the same rows of each quad leave all quads with the same cursors |
| `EventWorkerProofs` | `TypeCorrect` | `TypeInv` |
| | `PublishedComplete` | `PublishedWhole`: a published directory has every channel of its event, whole, and the times |
| | `AnnouncedStays` | `AnnouncedKept`: an event that was announced is on disk and whole |
| | `WindowsTrue` | `WindowTrue`: each event of the middle block is found, and its window has the samples around it |
| | `TimebasesTrue` | `TimebaseTrue`: the times stored with them are theirs |
| `SessionProofs` | `OwnReply` | `OwnResponse`: a caller gets the reply and the error of its own command |
| | `NoRawBeforeError` | `RawOnlyAfterError` |
| `CardProgramsProofs` | `ProgramsTyped` | `ProgramsTypes` |
| | `ProgramsAreTrue` | `ProgramsTrue`: a test that ends well counted a whole capture, a script printed each answer whole, a call over a connection of its own reads its own answer and leaks none |

Hardly any of these is inductive alone. What each needs besides, and why:

**CommandBuffer.** `NoAliasing` and `Conservation` need
to know when a buffer is in hand (`HandInv`: exactly in `fill` and `wait`).
`SoundWhileInputIs` needs `Conservation` (an empty pool, an empty queue and no
buffer leaked would mean no buffer at all) and the last part of `HandInv`:
`deliver` is reached with an empty queue only after a read of 0.
`NoDropNeverDiscards` needs only the loop's test before the steal and that
`Block` runs with an empty queue, where nothing can be stolen. The refinement
needs `QueueInOrder` (the i-th queued line is number `processed + discards + i`)
and `Accounting`; `Freshness` needs those and `DrainedInv` (under LOWLAT the
draining loop ends only when all that was there at the call has been read).
The proof goes by the places a buffer
moves between: `FromPoolBuffers`, `StealBuffers`, `PushQueueBuffers`, `ReadReturnsZeroBuffers`
and `DeliverBuffers` are lemmas about the lists alone, the `...Step` lemmas add
control, `NextIInv` splits `Next` into its actions.

**LiveFeed.** `WorkerInv` says how parent and worker go together: there is a worker
only while the parent waits, and its exit status is the number of directories it
has made unless it gave up, when it is larger. With it `NumbersInv` keeps every
number in use at or below `LastNumber`, which is `evnum` and what the worker, or the
status not yet added, will add. `AnswerInv` is where an answer may be missing: only
between `pre` and `writeBack`. `BlocksInv` adds that `previous` is the block worked
on last; the loop over the three blocks is unfolded (`SelectedKeeps`), so
that no induction is needed.

**MdsController.** A false kill would need the watchdog to see `pipe` empty while it
is enabled. `DisabledInv` excludes that while the commands are `InStep`: every chunk of
commands in `outbuf`, in the child's copy and in `pipe` begins with a disable
(`DisableFirst`), and the first command of what `fgets` reads is what it returns, so the
watchdog is disabled whenever it has read all there is. That a chunk begins so is a matter
of parity: disable and enable alternate, the buffer takes an even number, and
it is full only when a disable is due (`OutbufInv`). A comment line in the feed
sends a disable without an enable after it; when the buffer overflows after that, the
next chunk may begin with an enable, which is why the property excepts it. A `read`
that leaves commands in the pipe (`"backlog"`) cuts a chunk, and the rest may begin with
an enable: from then on nothing is claimed. `ReadPipe` is the lemma on what a read takes.
With a buffer of odd size the invariant is false, and so is the property.

**MdsContinuous.** `OrderInv` orders the names in each column before those in the
group for a column that has yet to be stored (`Pending`). For the times, `CountInv`
is the value of the shared `n1` at each control point while nothing was skipped, failed or
restarted (`Calm`), and `MarkedInv` the same when each group began with an id file.
`StoredInv` says which columns a worker has done, and `AgreeInv` that columns only
differ by the files of a worker at work or of one that failed.

**EventWorker.** `Goal`, what a directory should have, is the window of an event in
each quad, and an event is known by the first quad of the scan list. That the
other quads have it as well is what has to be proved of the data. `Alike` says
that all quads have the same cursors. A block is cut at multiples of `ACQ132_BLOCKLEN`,
so of whole turns (`BlockCutInTurns`, from the unsigned arithmetic of the three
cuts), and the card puts a signature into the same row of each quad (`RowFlag`), so
`processAll` keeps quads `Alike` (`ProcessAlike`, `BlockProcessed`). This one goes by
induction over rows: `Recursion` defines the walk of a recursive function and
`ProcessAllWalks` says that `processAll` is its end, and `ProcessScans` that a walk over
whole scans takes each quad through its own rows; all rest on `LeastNumber`, which
states induction for sets, not for an operator. `WorkInv` is control and `Alike`,
`DirInv` that the directory at work is there for the present event, and `StoredInv`
how far it is: in `dump` the quads before `quad` are in it and the others are empty if
it was emptied (`Filled`), in `format` all are, after that it is `Whole`. `KeptInv` has
both properties: a directory gets its final name only when `Whole`, and what was
announced has its final name or is about to get it, between `RemoveOld` and
`RenameDir` too. `Killed` and `Restart` leave a directory as it is under the name of one
that cooks, so `MakeDir` must empty it or overwrite each file: `CleanDirs`.

`WindowTrue` and `TimebaseTrue` are about the samples themselves, and `LineInv` says which
they are. `OrderInv`: blocks are read in order. `DataInv`: the data of a quad are the
`Contents` of the line, the pieces from `CutStart` to `CutStop` of each block read so far
without the signatures, and its events the `Cursors` of those in the middle one.
`ConsumeMakes` is this for one row and `BlockMade` for one block. `TimesInv`: `pss`,
`msecs_start` and `first_s1` are what the blocks read make of them, and a timebase that is
stored was made from them. `LineInvariance` proves it with `IInv`, and both properties
follow. `ContentsAt` says which sample is where as long as nothing is left out between the pieces;
`MiddleLimits` and `EventPlace` that a side of the middle block that is trimmed leaves `pre`
before each event and `post` after it, which is what the rounding in `MiddleCut` is for, and
what the mutant `BlockCutTight` takes away. `WindowContent` and `WindowSpan` give `WindowTrue`. For the times, `PssIsBase`,
`StartIs` and `EventNow` say that no unsigned difference wraps around.

**Sessions.** `TcpInv`: while a command is read, what has been read and what is in
the stream together are the answer and its trailer, and no `EOF` has been read;
afterwards nothing but numbers of a trailer is left. `LinesInv` and `FilesInv` are
the same for the lines of a driver, where a file on which nothing was given up is
empty unless it is being read. `VoltsInv` and `TaskInv` tie `ai` and `ranges` to the
calls that ask for them: until a call has failed they are the card's. The lemmas
`ChunkMoved`, `HeadMoved` and `Beginning` are about sequences cut anywhere, `ReplyTokens`,
`ReplyRead`, `LineTokens` and `LinesRead` about replies; `TypesStep`, `TcpStep`, `LineStep` and
`VoltsStep` are the parts of the invariant, one case for each action.

**Programs and connections.** `ProgramsInv` stands on the invariant of the sessions.
For `CaptureComplete` it ties the call in progress to the steps behind it
(`TestInv`: who is past the setup has sent `setArm`) and says when what a test has
heard of the card cannot change any more (`CaptureInv`: nobody arms it again, so
from `STOP` on the count asked for is final; this is why `Round` asks for the state
before the count, and the mutant asks in the other order). For `ScriptPrinted`,
`ShellInv` counts what was printed: a command for each that has returned. That a
printed text `Says` the output of its own command and of no other is `OwnResponse`
of `SessionProofs` for a reply that was read to its end (`ReplySays`, `AnswerSays`) and
a cut of it for one given up (`BeginningSays`). `LateInv` has what follows from the
end of a script at the first failure: nothing is sent over a file on which a command
was given up; `WholeInv` has the line with the error among those read.
`ConnInvariant` is about `Connections` alone: `CallInv` and `SocksInv` say which
descriptor a call works on and that the kept ones differ, `HeardInv` and `CmdInv` what
can be read there, `StreamInv` that frames come on the connection kept for them,
and `CountInv` that each open descriptor is a standard file, a kept connection or one
that `readChannel` opened, but for one of a call that died. The last two, `CmdInv`
and what `SocksInv` says of the standard files are until `stopStreaming` has closed
descriptor 0 (`Stray`).

Only model-checked: every liveness property (`EveryLineIsServed`, `CallReturns`,
`StateAwaited` and the others), which is beyond the prover; and the safety of `DataStore`
(with the modules it extends), whose properties are about what folds over sequences
compute: induction over data.

## 6. Not modelled

Text, formats and wording; memory layout, so that overruns by one byte are
hazards without a property; MDSplus itself, which stores a segment or throws.
Within the components that are modelled in part:

- `AcqDataModel`: the contents of the format file beyond which files there are and
  what lengths they declare.
- Controllers: `LiveMeanProcessController` as a main program, which sets no
  `inputValidator` and so refuses every line (`ProcessController.cpp:605`), as a
  peer it is in `MdsTree`; `DecimateProcessController` with a feed of its own;
  `createState` and `ProcessState`, which nothing calls.
- `MdsContinuousProcessController`: its watchdog, and a parent that is killed and
  whose worker goes on beside the next controller.
- `SHM_Buffer`: the mapping and one element; nothing unlinks the file.
- Transports: `SoapTransport` is a stub; a `read` that a signal interrupts, except
  in `acq196_api_test`; timeouts, which `waitStateChange` does not implement.
- `acq2xx_api`: what the setters say to the card (channels, routes, lengths) is
  text to it; `setExternalClock` and `waitState` are not implemented.

The programs that test the compiler (`dumptest.c`, `float-check.c`), scripts and
vendored headers are left out. Of the lines of the repository, large parts are
vendored headers (each twice, in `include` and `API/include`), licence texts,
class declarations, command-line options and `printf`s around the control that
is modelled. `PROJECT.json` gives the reason for each component.

Abstractions a reader should know: in `Dt100Session` the number of a command is not
cut in the middle, which comes to the same as cutting it before, codes have at most
two digits, and the newline after a trailer is not a token; in `LiveFeed` a directory
is published in one step and blocks yield some number of events, both of which
`EventWorker` has in detail; in `EventWorker` a sample lasts a millisecond; in
`DataStore` one channel stands for the others except in `log`, `demux`, `quads`,
`tree` and some of `stream`; in `AcqDemux` a word is known by its row and column,
in `MdsTree` times are ticks, two to a second, and a volt is told in any unit; in
`Connections` a line is known by who said it and when.

## 7. Plan

Done, in order of importance: `CommandBuffer` with its proofs; event pipeline,
store loop and watchdog, continuous store, command session; then the data:
`Acq132Data` and `EventWorker` with windows, timebases and publication,
`LinearData`, `CardTypes`, `IncomingPulses` and `DataStore` for the other ways
of samples; `KddSession` and `CardPrograms` with the polling of a card's state;
then what is around them: `AcqDemux`, `QuadFiles`, `MdsTree`, `AcqRead`,
`Streaming` and `Connections`, and restarts of `MdsContinuous`. Then the proofs about
`LiveFeed`, `MdsController` with `Watchdog`, `MdsContinuous`, the sessions, the
programs and their connections, and `EventWorker` with the demultiplexer.

Next, in this order:

1. Proofs of what is model-checked: of `DataStore` the children and nodes of a tree
   and the frames of a stream.
2. `EventWorker` as a refinement of `LiveFeed`'s worker: the same directories under
   the same numbers.
3. A killed controller in `MdsContinuous`, whose worker outlives it.
