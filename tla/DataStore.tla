----------------------------- MODULE DataStore -----------------------------
(***************************************************************************)
(* The ways samples reach a file, a tree or a caller; one of them is       *)
(* chosen at the start, all but two of them through an AcqDataModel:       *)
(*   "files"   OfflineProcessController: raw files into one directory;     *)
(*   "continuous"  ContinuousProcessController: one raw file after another *)
(*             appended to a directory;                                    *)
(*   "mds"     MdsProcessController without a feed: raw files into         *)
(*             segments of a tree;                                         *)
(*   "rows"    the same with MDS_USE_TIMESTAMP_SEGS: into rows of it;      *)
(*   "log"     LiveLogProcessController: a subset of each block of the     *)
(*             feed, appended to one directory;                            *)
(*   "incoming"  IncomingProcessController: a directory for each file;     *)
(*   "stream"  streamer (module Streaming);                                *)
(*   "channel" acqread (module AcqRead);                                   *)
(*   "quads"   OfflineProcessController with the files of an ACQ132's      *)
(*             channels and quads by name (module QuadFiles);              *)
(*   "demux"   acq_demux from its options to its directory, with the words *)
(*             of a raw file and the definition of the card (AcqDemux);    *)
(*   "tree"    acq_demux-mds with its feed, peers and children (MdsTree).  *)
(* The first two also take the data of an ACQ132.                          *)
(***************************************************************************)
EXTENDS IncomingPulses, AcqRead, Streaming, AcqDemux, QuadFiles, MdsTree

CONSTANTS
    Fronts,         \* the programs
    RawFiles,       \* sequences of files, each a sequence of rows
    PulseRuns,      \* the same for "incoming"
    scanlist,       \* of the ACQ132
    BurstFiles,     \* its sequences of files
    Rates,          \* divisors <<div0, div1>> of its dual rate
    DualFiles,      \* sequences of files with them
    SampleLimits,   \* values of --nsamples
    Rtrims,         \* samples trimmed from the end of a segment
    BlockRows,      \* rows of a block of the feed
    NumChannels,    \* of the card
    Bite,           \* samples of a bite of a block, 128
    MaxLens,        \* values of --maxlen
    MaxBlocks       \* bound

\* Acq132DataModel.
B == INSTANCE Acq132Data

ASSUME StoreAssumption ==
    /\ Fronts \subseteq {"files", "continuous", "mds", "rows", "log",
                    "incoming", "stream", "channel", "quads", "demux", "tree"}
    \* A shorter file that is no row for each quad is never left again.
    /\ \A fs \in BurstFiles \cup DualFiles : \A i \in DOMAIN fs :
            Len(fs[i]) >= FIFOSAM * B!NQuads \/ Len(fs[i]) % B!NQuads = 0
    /\ SampleLimits \subseteq Nat \ {0} /\ WORD \in Nat \ {0}
    /\ BlockRows \in Nat /\ NumChannels \in Nat \ {0} /\ Bite \in Nat \ {0}
    /\ MaxLens \subseteq Nat \ {0} /\ Rtrims \subseteq Nat /\ MaxBlocks \in Nat

VARIABLES
    front, card, rates, input, rtrim, maxlen, nsamples, forks, has_timestamp,
                \* what the program is started with
    pc,         \* "start", "stored", "failed" of those with raw files;
                \* "feed" of the live controllers; "off" of modules of their own
    dm, dq,     \* the data model: LinearDataModel, Acq132DataModel
    ess,        \* event_sample_start of "continuous"
    ch, tb,     \* files CH01 and TB01
    quads,      \* quad -> its files: of a channel, and TB
    stored,     \* segments put in the tree
    block       \* files, or blocks of the feed, passed

config == <<front, card, rates, input, rtrim, maxlen, nsamples, forks, has_timestamp>>
data == <<dm, dq, ess>>
outputs == <<ch, tb, quads, stored>>
store == <<config, pc, data, outputs, block, incoming>>
vars == <<store, acqread, streaming, demux, quadfiles, mdstree>>

Init ==
    /\ front \in Fronts
    /\ card \in IF front \in {"files", "continuous"} THEN {"linear", "acq132"} ELSE {"linear"}
    /\ rates \in IF front = "files" /\ card = "acq132" THEN {<<>>} \cup Rates ELSE {<<>>}
    /\ input \in CASE rates # <<>> -> DualFiles [] card = "acq132" -> BurstFiles
                   [] front \in {"files", "continuous", "mds", "rows"} -> RawFiles
                   [] front = "incoming" -> PulseRuns
                   [] OTHER -> {<<>>}
    /\ nsamples \in IF card = "acq132" THEN SampleLimits ELSE {B!Unlimited}
    /\ has_timestamp \in IF front = "rows" THEN BOOLEAN ELSE {TRUE}
    /\ rtrim \in IF front = "mds" THEN Rtrims ELSE {0}
    /\ maxlen \in IF front = "log" THEN MaxLens ELSE {1}
    /\ pc = CASE front \in {"stream", "channel", "quads", "demux", "tree"} -> "off" [] front = "log" -> "feed"
              [] OTHER -> "start"
    /\ dm = NoData /\ dq = B!Cleared /\ ess = 0
    /\ ch = <<>> /\ tb = <<>> /\ stored = <<>>
    /\ quads = [q \in B!Quads |-> [ch |-> <<>>, tb |-> <<>>]]
    /\ block = 0
    /\ IF front = "incoming" THEN PulsesInit(Undefined, OldMinutes) ELSE PulsesInit({0}, {})
    /\ forks \in IF front \in {"log", "incoming"} THEN BOOLEAN ELSE {FALSE}
    /\ ReadInit(front = "channel") /\ StreamInit(front = "stream")
    /\ DemuxInit(front = "demux") /\ QuadsInit(front = "quads") /\ TreeInit(front = "tree")

\* LinearDataModel::dump(): the channel and the timebase are appended.
Dump(d) ==
    /\ ch' = ch \o d.cooked
    /\ tb' = tb \o dumpTimebase(d)

\* The quads at which a dump is ended by an exception.
Aborting(d) ==
    IF card # "acq132" \/ rates = <<>> THEN {}
    ELSE { i \in 1 .. B!NQuads : B!Throws(B!Transitions(d[scanlist[i]], rates[1], rates[2])) }

\* Acq132DataModel::dump(root, ess), of the quads before.
DumpQuads(d) ==
    LET full == B!trimSamples(d, nsamples)
        Dumped(q) == \A i \in Aborting(d) : \E j \in 1 .. i - 1 : scanlist[j] = q
    IN  quads' = [q \in B!Quads |->
                    IF ~ Dumped(q) THEN quads[q]
                    ELSE [ch |-> quads[q].ch \o full[q].data,
                          tb |-> quads[q].tb \o
                                 IF rates = <<>> THEN B!dumpTimebase(full[q], ess)
                                 ELSE B!dumpTimebaseDR(full[q], Len(d[q].data), rates[1], rates[2])]]

-----------------------------------------------------------------------------
\* Raw files named on the command line.

\* The mapping of a file, and what lies behind it.
Mapped(file) == [m \in Nat |-> IF m < Len(file) THEN file[m + 1] ELSE B!Stray]
processQuads(file) == B!process(Mapped(file), 0, Len(file), dq, nsamples, TRUE)

ProcessFile ==
    /\ pc = "start" /\ front \notin {"continuous", "incoming"} /\ block < Len(input)
    /\ LET file == input[block + 1]
       IN  IF card = "linear" THEN dm' = processRaw(dm, file) /\ UNCHANGED dq
                              ELSE dq' = processQuads(file) /\ UNCHANGED dm
    /\ block' = block + 1
    /\ UNCHANGED <<config, pc, ess, outputs, incoming>>

OfflineDump ==
    /\ pc = "start" /\ front = "files" /\ block = Len(input)
    /\ IF card = "linear" THEN Dump(dm) /\ UNCHANGED quads
                          ELSE DumpQuads(dq) /\ UNCHANGED <<ch, tb>>
    /\ pc' = IF Aborting(dq) = {} THEN "stored" ELSE "failed"
    /\ UNCHANGED <<config, data, stored, block, incoming>>

\* ContinuousProcessController::processAction(): process, dump, clear.
ContinuousLinear ==
    LET d == processRaw(dm, input[block + 1])
    IN  /\ card = "linear"
        /\ Dump(d)
        /\ dm' = clear(d)
        /\ ess' = (ess + Len(d.cooked)) % WORD
        /\ UNCHANGED <<dq, quads>>

\* getActualSamples() of an ACQ132 is always -1.
ContinuousQuads ==
    /\ card = "acq132"
    /\ DumpQuads(processQuads(input[block + 1]))
    /\ dq' = B!Cleared
    /\ ess' = (ess - 1) % WORD
    /\ UNCHANGED <<dm, ch, tb>>

ContinuousFile ==
    /\ pc = "start" /\ front = "continuous" /\ block < Len(input)
    /\ ContinuousLinear \/ ContinuousQuads
    /\ block' = block + 1
    /\ UNCHANGED <<config, pc, stored, incoming>>

\* Mutant of Keeps: the loop keeps what it has processed itself.
KeepsCooked(d) == dm' = IF forks THEN dm ELSE d

\* processTblock(): a worker takes its data model with it, without one the
\* loop clears its own.
Keeps(d) == dm' = IF forks THEN dm ELSE clear(d)

\* runPulse() for the next file; without a worker what goes wrong ends the
\* program.
Pulse ==
    /\ pc = "start" /\ front = "incoming" /\ block < Len(input)
    /\ LET d == processRaw(dm, input[block + 1])
       IN  \/ PulseStored(d) /\ Keeps(d) /\ UNCHANGED pc
           \/ PulseLost /\ pc' = (IF forks THEN pc ELSE "failed") /\ UNCHANGED dm
           \/ MkdirFails /\ pc' = "failed" /\ UNCHANGED dm
    /\ block' = block + 1
    /\ UNCHANGED <<config, dq, ess, outputs>>

\* The rows of TimestampedSegmentMdsWrapper: not trimmed, and all at 0 when
\* getTimeStamp() has none, as of an ACQ196's signatures.
TimestampedRows(d) ==
    LET rows == segments(d, 0)
    IN  IF has_timestamp THEN rows ELSE [i \in DOMAIN rows |-> [rows[i] EXCEPT !.t1 = 0]]

\* mdsPut(); it is given up without a signature at the first sample.
MdsPut ==
    /\ pc = "start" /\ front \in {"mds", "rows"} /\ block = Len(input)
    /\ IF CanSegment(dm)
       THEN stored' = (IF front = "mds" THEN segments(dm, rtrim) ELSE TimestampedRows(dm)) /\ pc' = "stored"
       ELSE UNCHANGED stored /\ pc' = "failed"
    /\ UNCHANGED <<config, data, ch, tb, quads, block, incoming>>

-----------------------------------------------------------------------------
\* The live log.  Offsets are in words, NumChannels of them to a row.

\* The row that begins at a word of a block: channel 1 is given whatever
\* channel that word belongs to.
RowAt(b, w) ==
    LET n == b * BlockRows + (w \div NumChannels)
    IN  Sample(n, n, (w % NumChannels) + 1)

Stride == LET nbites == IF maxlen > Bite THEN maxlen \div Bite ELSE 1
          IN  (BlockRows * NumChannels) \div nbites
RunLen == IF maxlen < Bite THEN maxlen ELSE Bite

\* SubsetProcessController::processAction(): the pieces it hands on.  A bite
\* that ends with the block is not taken.
Bites(b) ==
    LET len == BlockRows * NumChannels
        begins == [k \in 1 .. len |-> (k - 1) * Stride]
        starts == SelectSeq(begins, LAMBDA s : s + RunLen * NumChannels < len)
    IN  [i \in DOMAIN starts |-> [j \in 1 .. RunLen |-> RowAt(b, starts[i] + (j - 1) * NumChannels)]]

\* The bites of a block go to the data model.
Subset == FoldLeft(processRaw, dm, Bites(block))

LogBlock ==
    /\ pc = "feed" /\ front = "log" /\ block < MaxBlocks
    /\ Dump(Subset)
    /\ Keeps(Subset)
    /\ block' = block + 1
    /\ UNCHANGED <<config, pc, dq, ess, quads, stored, incoming>>

\* maxq is 1: a line that was not taken in time is dropped; and so is one that
\* does not begin with three digits.
MissBlock ==
    /\ pc = "feed" /\ block < MaxBlocks
    /\ block' = block + 1
    /\ UNCHANGED <<config, pc, data, outputs, incoming>>

-----------------------------------------------------------------------------
StoreNext ==
    \/ ProcessFile \/ OfflineDump \/ ContinuousFile \/ MdsPut
    \/ Pulse \/ LogBlock \/ MissBlock

Next ==
    \/ StoreNext /\ UNCHANGED <<acqread, streaming, demux, quadfiles, mdstree>>
    \/ AcqReadNext /\ UNCHANGED <<store, streaming, demux, quadfiles, mdstree>>
    \/ StreamNext /\ UNCHANGED <<store, acqread, demux, quadfiles, mdstree>>
    \/ DemuxNext /\ UNCHANGED <<store, acqread, streaming, quadfiles, mdstree>>
    \/ QuadsNext /\ UNCHANGED <<store, acqread, streaming, demux, mdstree>>
    \/ TreeNext /\ UNCHANGED <<store, acqread, streaming, demux, quadfiles>>

Spec == Init /\ [][Next]_vars

-----------------------------------------------------------------------------
Rows == [es : BOOLEAN, n : Int, t : Int, ch : 1 .. NumChannels]
QuadRows == [es : BOOLEAN, q : B!Quads \cup {"none"}, n : Nat]
DRRows == [es : {TRUE}, q : B!Quads, n : {0}, to : {"div0", "div1", "both", "none"}, lat : Nat]
Marks == [cursor : Nat, t : Int]

\* Every variable holds a value of its type; only samples reach a file.
TypeInv ==
    /\ front \in Fronts /\ rtrim \in Rtrims \cup {0} /\ maxlen \in MaxLens \cup {1}
    /\ input \in IF card = "linear" THEN Seq(Seq(Rows)) ELSE Seq(Seq(QuadRows \cup DRRows))
    /\ rates \in {<<>>} \cup Rates
    /\ nsamples \in SampleLimits \cup {B!Unlimited}
    /\ pc \in {"start", "stored", "failed", "feed", "off"}
    /\ dm \in [cooked : Seq(Rows), es : Seq(Marks)]
    /\ dq \in [B!Quads -> [data : Seq(QuadRows), es : Seq(Nat), sig : Seq(QuadRows \cup DRRows)]]
    /\ ess \in 0 .. WORD - 1
    /\ quads \in [B!Quads -> [ch : Seq({ r \in QuadRows : ~ r.es }), tb : Seq(Nat)]]
    /\ ch \in Seq({ r \in Rows : ~ r.es }) /\ tb \in Seq(Int)
    /\ stored \in Seq([t1 : Int, from : Nat, len : Int])
    /\ IncomingTypes /\ forks \in BOOLEAN /\ has_timestamp \in BOOLEAN
    /\ block \in Nat /\ ReadTypes /\ StreamTypes /\ DemuxTypes /\ QuadFilesTypes
    /\ TreeTypes

\* The log of a channel holds samples of that channel, each at most once and
\* in order, also over blocks that were missed, when the stride is a number
\* of rows and not less than a bite.
LoggedInOrder ==
    front = "log" /\ Stride % NumChannels = 0 /\ Stride >= RunLen * NumChannels =>
        /\ \A i \in 1 .. Len(ch) : ch[i].ch = 1
        /\ \A i \in 1 .. Len(ch) - 1 : ch[i].n < ch[i + 1].n

\* Every pulse has a directory of its own, below that of the second and the
\* minute since the start that it came in, with its samples and no others,
\* also behind pulses that were lost; and what is copied for others is of
\* seconds that are over.
PulsesTrue ==
    front = "incoming" =>
        /\ \A d \in DOMAIN dirs :
            LET k == d[3]
                over == (k - 1) \div PPS
            IN  /\ k \in 1 .. pulse
                /\ d[2] = over % MINUTE
                /\ dirs[d].ch \in {<<>>, SelectSeq(input[k], LAMBDA r : ~ r.es)}
                /\ \A e \in DOMAIN dirs : e # d =>
                      /\ e[3] # k
                      /\ e[1] - d[1] = ((e[3] - 1) \div PPS) \div MINUTE - over \div MINUTE
                /\ d \in copy \cup current => (over + 1) * PPS <= pulse

-----------------------------------------------------------------------------
\* The files of an ACQ132 that have been read, and what each quad has of them.
Processed == SubSeq(input, 1, block)
RowsRead(q) == SelectSeq(FlattenSeq(Processed), LAMBDA r : r.q = q)
SamplesRead(q) == SelectSeq(RowsRead(q), LAMBDA r : ~ r.es)
\* Samples that there are of every quad; --nsamples is for each dump.
Shared ==
    Min({ Len(SamplesRead(q)) : q \in B!Quads }
        \cup {IF front = "files" THEN nsamples ELSE B!Unlimited})

\* They have been dumped; each was cut between scans (the last of
\* OfflineProcessController anywhere behind its first scan), and --nsamples
\* leaves no quad's turn half done.
WholeScans(file) == Len(file) % (FIFOSAM * B!NQuads) = 0
BurstsDumped ==
    LET whole == { i \in 1 .. block : WholeScans(Processed[i]) }
    IN  /\ card = "acq132" /\ nsamples >= FIFOSAM
        /\ IF front = "files"
           THEN pc = "stored" /\ 1 .. block - 1 \subseteq whole
                /\ Len(Last(Processed)) >= FIFOSAM * B!NQuads
           ELSE nsamples = B!Unlimited /\ whole = 1 .. block

\* A signature is in front of the samples of each quad, and no two are
\* without a sample between them.
Timed(file) ==
    \A q \in B!Quads :
        LET rows == SelectSeq(file, LAMBDA r : r.q = q)
        IN  /\ rows # <<>> => rows[1].es
            /\ \A i \in 1 .. Len(rows) - 1 : ~ (rows[i].es /\ rows[i + 1].es)

\* The channel files of an ACQ132 are equally long and hold the samples of
\* their own quad, all of them from the first on as far as every quad has
\* them, and at one rate its timebase the time of each, over pauses between
\* bursts and from file to file.
BurstsTrue ==
    BurstsDumped =>
        \A q \in B!Quads :
            /\ quads[q].ch = SubSeq(SamplesRead(q), 1, Shared)
            /\ rates = <<>>
                    /\ (IF front = "files" THEN Timed(FlattenSeq(Processed))
                                           ELSE \A i \in 1 .. block : Timed(Processed[i])) =>
                    \A i \in 1 .. Shared : quads[q].tb[i] = quads[q].ch[i].n

\* The rows of a quad that tell of the clock, those that tell of a change,
\* and how often the clock ran before and after one.
Tells(rows) == { p \in DOMAIN rows : rows[p].es /\ B!HasRate(rows[p]) }
Changes(rows) == { p \in Tells(rows) : ~ B!isBogusTransition(rows[p]) }
Old(row) == IF row.to = "div0" THEN rates[2] ELSE rates[1]
New(row) == IF row.to = "div0" THEN rates[1] ELSE rates[2]
\* The sample with which the clock changed.
Changed(rows, p) ==
    Cardinality({ r \in 1 .. p : ~ rows[r].es }) - rows[p].lat - B!ColdOffset(Old(rows[p]))

\* The changes come in turns and in order, no signature in front of any.
Orderly(rows) ==
    LET told == Changes(rows)
    IN  /\ \A p \in told : Changed(rows, p) >= 0 /\ (p > 1 => ~ rows[p - 1].es)
        /\ \A p, r \in told : r > p =>
                /\ Changed(rows, p) <= Changed(rows, r)
                /\ (\A s \in told : s <= p \/ s >= r) => rows[p].to # rows[r].to

\* Each sample comes as long after the one before it as the divisor says that
\* the clock then ran with; behind the last change, if no bogus signature
\* follows it.
Paced(times, n, rows) ==
    LET told == Changes(rows)
        Ahead(i) == { p \in told : Changed(rows, p) > i }
    IN  /\ Len(times) >= n
        /\ n > 0 => times[1] = 0
        /\ \A i \in 1 .. n - 1 :
            LET step == times[i + 1] - times[i]
            IN  IF Ahead(i - 1) # {} THEN step = Old(rows[Min(Ahead(i - 1))])
                ELSE Max(Tells(rows)) \in told => step = New(rows[Max(told)])

\* At two rates the timebase of a quad is paced as the clock was, whichever
\* signatures with a time and bogus ones are among the orderly changes.  (A
\* bogus one behind the last change sets the rate of what follows.)
DualRateTrue ==
    BurstsDumped /\ rates # <<>> =>
        \A q \in B!Quads :
            LET rows == RowsRead(q)
            IN  Changes(rows) # {} /\ Orderly(rows) => Paced(quads[q].tb, Shared, rows)

-----------------------------------------------------------------------------
\* The samples a segment takes, with the times it gives them.
Taken(s) == [k \in 1 .. s.len |-> [dm.cooked[s.from + k] EXCEPT !.t = s.t1 + k - 1]]

\* Of a single raw file that begins with a signature, where the signatures
\* have a time stamp, the segments (or rows)
\* have every sample but the last rtrim before the next signature or the end,
\* once and in order, at the time it was taken.
SegmentsTrue ==
    pc = "stored" /\ front \in {"mds", "rows"} /\ Len(input) = 1 /\ input[1][1].es
        /\ has_timestamp =>
        LET file == input[1]
            kept == { p \in 1 .. Len(file) - rtrim : \A j \in 0 .. rtrim : ~ file[p + j].es }
            begins == { p \in 1 .. Len(file) : file[p].es }
        IN  (\A p \in begins : p + 1 \in kept) =>
                FlattenSeq([i \in 1 .. Len(stored) |-> Taken(stored[i])])
                    = LET ps == SelectSeq([p \in DOMAIN file |-> p], LAMBDA p : p \in kept)
                      IN  [i \in DOMAIN ps |-> file[ps[i]]]

\* The format file gives TB01 and CH01 one value per sample each, and TB01 is
\* the reference of the directory: TB01 has a time for each sample of CH01.
TimebaseCoversChannel == tb # <<>> => Len(tb) = Len(ch)
=============================================================================
