----------------------------- MODULE Streaming -----------------------------
(***************************************************************************)
(* streamer (streamer.cpp, DataStreamer.cpp): frames of FRAME_SAMPLES rows *)
(* are read from a socket (Dt100Transport.cpp), each row with a tag        *)
(* (Frame.cpp), and given to the handlers: two that print the number of    *)
(* the frame and of its first sample, one that prints means, one that ends *)
(* the line, and one that appends to a directory (DirfileFrameHandler.cpp).*)
(* A tag has its position in the frame and bits of the number of the        *)
(* frame's first row.  A sample is known by its row and by its word of the  *)
(* row; some channels stand for all.                                       *)
(***************************************************************************)
EXTENDS LinearData

CONSTANTS
    FRAME_SAMPLES,
    IntLimit,       \* 2^31: sample numbers below it are computed
    MaxSamples,     \* bound: rows the card sends
    MaxLost,        \* bound: rows it loses
    MaxUnread,      \* bound: rows sent and not read
    MaxFrames,      \* bound: frames without a transport that streams
    Options,        \* [show_tags, time_frames, show_mean, outbase, device: of
                    \* streamer; text, enable, row: what the card says, and
                    \* the bytes of its rows]
    Watched,        \* channels
    SECOND          \* samples in the second that sample_clock_ns is set for

ASSUME StreamingAssumption ==
    /\ FRAME_SAMPLES \in Nat \ {0} /\ IntLimit \in Nat /\ SECOND \in Nat \ {0}
    /\ MaxSamples \in Nat /\ MaxLost \in Nat /\ MaxUnread \in Nat /\ MaxFrames \in Nat

VARIABLES
    options,    \* what streamer is started with, and the card
    spc,        \* "off", "start", "read", "handle", "failed"
    acqTypes,   \* the type each part has been told
    handlers,   \* frameHandlers
    id,         \* frames asked for
    next, lost, \* next row of the card; rows it has lost
    wire,       \* rows sent and not read
    buf,        \* stream_buf
    frame,      \* [id, state, data, start]
    report,     \* lines printed: sequences of columns
    model,      \* the directory's data model
    dirfile,    \* its files
    handled     \* history: of each frame, its state and the rows read for it

LOCAL T == INSTANCE CardTypes

streaming == <<options, spc, acqTypes, handlers, id, next, lost, wire, buf, frame,
               report, model, dirfile, handled>>

StreamInit(on) ==
    /\ options \in IF on THEN Options
                   ELSE {[show_tags |-> 0, time_frames |-> FALSE, show_mean |-> FALSE,
                          outbase |-> FALSE, device |-> "none", text |-> <<>>, enable |-> 0, row |-> 0]}
    /\ spc = IF on THEN "start" ELSE "off"
    /\ acqTypes = [part \in {"streamer", "mean", "dirfile"} |-> T!nullAcqType]
    /\ handlers = <<>>
    /\ id = 0
    \* The stream is joined anywhere in a frame.
    /\ next \in IF on THEN 0 .. FRAME_SAMPLES - 1 ELSE {0}
    /\ lost = 0 /\ wire = <<>> /\ buf = <<>>
    /\ frame = [id |-> 0, state |-> "EMPTY", data |-> [i \in 1 .. FRAME_SAMPLES |-> -1], start |-> 0]
    /\ report = <<>>
    /\ model = NoData
    /\ dirfile = [ch |-> <<>>, tb |-> <<>>]
    /\ handled = <<>>

-----------------------------------------------------------------------------
\* The type of a card that has answered.
TypeOfCard == T!TypeFor(options.text, options.enable)
SampleSize(type) == type.nchan * type.word_size

\* main(): the type is asked of the card once for the streamer and once for
\* each handler that needs it.
Parts == {"streamer"} \cup (IF options.show_mean THEN {"mean"} ELSE {})
                      \cup (IF options.outbase THEN {"dirfile"} ELSE {})

Chosen(option, handler) == IF option THEN << handler >> ELSE <<>>

\* The tag must be first to secure the left columns.
Handlers ==
    LET tags == options.show_tags > 0
    IN  Chosen(tags, "tag") \o Chosen(options.time_frames, "timer") \o Chosen(options.show_mean, "mean")
        \o Chosen(tags \/ options.time_frames \/ options.show_mean, "newline")
        \o Chosen(options.outbase, "dirfile")

Starts ==
    /\ spc = "start"
    /\ acqTypes' \in [DOMAIN acqTypes -> T!Told(options.text, options.enable)]
    /\ \A part \in DOMAIN acqTypes \ Parts : acqTypes'[part] = acqTypes'["streamer"]
    \* There is no such device, no such directory can be made, or a frame would
    \* have less than no channels.
    /\ \/ /\ options.device # "none" /\ acqTypes'["streamer"].nchan >= 0
          /\ handlers' = Handlers /\ spc' = "read"
       \/ /\ options.device = "none" \/ options.outbase \/ acqTypes'["streamer"].nchan < 0
          /\ spc' = "failed" /\ UNCHANGED handlers
    /\ UNCHANGED <<options, id, next, lost, wire, buf, frame, report, model, dirfile, handled>>

-----------------------------------------------------------------------------
\* The card.  Nothing looks at the socket while the handlers run.

Send ==
    /\ spc = "read" /\ options.device = "host" /\ next < MaxSamples /\ Len(wire) < MaxUnread
    /\ next' = next + 1
    /\ \/ wire' = Append(wire, next) /\ UNCHANGED lost
       \/ lost < MaxLost /\ lost' = lost + 1 /\ UNCHANGED wire
    /\ UNCHANGED <<options, spc, acqTypes, handlers, id, buf, frame, report, model, dirfile, handled>>

\* readStreamingFrame(): read() returns some of what there is.
Read ==
    /\ spc = "read" /\ options.device = "host" /\ Len(buf) < FRAME_SAMPLES
    /\ \E k \in 1 .. Len(wire) :
        /\ Len(buf) + k <= FRAME_SAMPLES
        /\ buf' = buf \o SubSeq(wire, 1, k)
        /\ wire' = SubSeq(wire, k + 1, Len(wire))
    /\ UNCHANGED <<options, spc, acqTypes, handlers, id, next, lost, frame, report, model, dirfile, handled>>

\* Whether the streamer's rows are as long as those of the card.
SameRows == SampleSize(acqTypes["streamer"]) = options.row

\* Mutant of TagMatches: only the two rows with a mark are looked at.
TagMatchesTwo(rows, isam) ==
    SameRows /\ (isam > 2 \/ rows[isam] % FRAME_SAMPLES = isam - 1)

\* appendTag(): the position in the tag has to be that of the row.  In rows of
\* another length samples are taken for tags, and do not look like them.
TagMatches(rows, isam) ==
    (isam > 1 => SameRows) /\ rows[isam] % FRAME_SAMPLES = isam - 1

\* fillData(): rows up to the first whose tag does not match; the others keep
\* what an earlier frame left there.
Filled(data, rows) ==
    [i \in 1 .. FRAME_SAMPLES |->
        IF \A j \in 1 .. i : TagMatches(rows, j) THEN rows[i] ELSE data[i]]

\* computeStartSampleNumber(): 1 << ibit is an int, and what the bits from
\* the 31st on come to is not defined.
StartSample(rows) == IF rows[1] < IntLimit THEN {rows[1]} ELSE 0 .. MaxSamples

\* buildFrame().
BuildFrame ==
    /\ spc = "read" /\ Len(buf) = FRAME_SAMPLES
    /\ IF \A j \in 1 .. FRAME_SAMPLES : TagMatches(buf, j)
       THEN \E s \in StartSample(buf) :
                frame' = [id |-> id, state |-> "FULL", data |-> Filled(frame.data, buf), start |-> s]
       ELSE frame' = [frame EXCEPT !.id = id, !.state = "INVALID", !.data = Filled(@, buf)]
    /\ id' = id + 1
    /\ buf' = <<>>
    /\ spc' = "handle"
    /\ handled' = Append(handled, [state |-> frame'.state, rows |-> buf])
    /\ UNCHANGED <<options, acqTypes, handlers, next, lost, wire, report, model, dirfile>>

\* Another transport has no such call: the error is ignored, and the frame is
\* as it was made, in no state yet.
NotImplemented ==
    /\ spc = "read" /\ options.device = "7" /\ id < MaxFrames
    /\ frame' \in [id : {0}, state : {"EMPTY", "FULL", "INVALID"}, data : {frame.data}, start : {0, MaxSamples}]
    /\ id' = id + 1
    /\ spc' = "handle"
    /\ handled' = Append(handled, [state |-> "none", rows |-> <<>>])
    /\ UNCHANGED <<options, acqTypes, handlers, next, lost, wire, buf, report, model, dirfile>>

-----------------------------------------------------------------------------
\* The handlers, for every frame, whether it was read well or not.

getStartSampleNumber == IF frame.state = "FULL" THEN frame.start ELSE -1

\* getChannel(): the words at the offset of the channel.
getChannel(ch) ==
    LET word == T!getChannelOffset(acqTypes["streamer"], ch)
    IN  [i \in 1 .. FRAME_SAMPLES |-> Sample(frame.data[i], frame.data[i], word)]

\* FrameHandlerShowsTag, FrameTimer; FrameHandlerComputingStats, whose means
\* are known by the samples they are of.
doStats == [ch \in Watched \cap 1 .. acqTypes["streamer"].nchan |-> getChannel(ch)]
Column(handler) ==
    CASE handler \in {"tag", "timer"} -> << frame.id, getStartSampleNumber >>
      [] handler = "mean" -> doStats
Columns ==
    LET printing == SelectSeq(handlers, LAMBDA h : h \in {"tag", "timer", "mean"})
    IN  [i \in DOMAIN printing |-> Column(printing[i])]

\* ConcreteDirfileFrameHandler: the number of the sample is its time.
Stored ==
    addEventSignature(processCooked(clear(model), getChannel(1)), 0, getStartSampleNumber * SECOND)

\* streamData().  A handler for words of another size finds no frame of its
\* own and fails, and so does a directory of fewer channels.
Fails ==
    LET Other(h) == acqTypes[h].word_size # acqTypes["streamer"].word_size
    IN  \/ \E h \in {"mean", "dirfile"} : Contains(handlers, h) /\ Other(h)
        \/ Contains(handlers, "dirfile") /\ acqTypes["dirfile"].nchan < acqTypes["streamer"].nchan

OnFrame ==
    /\ spc = "handle" /\ ~ Fails
    /\ report' = IF Contains(handlers, "newline") THEN Append(report, Columns) ELSE report
    /\ IF Contains(handlers, "dirfile")
       THEN /\ model' = Stored
            /\ dirfile' = [ch |-> dirfile.ch \o model'.cooked, tb |-> dirfile.tb \o dumpTimebase(model')]
       ELSE UNCHANGED <<model, dirfile>>
    /\ spc' = "read"
    /\ UNCHANGED <<options, acqTypes, handlers, id, next, lost, wire, buf, frame, handled>>

HandlerFails ==
    /\ spc = "handle" /\ Fails
    /\ spc' = "failed"
    /\ UNCHANGED <<options, acqTypes, handlers, id, next, lost, wire, buf, frame, report, model, dirfile, handled>>

StreamNext ==
    \/ Starts \/ Send \/ Read \/ BuildFrame \/ NotImplemented \/ OnFrame \/ HandlerFails

-----------------------------------------------------------------------------
StreamTypes ==
    /\ spc \in {"off", "start", "read", "handle", "failed"}
    /\ next \in 0 .. MaxSamples /\ lost \in 0 .. MaxLost /\ id \in Nat
    /\ wire \in Seq(Nat) /\ buf \in Seq(Nat) /\ Len(buf) <= FRAME_SAMPLES
    /\ frame \in [id : Nat, state : {"EMPTY", "FULL", "INVALID"},
                  data : [1 .. FRAME_SAMPLES -> Nat \cup {-1}], start : Nat]
    /\ dirfile.tb \in Seq(Int) /\ Len(report) <= Len(handled)

\* When the streamer knows the type of the card, the k-th line is about the
\* k-th frame: its number, that of its first sample, and the mean of its
\* samples for each channel, in columns that are always the same; and the
\* directory has those samples in its place.  No two channels have the same
\* word of a row, and each has one of the block of 32 that it is in.  Its
\* rows are as long as those of the card.  The samples of a frame whose tags
\* are right are consecutive, wherever the stream was joined, however read()
\* cut it and whichever rows the card lost, fewer than a frame.
StreamedTrue ==
    LET told == spc \notin {"off", "start"} /\ acqTypes["streamer"] = TypeOfCard /\ TypeOfCard.kind # "null"
        right(k) == told /\ handled[k].state = "FULL" /\ lost < FRAME_SAMPLES
        samples(k, got) ==
            got = [i \in 1 .. FRAME_SAMPLES |-> Sample(handled[k].rows[i], handled[k].rows[i], got[1].ch)]
        number(k) == << k - 1, handled[k].rows[1] >>
        mean == Len(Handlers) - Cardinality({"newline", "dirfile"} \cap ToSet(Handlers))
    IN  /\ told => SampleSize(TypeOfCard) = options.row
        /\ \A k \in 1 .. Len(handled) : right(k) =>
            /\ \A i \in 1 .. FRAME_SAMPLES : handled[k].rows[i] = handled[k].rows[1] + i - 1
            /\ k \in DOMAIN report =>
                \A c \in DOMAIN report[k] :
                    IF options.show_mean /\ c = mean
                    THEN LET means == report[k][c]
                         IN  /\ \A ch \in DOMAIN means :
                                    samples(k, means[ch]) /\ means[ch][1].ch \div 32 = (ch - 1) \div 32
                             /\ \A a, b \in DOMAIN means : a # b => means[a] # means[b]
                    ELSE handled[k].rows[1] < IntLimit => report[k][c] = number(k)
            /\ Len(dirfile.ch) >= k * FRAME_SAMPLES =>
                samples(k, SubSeq(dirfile.ch, (k - 1) * FRAME_SAMPLES + 1, k * FRAME_SAMPLES))
=============================================================================
