------------------------------- MODULE MdsTree -------------------------------
(***************************************************************************)
(* acq_demux-mds from its environment to the nodes of its tree: the active *)
(* channels, the calibration, a child for each raw file that the feed      *)
(* names, the peers it calls first (acq_demux_decim, acq_demux-lm), and    *)
(* the events that tell of segments.  A volt is told in any unit; times    *)
(* are ticks of a clock, TICKS of them to a second.                        *)
(***************************************************************************)
EXTENDS LinearData

CONSTANTS
    Trees,          \* programs, each a record:
                    \*   nchan, word_size: of the card
                    \*   timestamps: MDS_USE_TIMESTAMP_SEGS
                    \*   one_only: ACQ_DEMUX_CHANNEL_ONE_ONLY
                    \*   range: MDS_ACTIVE_CHANNELS <<c1, c2>>, or <<>>
                    \*   event: MDS_EVENT, "none", "name", or "interval", a
                    \*          name and a number
                    \*   vin: the numbers of TREE.vin, or NoVin
                    \*   peers
                    \*   files: the raw files in the order of the feed
                    \*   ticks: bound on the clock
    Heap,           \* what memory may hold that nobody has written
    MEAN_STRIDE,    \* of the samples a peer takes the mean of, 100
    TICKS

VARIABLES
    tree,           \* the program
    tpc,            \* of the parent: "off", "env", "cal", "tree", "feed",
                    \* "wait", "over"
    active_channels,
    eventMin,
    acq_cal,        \* pairs <<p1, p2>>, or DefaultCal
    calibration,    \* GAIN_V and OFFSET_V of the nodes
    nodes,          \* channel -> segments; the timebase is channel 0
    clock, shot_time, last_time,
    rawblock,
    fileno,         \* file in progress
    raw_left,       \* raw files that are still there
    child,          \* "none", "load", "peers", "dump", "unlink", "exited", "killed"
    child_dm,       \* its data model
    peer,           \* peers it has passed
    wf,             \* directory /dev/shm/TREE_wf
    live_means,     \* file /dev/shm/TREE
    mds_events,     \* history: events that were set
    children        \* history: how the child of each file ended

setup == <<tree, active_channels, eventMin, acq_cal, calibration, shot_time>>
segment_events == <<last_time, rawblock, mds_events>>
peer_files == <<wf, live_means>>
mdstree == <<setup, tpc, nodes, clock, segment_events, fileno, raw_left, child, child_dm, peer,
             peer_files, children>>

NoVin == <<"absent">>
DefaultCal == <<"default">>
NoWf == [mtime |-> -1, files |-> <<>>]

TreeInit(on) ==
    /\ tree \in IF on THEN Trees ELSE {<<>>}
    /\ tpc = IF on THEN "env" ELSE "off"
    /\ active_channels = <<>> /\ eventMin = 0
    /\ acq_cal = DefaultCal /\ calibration = <<>> /\ nodes = <<>>
    /\ clock \in IF on THEN 0 .. Min({TICKS - 1, tree.ticks}) ELSE {0}
    /\ shot_time = 0 /\ last_time = 0 /\ rawblock = 0 /\ mds_events = <<>>
    /\ fileno = 0 /\ raw_left = (IF on THEN DOMAIN tree.files ELSE {})
    /\ child = "none" /\ child_dm = NoData /\ peer = 0
    /\ wf = NoWf /\ live_means = <<>> /\ children = <<>>

-----------------------------------------------------------------------------
\* The start.

\* setActiveChannelRange(), on: those that are not active yet.
setActiveChannelRange(active, c1, c2) ==
    active \o SelectSeq([i \in 1 .. c2 - c1 + 1 |-> c1 + i - 1], LAMBDA c : c \notin ToSet(active))

\* The wrapper's and the controller's constructors, and initEnv().  A name
\* alone is for at most one event a second; a number is scanned as a float
\* into half of a double.
ReadEnv ==
    /\ tpc = "env"
    /\ active_channels' = IF tree.range = <<>> THEN setActiveChannelRange(<<>>, 1, tree.nchan)
                          ELSE setActiveChannelRange(<<>>, tree.range[1], tree.range[2])
    /\ eventMin' \in IF tree.event = "interval" THEN Heap ELSE {TICKS}
    /\ nodes' = [c \in 0 .. tree.nchan |-> <<>>]
    /\ tpc' = "cal"
    /\ UNCHANGED <<tree, acq_cal, calibration, shot_time, clock, segment_events, fileno, raw_left,
                   child, child_dm, peer, peer_files, children>>

\* AcqCalImpl: two numbers for each channel, until there are none; of the
\* others only the first is cleared.
ScanPairs(vin, nchan, garbage) ==
    [c \in 1 .. nchan |->
        LET p1 == IF 2 * c - 1 <= Len(vin) THEN vin[2 * c - 1] ELSE IF c = 1 THEN 0 ELSE garbage
            p2 == IF 2 * c <= Len(vin) THEN vin[2 * c] ELSE IF c = 1 THEN 0 ELSE garbage
        IN  <<p1, p2>>]

\* addCal(): the file is named after the tree.  The timer is started.
AddCal ==
    /\ tpc = "cal"
    /\ IF tree.vin = NoVin THEN UNCHANGED acq_cal
       ELSE \E garbage \in Heap : acq_cal' = ScanPairs(tree.vin, tree.nchan, garbage)
    /\ shot_time' = clock
    /\ tpc' = "tree"
    /\ UNCHANGED <<tree, active_channels, eventMin, calibration, nodes, clock, segment_events,
                   fileno, raw_left, child, child_dm, peer, peer_files, children>>

\* getCal(): volts are raw * gain + offset; both are fractions.
getCal(c) ==
    IF acq_cal = DefaultCal
    THEN [gain |-> IF tree.word_size = 2 THEN <<10, 32768>> ELSE <<10, 8388607>>, offset |-> <<0, 1>>]
    ELSE LET p1 == acq_cal[c][1]
             p2 == acq_cal[c][2]
         IN  [gain |-> <<p2 - p1, IF tree.word_size = 2 THEN 65535 ELSE 16777215>>,
              offset |-> <<p1 * 65535 + 32768 * (p2 - p1), 65535>>]

\* createTree() and mdsPutCal(): for every channel of the card.
CreateTree ==
    /\ tpc = "tree"
    /\ \/ /\ calibration' = [c \in 1 .. tree.nchan |-> getCal(c)]
          /\ tpc' = "feed"
       \* The tree cannot be opened, or a node is not there.
       \/ tpc' = "over" /\ UNCHANGED calibration
    /\ UNCHANGED <<tree, active_channels, eventMin, acq_cal, shot_time, nodes, clock, segment_events,
                   fileno, raw_left, child, child_dm, peer, peer_files, children>>

\* Time passes.
Tick ==
    /\ tpc \notin {"off", "over"} /\ clock < tree.ticks
    /\ clock' = clock + 1
    /\ UNCHANGED <<setup, tpc, nodes, segment_events, fileno, raw_left, child, child_dm, peer,
                   peer_files, children>>

-----------------------------------------------------------------------------
\* A child, with the memory that the parent had.

\* getDef() and fork().
ForkChild ==
    /\ tpc = "feed"
    /\ IF fileno < Len(tree.files)
       THEN fileno' = fileno + 1 /\ child' = "load" /\ tpc' = "wait"
       ELSE tpc' = "over" /\ UNCHANGED <<fileno, child>>
    /\ child_dm' = NoData /\ peer' = 0
    /\ UNCHANGED <<setup, nodes, clock, segment_events, raw_left, peer_files, children>>

InChild == UNCHANGED <<setup, tpc, clock, segment_events, fileno, children>>

\* processRawFiles(), of a line without a comma: getDef() takes the line for
\* the name of one file.
LoadRaw ==
    /\ child = "load"
    /\ child_dm' = processRaw(NoData, tree.files[fileno])
    /\ child' = "peers"
    /\ UNCHANGED <<nodes, raw_left, peer, peer_files>>
    /\ InChild

\* Mutant of ChannelOf: channel 1 in every file.
ChannelOfFirst(c) == child_dm.cooked

ChannelOf(c) == [i \in DOMAIN child_dm.cooked |-> [child_dm.cooked[i] EXCEPT !.ch = c]]

\* Only channels of shorts can be had; of others there is an empty one.
getChannelData == IF tree.word_size = 2 THEN child_dm.cooked ELSE <<>>

Second(ticks) == ticks \div TICKS

\* readyForUpdate(): it is there and was not changed in this second, or can
\* be made.
readyForUpdate == wf = NoWf \/ wf.mtime # Second(clock)

\* The channels up to n and, when they are all written, the timebase.  The
\* directory changes with a name that is new, not with what a file holds.
WfWritten(n) ==
    LET new == [c \in 1 .. n |-> [file |-> fileno, samples |-> ChannelOf(c)]]
    IN  [mtime |-> IF wf = NoWf \/ ~ (1 .. n \subseteq DOMAIN wf.files) THEN Second(clock) ELSE wf.mtime,
         files |-> [c \in 1 .. n |-> new[c]] @@ wf.files]

\* Every channel has the samples of the others: none is left out, whatever
\* its name says.
DecimatePeer ==
    /\ child = "peers" /\ peer < Len(tree.peers) /\ tree.peers[peer + 1] = "acq_demux_decim"
    /\ wf' = IF readyForUpdate THEN WfWritten(tree.nchan) ELSE wf
    /\ peer' = peer + 1
    /\ UNCHANGED <<child, child_dm, nodes, raw_left, live_means>>
    /\ InChild

\* visitChannels(): every stride-th sample.
Visited(samples, stride) ==
    [i \in 1 .. (Len(samples) + stride - 1) \div stride |-> samples[(i - 1) * stride + 1]]

\* MeanVisitor: the samples of each channel whose mean it writes.
Means == [c \in 1 .. tree.nchan |->
            Visited(IF tree.word_size = 2 THEN ChannelOf(c) ELSE getChannelData, MEAN_STRIDE)]

MeanPeer ==
    /\ child = "peers" /\ peer < Len(tree.peers) /\ tree.peers[peer + 1] = "acq_demux-lm"
    /\ live_means' = Means
    /\ peer' = peer + 1
    /\ UNCHANGED <<child, child_dm, nodes, raw_left, wf>>
    /\ InChild

PeersDone ==
    /\ child = "peers" /\ peer = Len(tree.peers)
    /\ child' = "dump"
    /\ UNCHANGED <<child_dm, peer, nodes, raw_left, peer_files>>
    /\ InChild

-----------------------------------------------------------------------------
\* dump(): mdsPutSegments() and write().

\* storeChannels() and storeTimebase() of a segment, node by node.  Active
\* channels are for the wrapper of segments, one_only for that of rows.
TreeColumns ==
    IF tree.timestamps
    THEN [c \in 1 .. (IF tree.one_only THEN 1 ELSE tree.nchan) |-> c]
    ELSE Append(active_channels, 0)

Pieces ==
    LET pieces == segments([child_dm EXCEPT !.cooked = getChannelData], 0)
    IN  FlattenSeq([s \in DOMAIN pieces |->
            [k \in DOMAIN TreeColumns |-> [node |-> TreeColumns[k], file |-> fileno, piece |-> pieces[s]]]])

\* Those with samples that are not there.
Wild == { i \in DOMAIN Pieces : tree.word_size # 2 /\ Pieces[i].node # 0 /\ Pieces[i].piece.len > 0 }

\* The first n of them.
PutPieces(n) == nodes' = [c \in DOMAIN nodes |->
                        nodes[c] \o SelectSeq(SubSeq(Pieces, 1, n), LAMBDA p : p.node = c)]

\* exit(status), from where there is nothing to be done any more.
Exits(status) ==
    /\ child' = "exited"
    /\ children' = Append(children, status)
    /\ UNCHANGED <<setup, tpc, clock, segment_events, fileno, child_dm, peer, peer_files>>

PutAll ==
    /\ child = "dump" /\ CanSegment(child_dm) /\ Wild = {}
    /\ PutPieces(Len(Pieces))
    /\ child' = "unlink"
    /\ UNCHANGED <<child_dm, peer, raw_left, peer_files>>
    /\ InChild

\* Samples taken from an empty channel: a segmentation fault.
PutCrashes ==
    /\ child = "dump" /\ CanSegment(child_dm) /\ Wild # {}
    /\ PutPieces(Min(Wild) - 1)
    /\ child' = "killed"
    /\ children' = Append(children, -1)
    /\ UNCHANGED <<setup, tpc, clock, segment_events, fileno, raw_left, child_dm, peer, peer_files>>

\* Mutant of PutGivenUp: what MDSplus throws is caught, and it goes on.
PutGivenUpGoesOn ==
    /\ child = "dump" /\ CanSegment(child_dm)
    /\ \E n \in 0 .. Min({Len(Pieces) + 1} \cup Wild) - 1 : PutPieces(n)
    /\ child' = "unlink"
    /\ UNCHANGED <<child_dm, peer, raw_left, peer_files>>
    /\ InChild

\* exit(1) without a signature at the first sample; when MDSplus throws,
\* exit(2) half way and exit(3) in write().
PutGivenUp ==
    /\ child = "dump"
    /\ IF CanSegment(child_dm)
       THEN \E n \in 0 .. Min({Len(Pieces) + 1} \cup Wild) - 1 :
                PutPieces(n) /\ Exits(IF n < Len(Pieces) THEN 2 ELSE 3)
       ELSE UNCHANGED nodes /\ Exits(1)
    /\ UNCHANGED raw_left

\* The raw file cannot be opened: exit(-1).
LoadFails ==
    /\ child = "load"
    /\ Exits(255)
    /\ UNCHANGED <<nodes, raw_left>>

RemoveRaw ==
    /\ child = "unlink"
    /\ raw_left' = raw_left \ {fileno}
    /\ Exits(0)
    /\ UNCHANGED nodes

\* It is killed, at any step, also within one.
ChildKilled ==
    /\ child \in {"load", "peers", "dump", "unlink"}
    /\ child' = "killed"
    /\ children' = Append(children, -1)
    /\ CASE child = "dump" /\ CanSegment(child_dm) -> (\E n \in 0 .. Min({Len(Pieces) + 1} \cup Wild) - 1 : PutPieces(n)) /\ UNCHANGED wf
         [] child = "peers" /\ peer < Len(tree.peers) /\ tree.peers[peer + 1] = "acq_demux_decim"
              /\ readyForUpdate -> (\E n \in 1 .. tree.nchan : wf' = WfWritten(n)) /\ UNCHANGED nodes
         [] OTHER -> UNCHANGED <<nodes, wf>>
    /\ UNCHANGED <<setup, tpc, clock, segment_events, fileno, raw_left, child_dm, peer, live_means>>

-----------------------------------------------------------------------------
\* The parent, when waitpid() returns.

\* Timer::timeFromStart(), of times in seconds and their parts.
timeFromStart ==
    LET sec == Second(clock) - Second(shot_time)
        usec == (clock % TICKS) - (shot_time % TICKS)
        carry == sec > 0 /\ usec < 0
    IN  (IF carry THEN sec - 1 ELSE sec) * TICKS + (IF carry THEN usec + TICKS ELSE usec)

\* onSegmentComplete().
onSegmentComplete ==
    IF tree.event # "none" /\ timeFromStart - last_time > eventMin
    THEN /\ mds_events' = Append(mds_events, [n |-> rawblock, t |-> clock])
         /\ last_time' = timeFromStart
    ELSE UNCHANGED <<mds_events, last_time>>

\* A child that was killed is not counted.  (The count of errors that ends
\* the program is in MdsController.)
WaitChild ==
    /\ child \in {"exited", "killed"}
    /\ IF child = "exited" THEN onSegmentComplete /\ rawblock' = rawblock + 1
                           ELSE UNCHANGED segment_events
    /\ child' = "none" /\ tpc' = "feed"
    /\ UNCHANGED <<setup, nodes, clock, fileno, raw_left, child_dm, peer, peer_files, children>>

TreeNext ==
    \/ ReadEnv \/ AddCal \/ CreateTree \/ Tick \/ ForkChild \/ WaitChild
    \/ LoadRaw \/ DecimatePeer \/ MeanPeer \/ PeersDone \/ PutAll \/ PutCrashes \/ PutGivenUp \/ LoadFails
    \/ RemoveRaw \/ ChildKilled

-----------------------------------------------------------------------------
TreeTypes ==
    /\ tpc \in {"off", "env", "cal", "tree", "feed", "wait", "over"}
    /\ child \in {"none", "load", "peers", "dump", "unlink", "exited", "killed"}
    /\ (child # "none") = (tpc = "wait")
    /\ rawblock \in 0 .. fileno /\ shot_time \in 0 .. clock /\ clock \in Nat
    /\ mds_events \in Seq([n : Nat, t : Nat])
    /\ children \in Seq({-1, 0, 1, 2, 3, 255}) /\ Len(children) \in {fileno - 1, fileno}

\* The volts of the largest raw values are those that were measured for the
\* channel, of a card with words of two bytes, for the channels in the file.
Calibrated ==
    tree.word_size = 2 /\ calibration # <<>> =>
        \A c \in DOMAIN calibration :
            LET g == calibration[c].gain
                o == calibration[c].offset
            IN  CASE tree.vin = NoVin -> -32768 * g[1] = -10 * g[2] /\ o[1] = 0
                  [] tree.vin # NoVin /\ 2 * c <= Len(tree.vin) ->
                        /\ g[2] = o[2]
                        /\ -32768 * g[1] + o[1] = tree.vin[2 * c - 1] * g[2]
                        /\ 32767 * g[1] + o[1] = tree.vin[2 * c] * g[2]
                  [] OTHER -> TRUE

\* What the tree should have of a file: its segments, each at the time of
\* its signature.
SegmentsOf(k) == LET d == processRaw(NoData, tree.files[k])
                 IN  IF CanSegment(d) THEN segments(d, 0) ELSE <<>>
\* Files whose child has ended with exit(status).
Done(status) == { k \in DOMAIN children : children[k] = status }

\* A raw file is removed only when every node that is asked for has all of
\* its segments, after those of the files before; also next to files whose
\* child was killed or has failed half way, which leave, of their own
\* segments, no column more than one behind another.  Other channels have none.
\* (From words of four bytes there are no samples to store, and a raw file with
\* a single signature is removed all the same.)  The nodes of the calibration
\* have what turns the samples in them into the volts that were measured.
NodesTrue ==
    LET asked == IF tree.timestamps THEN (IF tree.one_only THEN {1} ELSE 1 .. tree.nchan)
                 ELSE {0} \cup IF tree.range = <<>> THEN 1 .. tree.nchan ELSE tree.range[1] .. tree.range[2]
        Of(c, k) == SelectSeq(nodes[c], LAMBDA p : p.file = k)
    IN  tpc # "off" =>
        /\ raw_left = DOMAIN tree.files \ Done(0)
        /\ tree.word_size = 2 => \A c \in DOMAIN nodes :
            /\ \A i \in 1 .. Len(nodes[c]) - 1 : nodes[c][i].file <= nodes[c][i + 1].file
            /\ \A k \in 1 .. fileno :
                LET pieces == [i \in DOMAIN Of(c, k) |-> Of(c, k)[i].piece]
                IN  IF c \notin asked THEN pieces = <<>>
                    ELSE IsPrefix(pieces, SegmentsOf(k)) /\ (k \in Done(0) => pieces = SegmentsOf(k))
        /\ \A k \in 1 .. fileno : \A c \in asked : \A d \in asked :
                Len(Of(c, k)) - Len(Of(d, k)) \in -1 .. 1
        /\ Calibrated

RowsOf(c, k) == LET rows == SelectSeq(tree.files[k], LAMBDA row : ~ row.es)
                   IN  [i \in DOMAIN rows |-> [rows[i] EXCEPT !.ch = c]]

\* The files that peers write are of one raw file, the last that has come so
\* far (or has not been let), unless a child was killed among them.
PeerFilesTrue ==
    /\ Done(-1) = {} =>
        /\ \A c, d \in DOMAIN wf.files : wf.files[c].file = wf.files[d].file
        /\ wf # NoWf => DOMAIN wf.files = 1 .. tree.nchan
    /\ \A c \in DOMAIN wf.files : wf.files[c].samples = RowsOf(c, wf.files[c].file)
    /\ live_means = <<>> \/ \E k \in 1 .. fileno : \A c \in DOMAIN live_means :
            /\ ToSet(live_means[c]) \subseteq ToSet(RowsOf(c, k))
            /\ tree.word_size = 2 => live_means[c] # <<>>
=============================================================================
