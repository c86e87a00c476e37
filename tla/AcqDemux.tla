------------------------------ MODULE AcqDemux ------------------------------
(***************************************************************************)
(* acq_demux (acq_demux.cpp): programs that are run one after the other on *)
(* the raw files of a shot, of the same name each time; each reads its     *)
(* options, makes a data model for the type of card, the controller of its *)
(* name and its peers, and, as "acq_demux", sorts the files into the       *)
(* channels of a directory.  Words are those of CardTypes.                 *)
(***************************************************************************)
EXTENDS LinearData

CONSTANTS
    Demuxes         \* sequences of programs, each a record:
                    \*   pname, peers: its name, and those of its peers
                    \*   infile, logfile: "none", "missing", "ok"
                    \*   dual_rate: "none", "bad", "ok"
                    \*   overwrite: -1 when not given, 0, 1
                    \*   cooking, cleanup, ignore_es, start_time_set
                    \*   fake: ACQ_DEMUX_ES_FAKE_IT
                    \*   multiple_timebase
                    \*   card, text: of the raw files, and the definition
                    \*   nfiles
                    \*   killed: it may be killed

LOCAL T == INSTANCE CardTypes

VARIABLES
    demuxes, run,   \* the programs, and which one runs
    dpc,            \* "off", "start", "model", "peers", "files", "dir", "dump",
                    \* "remove", "rename", "over"
    file_write_mode,
    common_timebase,
    files,          \* files processed
    cooked,         \* channel -> words
    signatures,
    cooking, cooked_dir,
                    \* the directories .COOKING and .COOKED: names -> contents,
                    \* or NoDir
    acq_timestamp,  \* FakeTimestamp's, in shared memory
    ended           \* history: how each program ended

demux == <<demuxes, run, dpc, file_write_mode, common_timebase, files, cooked, signatures,
           cooking, cooked_dir, acq_timestamp, ended>>

NoDir == <<"absent">> :> <<>>
START_TIME == 1000

DemuxInit(on) ==
    /\ demuxes \in IF on THEN Demuxes ELSE {<<>>}
    /\ run = 1
    /\ dpc = IF on THEN "start" ELSE "off"
    /\ file_write_mode = "a" /\ common_timebase = FALSE
    /\ files = 0 /\ cooked = <<>> /\ signatures = <<>>
    /\ cooking = NoDir /\ cooked_dir = NoDir
    /\ acq_timestamp = 0
    /\ ended = <<>>

opts == demuxes[run]
type == T!getAcqType(opts.text)

\* The program ends, and the next one starts from nothing.
Ends(how) ==
    /\ ended' = Append(ended, how)
    /\ IF run < Len(demuxes) THEN run' = run + 1 /\ dpc' = "start" ELSE dpc' = "over" /\ UNCHANGED run
    /\ file_write_mode' = "a" /\ common_timebase' = FALSE
    /\ files' = 0 /\ cooked' = <<>> /\ signatures' = <<>>
    /\ UNCHANGED demuxes

-----------------------------------------------------------------------------
\* processOpts(): files that cannot be opened, and rates that do not scan.
BadOptions == "missing" \in {opts.infile, opts.logfile} \/ opts.dual_rate = "bad"

processOpts ==
    /\ dpc = "start"
    /\ IF BadOptions
       THEN Ends("options") /\ UNCHANGED <<cooking, cooked_dir, acq_timestamp>>
       ELSE /\ file_write_mode' = IF opts.overwrite = 1 THEN "w" ELSE "a"
            /\ common_timebase' = (opts.multiple_timebase = 0)
            /\ dpc' = "model"
            /\ UNCHANGED <<demuxes, run, files, cooked, signatures, cooking, cooked_dir, acq_timestamp, ended>>

\* An ACQ196 or an ACQ400 has one timebase, whatever MULTIPLE_TIMEBASE says.
\* With a type that is not usable the program ends, or does what is not
\* modelled.  The start time given is that of the first sample.
CreateModel ==
    /\ dpc = "model"
    /\ IF ~ T!Usable(type)
       THEN Ends("type") /\ UNCHANGED <<cooking, cooked_dir, acq_timestamp>>
       ELSE /\ common_timebase' = (common_timebase \/ type.kind \in {"acq196", "acq400"})
            /\ cooked' = [ch \in 1 .. type.nchan |-> <<>>]
            /\ signatures' = IF opts.start_time_set THEN << [cursor |-> 0, t |-> START_TIME] >> ELSE <<>>
            /\ dpc' = "peers"
            /\ UNCHANGED <<demuxes, run, file_write_mode, files, cooking, cooked_dir, acq_timestamp, ended>>

\* The names that controllers register themselves with.
creators == { "acq_demux", "acq_demux-lm", "acq_demux-ll", "acq_demux-lpp", "acq_demux_incoming",
              "acq_demux_decim", "acq_demux_continuous", "acq_demux-mds", "acq_demux-mds-continuous" }

\* create() of the controller and of its peers: looking a name up has made an
\* entry without a creator for it, which is then found and called.  A
\* DecimateProcessController sets the mode of all files.
CreateControllers ==
    /\ dpc = "peers"
    /\ IF ~ ({opts.pname} \cup opts.peers \subseteq creators)
       THEN Ends("name") /\ UNCHANGED <<cooking, cooked_dir, acq_timestamp>>
       ELSE /\ file_write_mode' = IF "acq_demux_decim" \in opts.peers THEN "w" ELSE file_write_mode
            /\ dpc' = "files"
            /\ UNCHANGED <<demuxes, run, common_timebase, files, cooked, signatures, cooking,
                           cooked_dir, acq_timestamp, ended>>

-----------------------------------------------------------------------------
\* The k-th raw file of a program: rows of words, the first and the third of
\* them signatures.
Raw(r, k) ==
    LET words_of == demuxes[r].card
    IN  FlattenSeq([i \in 1 .. 4 |->
            FlattenSeq([c \in 1 .. words_of.nchan |->
                [half \in 1 .. words_of.word_size \div 2 |->
                    T!Short(i \in {1, 3}, 100 * r + 10 * k + i, c - 1, half)]])])

\* OfflineProcessController::run().
ProcessRaw ==
    /\ dpc = "files" /\ files < opts.nfiles
    /\ LET raw == Raw(run, files + 1)
           words_of == T!processWords(type, opts.ignore_es, raw)
           es == IF opts.ignore_es THEN <<>> ELSE T!Signatures(type, raw, acq_timestamp, opts.fake)
       IN  /\ cooked' = [ch \in DOMAIN cooked |-> cooked[ch] \o words_of[ch]]
           /\ signatures' = signatures \o es
           /\ acq_timestamp' = acq_timestamp + Len(es) * opts.fake
    /\ files' = files + 1
    /\ UNCHANGED <<demuxes, run, dpc, file_write_mode, common_timebase, cooking, cooked_dir, ended>>

ProcessedAll ==
    /\ dpc = "files" /\ files = opts.nfiles
    /\ dpc' = "dir"
    /\ UNCHANGED <<demuxes, run, file_write_mode, common_timebase, files, cooked, signatures,
                   cooking, cooked_dir, acq_timestamp, ended>>

\* Mutant of Opened: what is there is never removed.
OpenedUncleaned(dir) == IF dir = NoDir THEN <<>> ELSE dir

\* WorkingDir: made, or used as it is, or emptied.
Opened(dir) == IF dir = NoDir \/ opts.cleanup THEN <<>> ELSE dir
OpenDir ==
    /\ dpc = "dir"
    /\ IF opts.cooking
       THEN cooking' = Opened(cooking) /\ UNCHANGED cooked_dir
       ELSE cooked_dir' = Opened(cooked_dir) /\ UNCHANGED cooking
    /\ dpc' = "dump"
    /\ UNCHANGED <<demuxes, run, file_write_mode, common_timebase, files, cooked, signatures,
                   acq_timestamp, ended>>

\* File: contents added to, or in place of, those of the files of a directory.
Written(dir, names, contents) ==
    [name \in DOMAIN dir \cup names |->
        IF name \notin names THEN dir[name]
        ELSE IF file_write_mode = "a" /\ name \in DOMAIN dir THEN dir[name] \o contents[name]
        ELSE contents[name]]

\* dump() of the first n channels, one after the other.
DumpChannels(dir, n) ==
    LET names == { <<"CH", ch>> : ch \in 1 .. n }
    IN  Written(dir, names, [name \in names |-> cooked[name[2]]])

\* dumpTimebase(): there are signatures, the first of them at sample 0.
timebase_on_disk == signatures # <<>> /\ signatures[1].cursor = 0
DumpTimebase(dir) ==
    IF timebase_on_disk
    THEN Written(dir, {<<"TB", 1>>}, <<"TB", 1>> :> dumpTimebase([cooked |-> cooked[1], es |-> signatures]))
    ELSE dir

\* dumpFormat(): the names it lists, always anew.  Its timebases are listed
\* whether there are any or not, and so is a reference to the first.
dumpFormat(dir) ==
    LET timebases == IF common_timebase THEN {1} ELSE 1 .. type.nchan
        chans == 1 .. type.nchan
    IN  (<<"format">> :> [raw |-> ({"CH"} \X chans) \cup ({"TB"} \X timebases), lincom |-> chans,
                          reference |-> timebase_on_disk]) @@ dir

DumpDir(new) ==
    IF opts.cooking THEN cooking' = new /\ UNCHANGED cooked_dir
                    ELSE cooked_dir' = new /\ UNCHANGED cooking
WorkDir == IF opts.cooking THEN cooking ELSE cooked_dir

\* OfflineProcessController::dump().
DumpAll ==
    /\ dpc = "dump"
    /\ DumpDir(dumpFormat(DumpTimebase(DumpChannels(WorkDir, type.nchan))))
    /\ IF opts.cooking
       THEN dpc' = "remove" /\ UNCHANGED <<demuxes, run, file_write_mode, common_timebase, files,
                                            cooked, signatures, ended>>
       ELSE Ends("ok")
    /\ UNCHANGED acq_timestamp

\* ~WorkingDir(): rm -Rf, then rename().
RemoveCooked ==
    /\ dpc = "remove"
    /\ cooked_dir' = NoDir
    /\ dpc' = "rename"
    /\ UNCHANGED <<demuxes, run, file_write_mode, common_timebase, files, cooked, signatures,
                   cooking, acq_timestamp, ended>>

RenameCooking ==
    /\ dpc = "rename"
    /\ cooked_dir' = cooking /\ cooking' = NoDir
    /\ Ends("ok")
    /\ UNCHANGED acq_timestamp

\* It is killed, perhaps with some channels written.
Killed ==
    /\ dpc \notin {"off", "over"} /\ opts.killed
    /\ IF dpc = "dump"
       THEN \E n \in 0 .. type.nchan : DumpDir(DumpChannels(WorkDir, n))
       ELSE UNCHANGED <<cooking, cooked_dir>>
    /\ Ends("killed")
    /\ UNCHANGED acq_timestamp

DemuxNext ==
    \/ processOpts \/ CreateModel \/ CreateControllers \/ ProcessRaw \/ ProcessedAll
    \/ OpenDir \/ DumpAll \/ RemoveCooked \/ RenameCooking \/ Killed

-----------------------------------------------------------------------------
DemuxTypes ==
    /\ dpc \in {"off", "start", "model", "peers", "files", "dir", "dump", "remove", "rename", "over"}
    /\ file_write_mode \in {"a", "w"} /\ common_timebase \in BOOLEAN
    /\ signatures \in Seq([cursor : Nat, t : Nat]) /\ acq_timestamp \in Nat
    /\ dpc # "off" => run \in DOMAIN demuxes
    /\ ended \in Seq({"options", "type", "name", "killed", "ok"})

\* The words of channel ch in the raw files of a program: the rows that are no
\* signatures, each its word for the channel.
RawRows(r) == FlattenSeq([k \in 1 .. demuxes[r].nfiles |-> T!RowsOf(demuxes[r].card, Raw(r, k))])

\* When its definition is that of the card, of at most three blocks of 32
\* channels, a program that ends well leaves, in .COOKED, in each channel a
\* word of every row of samples of its files, in order, at the same place of
\* each row and in the block of the channel, whole, no place in two channels;
\* whatever programs before it have left, killed at any step, when it cleans
\* up, overwrites, or has found nothing in its working directory.  While all
\* use .COOKING, nothing else is ever seen in .COOKED.  What the format file
\* refers to is there.
CookedTrue ==
    LET oks == { r \in DOMAIN ended : ended[r] = "ok" }
        r == Max(oks)
        d == demuxes[r]
        c == d.card
        Fresh == d.cleanup \/ d.overwrite = 1 \/ "acq_demux_decim" \in d.peers
                 \/ \A q \in 1 .. r - 1 :
                        IF d.cooking THEN demuxes[q].cooking => ended[q] # "killed"
                                     ELSE ended[q] \notin {"killed", "ok"}
        Since == \A q \in r + 1 .. run : demuxes[q].cooking
        samples == SelectSeq(RawRows(r), LAMBDA row : d.ignore_es \/ ~ row[1].es \/ c.kind \notin {"acq196", "acq164"})
        Place(ch) == cooked_dir[<<"CH", ch>>][1][1].at
    IN  /\ oks # {} /\ T!getAcqType(d.text) = c /\ c.nchan <= 96 /\ Fresh /\ Since /\ cooked_dir # NoDir =>
            /\ \A ch \in 1 .. c.nchan :
                /\ cooked_dir[<<"CH", ch>>] =
                    [i \in DOMAIN samples |-> [half \in 1 .. c.word_size \div 2 |->
                        [samples[i][1] EXCEPT !.at = Place(ch), !.half = half]]]
                /\ Place(ch) \div 32 = (ch - 1) \div 32
            /\ Cardinality({ Place(ch) : ch \in 1 .. c.nchan }) = c.nchan
            /\ \A name \in {<<"CH", ch>> : ch \in 1 .. c.nchan} : name \in cooked_dir[<<"format">>].raw
            /\ cooked_dir[<<"format">>].reference => <<"TB", 1>> \in DOMAIN cooked_dir
        \* A publication that is not in progress is not lost.
        /\ (oks # {} /\ \A q \in 1 .. Len(ended) : demuxes[q].cooking /\ ended[q] # "killed") /\ dpc # "rename" =>
            cooked_dir # NoDir
=============================================================================
