----------------------------- MODULE QuadFiles -----------------------------
(***************************************************************************)
(* The directory that OfflineProcessController makes of an ACQ132's raw    *)
(* files: a file for each of 32 channels, and for each quad (a DQuad, of   *)
(* eight channels) its timebase, its event signatures, and for two clock   *)
(* rates the tables of their changes.  Programs run one after the other on *)
(* the same directory.  Acq132Data has the demultiplexer; here are the     *)
(* eight words of its rows, the names of the channels and the files.       *)
(***************************************************************************)
EXTENDS Integers, Sequences, SequencesExt

CONSTANTS
    FIFOSAM,        \* rows a quad is given at a time
    WORD,           \* unsigned arithmetic is modulo WORD
    QuadPrograms    \* sequences of programs, each a record:
                    \*   lfp: the card's definition says acq132-lfp
                    \*   clock: a sample clock is set
                    \*   rates: <<>>, or <<div0, div1>>
                    \*   common: MULTIPLE_TIMEBASE is 0
                    \*   overwrite, nsamples, pre, post: options
                    \*   msecs_start: what memory has there, nothing sets it
                    \*   files: sequences of rows

ACQ132_DEFSCAN == <<"D", "C", "B", "A">>
LOCAL D == INSTANCE Acq132Data WITH scanlist <- ACQ132_DEFSCAN

VARIABLES
    qprograms, qrun,    \* the programs, and which one runs
    qpc,                \* "off", "raw", "dump", "scan", "format", "over"
    qfiles,             \* files processed
    qdm,                \* Acq132DataModel
    qturn,              \* position in the scan list of the quad next dumped
    dump_timebase,      \* of DumpDef
    qdir,               \* names -> contents
    qended              \* history: how each program ended

quadfiles == <<qprograms, qrun, qpc, qfiles, qdm, qturn, dump_timebase, qdir, qended>>

QuadsInit(on) ==
    /\ qprograms \in IF on THEN QuadPrograms ELSE {<<>>}
    /\ qrun = 1
    /\ qpc = IF on THEN "raw" ELSE "off"
    /\ qfiles = 0 /\ qdm = D!Cleared /\ qturn = 1 /\ dump_timebase = TRUE
    /\ qdir = <<>>
    /\ qended = <<>>

args == qprograms[qrun]
q_scan == ACQ132_DEFSCAN[qturn]

QuadsEnd(how) ==
    /\ qended' = Append(qended, how)
    /\ IF qrun < Len(qprograms) THEN qrun' = qrun + 1 /\ qpc' = "raw" ELSE qpc' = "over" /\ UNCHANGED qrun
    /\ qfiles' = 0 /\ qdm' = D!Cleared /\ qturn' = 1 /\ dump_timebase' = TRUE
    /\ UNCHANGED qprograms

-----------------------------------------------------------------------------
\* The rows of memory: number n of quad q, what it is ("sample", "rgm", "dr",
\* which the program is not told), which of its words are 0xaa55, and those
\* words that tell of a change of rate.
RawRow(kind, q, n, magic, word2, word3) ==
    [kind |-> kind, q |-> q, n |-> n, magic |-> magic, word2 |-> word2, word3 |-> word3]

\* EventSignature::create(): RGM_EventSignature, with a count for a time;
\* DR_EventSignature, with the lateness and the phase in word 2 and the
\* divisors in word 3; or no signature.
create(row) ==
    IF 0 .. 3 \subseteq row.magic THEN D!Signature(row.q, row.n)
    ELSE IF {0, 1, 4, 5} \subseteq row.magic
    THEN [phase |-> row.word2 \div 256]
            @@ D!DRSignature(row.q, <<"none", "div1", "div0", "both">>[(row.word3 % 4) + 1],
                             (row.word2 % 256) \div 4)
    ELSE D!Sample(row.q, row.n)

getCount(sig) == IF "to" \in DOMAIN sig THEN 0 ELSE sig.n

\* getSampleCursor() without a divisor.
getSampleCursor(sig, cursor) ==
    IF "to" \in DOMAIN sig THEN D!SampleCursor(cursor, sig, 0) % WORD ELSE cursor

\* default_channelMaps and lfp_channelMaps: the channels of one side of a quad.
channelMaps(lfp, scan, lr) ==
    LET ix == CASE scan = "A" -> 0 [] scan = "B" -> 1 [] scan = "C" -> 2 [] scan = "D" -> 3
        side == IF lr = "R" THEN 16 ELSE 0
    IN  IF lfp THEN [i \in 1 .. 4 |-> 4 * ix + <<3, 4, 1, 2>>[i] + side]
               ELSE [i \in 1 .. 4 |-> 4 * (3 - ix) + i + side]

\* Quad::setChannels(): a mask of all ones takes each channel of the map.
unique_channels(lfp, scan) ==
    [lr \in {"L", "R"} |-> channelMaps(lfp, scan, lr)]

\* Mutant of consume: the words of one side after those of the other.
consumeSides(lr, i) == i - 1 + (IF lr = "R" THEN 4 ELSE 0)

\* DQuad::consume(): the words of a row go to the left and the right in turn.
consume(lr, i) == 2 * (i - 1) + (IF lr = "R" THEN 1 ELSE 0)

\* Channel: the words it has from samples.
Channel(samples, at) == [k \in DOMAIN samples |-> [q |-> samples[k].q, n |-> samples[k].n, at |-> at]]

\* Channel::dump(): the files of a quad's channels.
ChannelFiles(lfp, scan, samples) ==
    LET side == unique_channels(lfp, scan)
        Files(lr) ==
            [name \in { <<"CH", side[lr][i]>> : i \in 1 .. 4 } |->
                Channel(samples, consume(lr, CHOOSE i \in 1 .. 4 : side[lr][i] = name[2]))]
    IN  Files("L") @@ Files("R")

-----------------------------------------------------------------------------
\* File: contents added to those of the files of a directory, or put in
\* their place.
WriteFiles(dir, mode, contents) ==
    [name \in DOMAIN dir \cup DOMAIN contents |->
        IF name \notin DOMAIN contents THEN dir[name]
        ELSE IF mode = "a" /\ name \in DOMAIN dir THEN dir[name] \o contents[name]
        ELSE contents[name]]

\* Channel::dump_mode, that of the adapter.
dump_mode == IF args.overwrite THEN "w" ELSE "a"

\* linkTimebase(): the timebase of each channel is that of its quad; with a
\* common one only the first channel of either side has a link.  A link that
\* is there stays.
linkTimebase(dir, scan) ==
    LET last == IF args.common THEN 1 ELSE 4
        side == unique_channels(args.lfp, scan)
        linked == { side[lr][i] : lr \in {"L", "R"}, i \in 1 .. last }
    IN  dir @@ [name \in { <<"link", ch>> : ch \in linked } |-> scan]

\* getOffset().
Offset(change) == change.sig.lat + D!ColdOffset(change.div)

\* dumpES_num(): the file TBX, a number for each sample: in front six of the
\* signature, as far as there is room, then which one it is.
dumpES_num(changes) ==
    FlattenSeq([k \in DOMAIN changes |->
        LET c == changes[k]
            len == c.cursor - D!Since(changes, k)
        IN  SubSeq(<<Offset(c), Offset(c), c.sig.phase, c.sig.phase, 128, 0>> \o [i \in 1 .. len |-> k - 1], 1, len)])

\* dumpTimestamp(): the file ESvT, a line for each signature.
dumpTimestamp(changes) ==
    LET Elapsed(k) == FoldLeft(LAMBDA t, j : t + (changes[j].cursor - D!Since(changes, j)) * changes[j].div,
                               0, [j \in 1 .. k - 1 |-> j])
    IN  [k \in DOMAIN changes |->
            [sample |-> D!Since(changes, k), t |-> Elapsed(k), phase |-> changes[k].sig.phase,
             offset |-> Offset(changes[k]), div |-> changes[k].div]]

\* dumpES(), scanES().
dumpES(dq) == [i \in DOMAIN dq.sig |-> getCount(dq.sig[i])]
scanES(dq) == [i \in DOMAIN dq.sig |->
                [cursor |-> getSampleCursor(dq.sig[i], dq.es[i]), raw |-> dq.sig[i]]]

-----------------------------------------------------------------------------
QuadsRaw ==
    /\ qpc = "raw" /\ qfiles < Len(args.files)
    /\ LET raw == args.files[qfiles + 1]
           memory == [m \in Nat |-> IF m < Len(raw) THEN create(raw[m + 1]) ELSE D!Stray]
       IN  qdm' = D!process(memory, 0, Len(raw), qdm, args.nsamples, TRUE)
    /\ qfiles' = qfiles + 1
    /\ UNCHANGED <<qprograms, qrun, qpc, qturn, dump_timebase, qdir, qended>>

QuadsRead ==
    /\ qpc = "raw" /\ qfiles = Len(args.files)
    /\ qpc' = "dump"
    /\ UNCHANGED <<qprograms, qrun, qfiles, qdm, qturn, dump_timebase, qdir, qended>>

\* DumpDef::specifiesFullSet(), and the options that ask for no window.
FullSet == args.pre = 0 /\ args.post \in {0, 1}

NextQuad(then) ==
    IF qturn < D!NQuads THEN qturn' = qturn + 1 /\ UNCHANGED qpc ELSE qturn' = 1 /\ qpc' = then

\* DQuad::dump(root, 0).  When it is ended by an exception what stdio holds
\* of the files that are open is lost.
DumpQuad ==
    /\ qpc = "dump" /\ FullSet
    /\ LET dq == D!trimSamples(qdm, args.nsamples)[q_scan]
           dual == args.clock /\ args.rates # <<>>
           changes == D!Transitions(dq, args.rates[1], args.rates[2])
           signatures_dumped == WriteFiles(qdir, "a", <<"ES", q_scan>> :> dumpES(dq))
           Tables(tb, tbx, esvt) ==
                (<<"TB", q_scan>> :> tb) @@ (<<"TBX", q_scan>> :> tbx) @@ (<<"ESvT", q_scan>> :> esvt)
           Timed(tables) == linkTimebase(WriteFiles(signatures_dumped, "a", tables), q_scan)
           timebase_dumped ==
                IF ~ args.clock THEN signatures_dumped
                ELSE IF ~ dual
                THEN Timed(<<"TB", q_scan>> :> D!dumpTimebase(dq, 0))
                ELSE Timed(Tables(D!dumpTimebaseDR(dq, Len(qdm[q_scan].data), args.rates[1], args.rates[2]),
                                  dumpES_num(changes), dumpTimestamp(changes)))
       IN  IF dual /\ D!Throws(changes)
           THEN /\ qdir' = WriteFiles(signatures_dumped, "a", Tables(<<>>, <<>>, <<>>))
                /\ QuadsEnd("aborted")
           ELSE /\ qdir' = WriteFiles(timebase_dumped, dump_mode,
                                      ChannelFiles(args.lfp, q_scan, dq.data))
                /\ NextQuad("scan")
                /\ UNCHANGED <<qprograms, qrun, qfiles, qdm, dump_timebase, qended>>

ScanQuad ==
    /\ qpc = "scan"
    /\ qdir' = WriteFiles(qdir, "a", <<"ES-dump", q_scan>> :> scanES(qdm[q_scan]))
    /\ NextQuad("format")
    /\ UNCHANGED <<qprograms, qrun, qfiles, qdm, dump_timebase, qended>>

\* DQuad::dump(dd) with event_offset 0: from the signature in front of all
\* samples to post after it, which is taken for granted in the timebase.  A
\* quad without that signature has no files.  After the first, a common
\* timebase is done.
DumpQuadWindow ==
    /\ qpc = "dump" /\ ~ FullSet
    /\ LET dq == qdm[q_scan]
           channels_dumped == WriteFiles(qdir, dump_mode,
                    ChannelFiles(args.lfp, q_scan, D!Window(dq, 0, args.pre, args.post)))
           timebase_dumped == linkTimebase(WriteFiles(channels_dumped, dump_mode,
                    <<"TB", q_scan>> :> D!Pulse(args.msecs_start, args.post)), q_scan)
       IN  IF D!Has(dq, 0)
           THEN /\ qdir' = IF dump_timebase /\ args.clock THEN timebase_dumped ELSE channels_dumped
                /\ dump_timebase' = (dump_timebase /\ ~ args.common)
           ELSE UNCHANGED <<qdir, dump_timebase>>
    /\ NextQuad("format")
    /\ UNCHANGED <<qprograms, qrun, qfiles, qdm, qended>>

\* dumpFormat(): an ACQ132 names no reference.
DumpFormat ==
    /\ qpc = "format"
    /\ qdir' = (<<"format">> :> [ch |-> 1 .. 32, tb |-> IF args.common THEN {1} ELSE 1 .. 32]) @@ qdir
    /\ QuadsEnd("ok")

QuadsNext ==
    \/ QuadsRaw \/ QuadsRead \/ DumpQuad \/ ScanQuad \/ DumpQuadWindow \/ DumpFormat

-----------------------------------------------------------------------------
QuadFilesTypes ==
    /\ qpc \in {"off", "raw", "dump", "scan", "format", "over"}
    /\ qturn \in 1 .. D!NQuads /\ dump_timebase \in BOOLEAN
    /\ qpc # "off" => qrun \in DOMAIN qprograms
    /\ qended \in Seq({"ok", "aborted"})
    /\ \A name \in DOMAIN qdir : name[1] = "link" => qdir[name] \in D!Quads

\* The rows of a quad in the files of program r; what should come of them.
QuadRowsOf(r, q) == SelectSeq(FlattenSeq(qprograms[r].files), LAMBDA row : row.q = q)
SamplesOf(r, q) == SelectSeq(QuadRowsOf(r, q), LAMBDA row : row.kind = "sample")
SignaturesOf(r, q) ==
    LET rows == QuadRowsOf(r, q)
        kept == SelectSeq([i \in DOMAIN rows |-> i], LAMBDA i :
                    rows[i].kind # "sample" /\ (i = 1 \/ rows[i - 1].kind = "sample"))
    IN  [k \in DOMAIN kept |-> rows[kept[k]]]
ShouldKeep(r, q) ==
    LET p == qprograms[r]
        full == p.pre = 0 /\ p.post \in {0, 1}
        lens == { Len(SamplesOf(r, x)) : x \in D!Quads }
    IN  SubSeq(SamplesOf(r, q), 1, IF full THEN Min(lens \cup {p.nsamples})
                                           ELSE Min({p.post, Len(SamplesOf(r, q))}))

\* Of programs that all end well, on a card of one kind:
\*  - each channel file has one word of each sample of one quad, those of all
\*    programs since the last that overwrites; no two channels have the same
\*    word, and a channel and the one 16 above it are neighbours;
\*  - a timebase that the format file lists leads to that of the channel's
\*    quad (an acq132-lfp with a common timebase has none of the name that
\*    is listed), and without signatures between has a time for each sample
\*    while no program overwrites;
\*  - each quad has a count, and a dump with the samples in front of it, of
\*    every signature, of all programs;
\*  - the tables beside a timebase of two rates tell of the same times and
\*    samples as it does.
QuadFilesTrue ==
    LET runs == DOMAIN qprograms
        last == qprograms[Len(qprograms)]
        overwriting == { r \in runs : qprograms[r].overwrite }
        from == Max({1} \cup overwriting)
        since == from .. Len(qprograms)
        Expected(q) == FlattenSeq([k \in 1 .. Len(qprograms) - from + 1 |-> ShouldKeep(from + k - 1, q)])
        CH(ch) == qdir[<<"CH", ch>>]
        QuadOf(ch) == CH(ch)[1].q
        Full(r) == qprograms[r].pre = 0 /\ qprograms[r].post \in {0, 1}
        full == { r \in runs : Full(r) }
        dumped == SetToSortSeq(full, LAMBDA a, b : a < b)
        AllSignatures(q) == FlattenSeq([k \in DOMAIN dumped |-> SignaturesOf(dumped[k], q)])
        sure == \A r \in runs : \A q \in D!Quads :
                    /\ SamplesOf(r, q) # <<>>
                    /\ Full(r) \/ QuadRowsOf(r, q)[1].kind # "sample"
    IN  qpc = "over" /\ sure /\ (\A r \in runs : qended[r] = "ok" /\ qprograms[r].nsamples >= FIFOSAM)
            /\ (\A r \in runs : qprograms[r].lfp = last.lfp) =>
        /\ \A ch \in 1 .. 32 :
            /\ CH(ch) = [i \in DOMAIN Expected(QuadOf(ch)) |->
                            [q |-> QuadOf(ch), n |-> Expected(QuadOf(ch))[i].n, at |-> CH(ch)[1].at]]
            /\ ch <= 16 => /\ CH(ch)[1].at % 2 = 0
                           /\ CH(ch + 16)[1] = [CH(ch)[1] EXCEPT !.at = @ + 1]
        /\ Cardinality({ CH(ch)[1] : ch \in 1 .. 32 }) = 32
        /\ last.clock /\ ~ (last.lfp /\ last.common) =>
            \A n \in qdir[<<"format">>].tb :
                /\ <<"link", n>> \in DOMAIN qdir /\ qdir[<<"link", n>>] = QuadOf(n)
                /\ <<"TB", QuadOf(n)>> \in DOMAIN qdir
        /\ \A q \in D!Quads :
            /\ full # {} =>
                /\ qdir[<<"ES", q>>] = [i \in DOMAIN AllSignatures(q) |->
                        IF AllSignatures(q)[i].kind = "rgm" THEN AllSignatures(q)[i].n ELSE 0]
                /\ Len(qdir[<<"ES-dump", q>>]) = Len(AllSignatures(q))
            /\ last.clock /\ last.rates # <<>> /\ Len(qprograms) = 1 /\ Full(1) =>
                LET lines == qdir[<<"ESvT", q>>]
                    tb == qdir[<<"TB", q>>]
                    tbx == qdir[<<"TBX", q>>]
                IN  \A k \in DOMAIN lines :
                    /\ lines[k].sample < Len(tb) => tb[lines[k].sample + 1] = lines[k].t
                    /\ \A i \in DOMAIN tbx :
                        i > lines[k].sample + 6 /\ (k < Len(lines) => i <= lines[k + 1].sample)
                            => tbx[i] = k - 1
=============================================================================
