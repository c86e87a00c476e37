---------------------------- MODULE MCDataStore ----------------------------
(***************************************************************************)
(* DataStore for TLC: a card with two channels, and an ACQ132 of two quads *)
(* that are given two rows at a time.                                      *)
(***************************************************************************)
EXTENDS DataStore

\* The rows of a burst: a signature of time t, and len samples numbered from n.
Burst(t, n, len) ==
    <<Signature(t)>> \o [i \in 1 .. len |-> Sample(n + i - 1, t + i - 1, 1)]

\* Three bursts, with pauses between them.
Bursts == { Burst(10, 0, a) \o Burst(20, a, b) \o Burst(40, a + b, c) :
                a \in 1 .. 4, b \in 1 .. 3, c \in 0 .. 3 }
\* A file cut in two, anywhere; one without a signature in front; and one
\* without any.
Inputs ==
    { <<f>> : f \in Bursts \cup { Burst(10, 0, a) : a \in 1 .. 5 } }
    \cup { LET f == Burst(10, 0, 4) \o Burst(20, 4, 3)
           IN  <<SubSeq(f, 1, k), SubSeq(f, k + 1, Len(f))>> : k \in 1 .. 8 }
    \cup { <<Tail(Burst(10, 0, 3)) \o Burst(20, 3, 2)>>, <<Tail(Burst(10, 0, 3))>> }

\* Pulses of two minutes, of two seconds each.
Pulses == { [k \in 1 .. 7 |-> Burst(10 * k, 10 * k, (k % 3) + 1)] }

Scan == <<"D", "C">>

\* The memory of an ACQ132, from the rows of a quad: FIFOSAM for each in turn.
Scanned(rows) ==
    [m \in 1 .. Len(rows) * B!NQuads |->
        LET q == scanlist[(((m - 1) \div FIFOSAM) % B!NQuads) + 1]
            i == ((m - 1) \div (FIFOSAM * B!NQuads)) * FIFOSAM + ((m - 1) % FIFOSAM) + 1
        IN  [rows[i] EXCEPT !.q = q]]
QuadBurst(t, len) == <<B!Signature("D", t)>> \o [i \in 1 .. len |-> B!Sample("D", t + i - 1)]

\* Bursts with pauses, of which the last is as long as whole scans take.
QuadRuns ==
    { QuadBurst(10, a) \o QuadBurst(20, b) \o QuadBurst(40, 9 - a - b) :
        a \in 1 .. 4, b \in 0 .. 4 }
    \cup { Tail(QuadBurst(0, 12)), Tail(QuadBurst(10, 4)) \o QuadBurst(30, 7) }
\* A file; two, cut between scans; three, cut anywhere, and one that ends
\* anywhere, also within its first scan.
Cuts(f, i, j) == <<SubSeq(f, 1, i), SubSeq(f, i + 1, j), SubSeq(f, j + 1, Len(f))>>
QuadInputs ==
    { <<Scanned(r)>> : r \in QuadRuns }
    \cup { LET f == Scanned(r) IN <<SubSeq(f, 1, 4 * k), SubSeq(f, 4 * k + 1, 24)>> :
            r \in QuadRuns, k \in 1 .. 5 }
    \cup { Cuts(Scanned(QuadBurst(10, 5) \o QuadBurst(30, 5)), i, j) : i \in 4 .. 10, j \in {14, 16, 20} }
    \cup { <<SubSeq(Scanned(QuadBurst(10, 3) \o QuadBurst(20, 7)), 1, k)>> : k \in {2} \cup 4 .. 24 }

\* The clock changes up to twice, at a place the card tells of lat samples
\* later, among signatures of other kinds, also behind the last change.
Change(to, lat) == <<B!DRSignature("D", to, lat)>>
Some(n, len) == [i \in 1 .. len |-> B!Sample("D", n + i - 1)]
DualRuns ==
    { Some(0, a) \o Change(x[1], l) \o Some(a, b) \o Change(x[2], k) \o Some(a + b, 10 - a - b) :
        a \in 2 .. 5, b \in 2 .. 4, l \in 0 .. 2, k \in 0 .. 1,
        x \in { <<"div0", "div1">>, <<"div1", "div0">>, <<"both", "div1">>, <<"none", "div0">>,
               <<"div1", "none">>, <<"div0", "none">>, <<"div1", "both">>, <<"none", "both">> } }
    \cup { <<B!Signature("D", 9)>> \o Some(0, 6) \o Change("div1", 1) \o Some(6, 4), Some(0, 12) }
Duals ==
    { <<Scanned(r)>> : r \in DualRuns }
    \cup { LET f == Scanned(r) IN <<SubSeq(f, 1, 4 * k), SubSeq(f, 4 * k + 1, 24)>> :
            r \in DualRuns, k \in {1, 3} }
DualRates == {<<3, 2>>, <<4, 5>>, <<2, 3>>}

Limits == {1, 3, 6, B!Unlimited}

-----------------------------------------------------------------------------
\* Cards with definitions that are whole, lack a line or the newline of the
\* last, say a number of channels twice, or tell of another kind of MAC.
C == INSTANCE CardTypes
Cards ==
    { C!AcqType("acq196", n, 2) : n \in {32, 64, 96} }
    \cup { C!AcqType("acq164", n, 4) : n \in {32, 64} }
    \cup { C!AcqType("mac", n, 2) : n \in {64, 96, 192} } \cup {C!AcqType("acq400", 4, 2)}
Name(card_type) ==
    CASE card_type.kind = "mac" -> "acq196m" [] card_type.kind = "acq400" -> "acq420" [] OTHER -> card_type.kind
RefMask(nchan) == CASE nchan = 64 -> <<1, 4>> [] nchan = 96 -> <<2, 5>> [] OTHER -> <<7, 7>>
Lines(card_type) ==
    << <<"ACQ", Name(card_type)>>, <<"WORD_SIZE", card_type.word_size>>, <<"AICHAN", card_type.nchan>> >>
    \o (IF card_type.kind = "mac" THEN << <<"HAS_MAC", 1>>, <<"REF_MASK", RefMask(card_type.nchan)>> >> ELSE <<>>)
CardDefinitions ==
    UNION { { [card |-> c, text |-> [lines |-> lines, newline |-> newline]] :
                newline \in BOOLEAN,
                lines \in { Lines(c), Lines(c) \o << <<"AICHAN", 0>> >>, Lines(c) \o << <<"HAS_MAC", 2>> >> }
                            \cup { RemoveAt(Lines(c), i) : i \in 1 .. Len(Lines(c)) } } : c \in Cards }

Program(d) ==
    [pname |-> "acq_demux", peers |-> {}, infile |-> "none", logfile |-> "none", dual_rate |-> "none",
     overwrite |-> -1, cooking |-> TRUE, cleanup |-> FALSE, ignore_es |-> FALSE, start_time_set |-> FALSE,
     fake |-> 0, multiple_timebase |-> -1, nfiles |-> 1, killed |-> FALSE, card |-> d.card, text |-> d.text]
Whole(c) == Program([card |-> c, text |-> [lines |-> Lines(c), newline |-> TRUE]])
P400 == Whole(C!AcqType("acq400", 4, 2))
P196 == Whole(C!AcqType("acq196", 32, 2))
P164 == Whole(C!AcqType("acq164", 32, 4))
Later == { [P400 EXCEPT !.overwrite = o, !.cooking = c, !.cleanup = u, !.peers = x] :
             o \in {-1, 0, 1}, c \in BOOLEAN, u \in BOOLEAN, x \in {{}, {"acq_demux_decim"}} }
\* A program for every definition; one that may be killed, then two with other
\* policies; time stamps, signatures and peers; options that are wrong.
DemuxRuns ==
    { <<Program(d)>> : d \in CardDefinitions }
    \cup { << [P400 EXCEPT !.cooking = k, !.killed = TRUE], l, [P400 EXCEPT !.overwrite = o] >> :
            k \in BOOLEAN, l \in Later, o \in {0, 1} }
    \cup { << [p EXCEPT !.fake = 5, !.nfiles = 2, !.ignore_es = i, !.start_time_set = s,
                        !.multiple_timebase = 1],
              [p EXCEPT !.peers = {x}] >> :
            p \in {P400, P196, P164}, i \in BOOLEAN, s \in BOOLEAN,
            x \in {"acq_demux_decim", "acq_demux-lm", "acq_demux-mm"} }
    \cup { << [P400 EXCEPT !.infile = x, !.logfile = y, !.dual_rate = z], P400 >> :
            x \in {"none", "missing", "ok"}, y \in {"missing", "ok"}, z \in {"bad", "ok"} }

-----------------------------------------------------------------------------
\* The memory of four quads, from the rows of one.
Laid(rows) ==
    [m \in 1 .. Len(rows) * 4 |->
        LET q == ACQ132_DEFSCAN[(((m - 1) \div FIFOSAM) % 4) + 1]
            i == ((m - 1) \div (FIFOSAM * 4)) * FIFOSAM + ((m - 1) % FIFOSAM) + 1
        IN  [rows[i] EXCEPT !.q = q]]
\* Samples of which some words look like those of a signature, and signatures.
Plain(n, len, magic) == [i \in 1 .. len |-> RawRow("sample", "D", n + i - 1, magic, 0, 0)]
Rgm(n) == <<RawRow("rgm", "D", n, 0 .. 3, 0, 0)>>
DualSig(lat, phase, to) == <<RawRow("dr", "D", 0, {0, 1, 4, 5}, 256 * phase + 4 * lat, to)>>
Shots ==
    { <<Laid(Rgm(10) \o Plain(10, 3, {0, 1, 2}) \o Rgm(20) \o Plain(20, 3, {1, 4, 5}))>>,
      <<SubSeq(Laid(Rgm(10) \o Plain(10, 7, {})), 1, 21)>>,
      <<Laid(Rgm(10) \o Plain(10, 3, {})), Laid(Rgm(10) \o Rgm(11) \o Plain(10, 2, {}))>>,
      <<Laid(Plain(10, 4, {}))>> }
\* Two changes of rate, in files of three scans.
InFiles(rows) ==
    [i \in 1 .. (Len(rows) + 23) \div 24 |->
        SubSeq(rows, 24 * (i - 1) + 1, IF 24 * i < Len(rows) THEN 24 * i ELSE Len(rows))]
DualShots ==
    { InFiles(Laid(Plain(0, a, {}) \o DualSig(1, 3, x) \o Plain(a, 8, {}) \o DualSig(1, 2, 3 - x)
                    \o Rgm(9) \o Plain(a + 8, 3 + (a % 2), {}))) : a \in {1, 4, 9}, x \in 0 .. 3 }
Shot(f) ==
    [lfp |-> FALSE, clock |-> TRUE, rates |-> <<>>, common |-> FALSE, overwrite |-> FALSE,
     nsamples |-> B!Unlimited, pre |-> 0, post |-> 0, msecs_start |-> 0, files |-> f]
\* Each with both kinds of card and timebase, without a clock, and limited;
\* windows; two programs; and two rates.
ShotRuns ==
    { <<[Shot(f) EXCEPT !.lfp = x, !.common = y]>> : f \in Shots, x \in BOOLEAN, y \in BOOLEAN }
    \cup { <<[Shot(f) EXCEPT !.clock = c, !.nsamples = n]>> : f \in Shots, c \in BOOLEAN, n \in {1, 3} }
    \cup { <<[Shot(f) EXCEPT !.common = y, !.pre = 1, !.post = n, !.msecs_start = 3]>> :
            f \in Shots, y \in BOOLEAN, n \in {2, 9} }
    \cup { <<Shot(f), [Shot(f) EXCEPT !.overwrite = o, !.post = n]>> : f \in Shots, o \in BOOLEAN, n \in {1, 3} }
    \cup { <<[Shot(f) EXCEPT !.rates = r]>> : f \in DualShots, r \in {<<3, 2>>, <<4, 6>>} }

-----------------------------------------------------------------------------
\* acq_demux-mds: each environment with two raw files, of one and of several
\* segments; peers, of which one may be let once a second; and files that
\* begin without a signature.
TreeFiles == << Burst(10, 0, 2) \o Burst(20, 2, 3), Burst(40, 5, 3) >>
MdsRun(nchan, peers, raw, ticks) ==
    [nchan |-> nchan, word_size |-> 2, timestamps |-> FALSE, one_only |-> FALSE, range |-> <<>>,
     event |-> "none", vin |-> NoVin, peers |-> peers, files |-> raw,
     ticks |-> ticks]
Decim == "acq_demux_decim"
TreeRuns ==
    { [MdsRun(3, <<>>, TreeFiles, 0) EXCEPT !.timestamps = t, !.one_only = o, !.range = r] :
        t \in BOOLEAN, o \in BOOLEAN, r \in {<<>>, <<2, 3>>, <<1, 1>>} }
    \cup { [MdsRun(1, <<>>, <<Tail(Burst(10, 0, 2)), Burst(20, 2, 1), Burst(40, 3, 2)>>, 6) EXCEPT !.event = e] :
            e \in {"name", "interval"} }
    \cup { [MdsRun(2, <<>>, << Burst(10, 0, 2) >>, 0) EXCEPT !.vin = v, !.word_size = w] :
            v \in {NoVin, <<-24, 25>>, <<-24, 25, -2500, 2493>>, <<-10, 10, -5>>, <<-1, 3, 5, -7, 8>>}, w \in {2, 4} }
    \cup { [MdsRun(2, p, TreeFiles, 3) EXCEPT !.range = <<2, 2>>] : p \in {<<Decim>>, <<"acq_demux-lm", Decim>>} }
    \cup { [MdsRun(2, <<Decim, "acq_demux-lm">>, TreeFiles, 0) EXCEPT !.word_size = 4] }

-----------------------------------------------------------------------------
\* Reads of one or two channels, into a file for each, one for both, or none.
Calls == { [first |-> 1, last |-> l, length |-> n, start |-> s, stride |-> k, outfile |-> f, volts |-> v] :
                l \in {2}, n \in {0, 1, 5, 9, 12}, s \in {0, 3, 9}, k \in {1, 3},
                f \in {"file.%02d", "file", "-"}, v \in BOOLEAN }

\* Cards with fewer channels than nullAcqType, with other words, with the same
\* rows, and with two lock-in blocks.
Option(t, f, m, o, d, lines, e, r) ==
    [show_tags |-> t, time_frames |-> f, show_mean |-> m, outbase |-> o, device |-> d,
     text |-> [lines |-> lines, newline |-> TRUE], enable |-> e, row |-> r]
Lockin == << <<"ACQ", "acq196m">>, <<"HAS_MAC", 2>> >>
A164 == Lines(C!AcqType("acq164", 32, 4))
A196 == Lines(C!AcqType("acq196", 96, 2))
StreamOptions ==
    { Option(2, TRUE, FALSE, TRUE, "host", Lines(C!AcqType("acq400", 4, 2)), 0, 8),
      Option(0, TRUE, TRUE, FALSE, "host", A164, 0, 128), Option(0, FALSE, FALSE, TRUE, "host", A196, 0, 192),
      Option(0, FALSE, TRUE, FALSE, "host", Lockin, 10, 128), Option(1, TRUE, FALSE, FALSE, "7", A196, 0, 192),
      Option(0, FALSE, FALSE, TRUE, "none", A196, 0, 192) }
=============================================================================
