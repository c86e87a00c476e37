---------------------------- MODULE EventWorker ----------------------------
(***************************************************************************)
(* The worker LivePrePostProcessController forks for a line of the event   *)
(* feed: it demultiplexes the blocks of the line, and stores what is pre   *)
(* before to post after each event of the middle block in a directory of   *)
(* its own, NNN.COOKING until it is complete and NNN.COOKED afterwards.    *)
(* It may be killed at any point, and the program may be started again.    *)
(* LiveFeed has the loop that feeds it and answers the device.             *)
(*                                                                         *)
(* An offset is a slot, a row for each quad (64 bytes).  A sample has the  *)
(* number of the samples before it, a signature takes none, and one sample *)
(* lasts a millisecond, so that number is also its time.                   *)
(***************************************************************************)
EXTENDS Acq132Data

CONSTANTS
    TBLOCK_LEN,     \* slots of a block
    ACQ132_BLOCKLEN,
    Settings,       \* [pre, post, cleanup, overwrite, use_cooking]: options
    FeedLines,      \* FeedLines[k]: what the k-th line may be, [es, given,
                    \* timed]: offsets of the signatures in each of the
                    \* blocks 0, 1, 2 (left, middle, right); the blocks not
                    \* eliminated; whether msec is not 0
    HeapValues,     \* values of msecs_start, which no constructor sets
    WORD,           \* unsigned arithmetic is modulo WORD
    MaxKills, MaxRestarts   \* bounds

AnyLine == UNION { FeedLines[k] : k \in 1 .. Len(FeedLines) }

ASSUME WorkerAssumption ==
    /\ TBLOCK_LEN \in Nat /\ WORD \in Nat \ {0} /\ MaxKills \in Nat /\ MaxRestarts \in Nat
    /\ ACQ132_BLOCKLEN = 2 * FIFOSAM /\ TBLOCK_LEN % ACQ132_BLOCKLEN = 0
    /\ FeedLines \in Seq(SUBSET AnyLine)
    /\ AnyLine \subseteq [es : [0 .. 2 -> SUBSET (0 .. TBLOCK_LEN - 1)],
                          given : SUBSET (0 .. 2), timed : BOOLEAN]
    /\ \A l \in AnyLine : l.es[1] # {} /\ l.given # {}
    /\ Settings \subseteq [pre : Nat, post : Nat, cleanup : BOOLEAN, overwrite : BOOLEAN,
                           use_cooking : BOOLEAN]
    \* The option --post=1 alone asks for the full set, which is not here, nor
    \* is what lies before the block that --pre reaches back to.
    /\ \A s \in Settings : ~ (s.pre = 0 /\ s.post = 1) /\ s.pre <= TBLOCK_LEN
    /\ HeapValues # {} /\ HeapValues \subseteq Nat
    \* Offsets into the blocks are unsigned.
    /\ 3 * TBLOCK_LEN <= WORD

VARIABLES
    set,        \* the options
    pc,         \* of the worker: "idle" when there is none, "load", "next",
                \* "dump", "format", "announce", "remove", "rename"
    line,       \* validatorData: the line
    dm,         \* Acq132DataModel
    pss,        \* of validatorData
    adjusted,   \* of validatorData
    todo,       \* blocks of the line that are still to be processed
    msecs_start,
    cur,        \* events begun
    quad,       \* position in scanlist of the quad to be dumped next
    first_s1, dump_timebase,
    evnum,      \* of the parent
    disk,       \* directory -> its files; goal is what they should hold
    announced,  \* history: evnums written to /tmp/acq_demux_evn
    lines, kills, restarts

options == <<set>>
loaded == <<line, dm, pss, adjusted, todo, msecs_start>>
files == <<disk, announced>>
dumping == <<cur, quad, first_s1, dump_timebase>>
counts == <<lines, kills, restarts>>
vars == <<options, pc, loaded, files, dumping, evnum, counts>>

-----------------------------------------------------------------------------
\* What the memory of the card holds.

SignatureSlots(l) == UNION { { b * TBLOCK_LEN + o : o \in l.es[b] } : b \in 0 .. 2 }
Number(l, slot) == slot - Cardinality({ e \in SignatureSlots(l) : e < slot })

\* Row m of block b.
BlockRow(l, b, m) ==
    LET q == scanlist[((m \div FIFOSAM) % NQuads) + 1]
        slot == b * TBLOCK_LEN + (m \div (FIFOSAM * NQuads)) * FIFOSAM + (m % FIFOSAM)
    IN  IF m \notin 0 .. TBLOCK_LEN * NQuads - 1 THEN Stray
        ELSE IF slot \in SignatureSlots(l) THEN Signature(q, Number(l, slot))
        ELSE Sample(q, Number(l, slot))

-----------------------------------------------------------------------------
\* processAction(): which slots of a block are read.

esoff(l) == Min(l.es[1])
esoff2(l) == Max(l.es[1])

round_down(n) == n - (n % ACQ132_BLOCKLEN)
round_up(n) == round_down(n + ACQ132_BLOCKLEN - 1)

\* The slots [from, from + len), whether adjust() is called and by how much.
Cut(from, len, adjusts, by, stash_es) ==
    [from |-> from, len |-> len, adjusts |-> adjusts, by |-> by, stash_es |-> stash_es]

\* high wraps when post is as long as a block: len then comes out as here,
\* and reaches beyond the end of the block.
MiddleCut(l) ==
    LET low == round_up(set.pre) + ACQ132_BLOCKLEN
        high == TBLOCK_LEN - (round_up(set.post) + ACQ132_BLOCKLEN)
        late == round_down(esoff(l)) > low
        from == IF late THEN round_down(esoff(l)) - low ELSE 0
        cut == IF high < 0 \/ round_up(esoff2(l)) < high
               THEN high - round_up(esoff2(l)) ELSE 0
    IN  Cut(from, TBLOCK_LEN - from - cut, late, from, TRUE)

LeftCut ==
    LET pre == round_up(set.pre) IN Cut(TBLOCK_LEN - pre, pre, TRUE, -pre, FALSE)
RightCut == Cut(0, round_up(set.post), FALSE, 0, FALSE)

\* Mutant of BlockCut: the middle block ends early by the slack that rounding
\* needs.
BlockCutTight(l, b) ==
    CASE b = 0 -> LeftCut [] b = 2 -> RightCut
      [] b = 1 -> [MiddleCut(l) EXCEPT !.len = @ - ACQ132_BLOCKLEN]

BlockCut(l, b) ==
    CASE b = 0 -> LeftCut [] b = 1 -> MiddleCut(l) [] b = 2 -> RightCut

\* ValidatorData::adjust(): once, and not when the line has a time.
adjust(samples) ==
    IF adjusted \/ line.timed THEN UNCHANGED <<pss, adjusted>>
    ELSE pss' = pss + samples /\ adjusted' = TRUE

\* processAction() of block b, with the rows that its cut leaves.
processAction(b) ==
    LET cut == BlockCut(line, b)
        memory == [m \in Nat |-> BlockRow(line, b, m)]
    IN  /\ IF cut.adjusts THEN adjust(cut.by) ELSE UNCHANGED <<pss, adjusted>>
        /\ dm' = process(memory, cut.from * NQuads, cut.len * NQuads,
                         dm, Unlimited, cut.stash_es)

-----------------------------------------------------------------------------
NoLine == [es |-> <<>>, given |-> {}, timed |-> FALSE]

Init ==
    /\ set \in Settings
    /\ pc = "idle" /\ line = NoLine /\ dm = Cleared /\ pss = 0
    /\ adjusted = FALSE /\ todo = {}
    /\ msecs_start = 0
    /\ cur = 0 /\ quad = 1 /\ first_s1 = 0 /\ dump_timebase = TRUE
    /\ evnum = 0
    /\ disk = <<>> /\ announced = {}
    /\ lines = 0 /\ kills = 0 /\ restarts = 0

\* The worker is gone, and its memory with it; n is added to evnum.
Exit(n) ==
    /\ pc' = "idle"
    /\ evnum' = evnum + n
    /\ line' = NoLine /\ dm' = Cleared /\ pss' = 0 /\ msecs_start' = 0
    /\ adjusted' = FALSE /\ todo' = {}
    /\ cur' = 0 /\ quad' = 1 /\ first_s1' = 0 /\ dump_timebase' = TRUE

\* fork() for a line.
Fork(l) ==
    /\ pc = "idle" /\ lines < Len(FeedLines)
    /\ l \in FeedLines[lines + 1]
    /\ lines' = lines + 1
    /\ line' = l /\ todo' = l.given
    /\ pss' = Number(l, TBLOCK_LEN)
    /\ msecs_start' \in HeapValues
    /\ pc' = "load"
    /\ UNCHANGED <<options, dm, adjusted, files, dumping, evnum, kills, restarts>>

\* A single block is taken for the name of a file: exit(-1).
LoadFails ==
    /\ pc = "load" /\ Cardinality(line.given) = 1
    /\ Exit(255)
    /\ UNCHANGED <<options, files, counts>>

\* processRawFiles(): the blocks of the line in their order, one a step.
Load ==
    /\ pc = "load" /\ Cardinality(line.given) > 1
    /\ processAction(Min(todo))
    /\ todo' = todo \ {Min(todo)}
    /\ pc' = IF todo' = {} THEN "next" ELSE "load"
    /\ UNCHANGED <<options, line, msecs_start, files, dumping, evnum, counts>>

-----------------------------------------------------------------------------
\* dump(): a directory for each event.

Cooking(n) == <<n, "COOKING">>
Cooked(n) == <<n, "COOKED">>
\* evnum of the event that is being stored.
this == evnum + cur
WorkDir == IF set.use_cooking THEN Cooking(this) ELSE Cooked(this)
event_offset == getEvents(dm)[cur]

Goal == [q \in Quads |-> IF Has(dm[q], event_offset)
                         THEN Window(dm[q], event_offset, set.pre, set.post) ELSE <<>>]
\* getSampleOffset(), for each event: a line with a time sets the time to that
\* of its first signature, not of the event.
msecs_at_esoff == Number(line, TBLOCK_LEN + esoff(line))
setWallClockPolicy == msecs_start' = IF line.timed THEN msecs_at_esoff ELSE msecs_start
getSampleOffset == IF line.timed THEN event_offset ELSE pss + event_offset

NewDir == [ch |-> [q \in Quads |-> <<>>], tb |-> <<>>, format |-> FALSE,
           goal |-> [q \in Quads |-> <<>>]]

\* The disk with a directory of that name, and without it.
With(name, dir) == [d \in DOMAIN disk \cup {name} |-> IF d = name THEN dir ELSE disk[d]]
Without(name) == [d \in DOMAIN disk \ {name} |-> disk[d]]

\* Mutants of MakeDir: an old directory is never emptied; the published
\* directory goes first.
MakeDirUnclean ==
    /\ pc = "next" /\ cur < Len(getEvents(dm))
    /\ UNCHANGED <<options, line, dm, pss, adjusted, todo, first_s1, announced, evnum, counts>>
    /\ setWallClockPolicy
    /\ cur' = cur + 1 /\ quad' = 1 /\ dump_timebase' = TRUE
    /\ LET old == IF WorkDir' \in DOMAIN disk THEN disk[WorkDir'] ELSE NewDir
       IN  disk' = With(WorkDir', [old EXCEPT !.goal = Goal'])
    /\ pc' = "dump"
MakeDirRemoves ==
    /\ pc = "next" /\ cur < Len(getEvents(dm))
    /\ UNCHANGED <<options, line, dm, pss, adjusted, todo, first_s1, announced, evnum, counts>>
    /\ setWallClockPolicy
    /\ cur' = cur + 1 /\ quad' = 1 /\ dump_timebase' = TRUE
    /\ disk' = [d \in (DOMAIN disk \ {Cooked(evnum + cur')}) \cup {WorkDir'} |->
                    IF d = WorkDir' THEN [NewDir EXCEPT !.goal = Goal'] ELSE disk[d]]
    /\ pc' = "dump"

\* WorkingDir::WorkingDir(): a directory left behind is taken over, and
\* emptied first with --cleanup.
MakeDir ==
    /\ pc = "next" /\ cur < Len(getEvents(dm))
    /\ UNCHANGED <<options, line, dm, pss, adjusted, todo, first_s1, announced, evnum, counts>>
    /\ setWallClockPolicy
    /\ cur' = cur + 1 /\ quad' = 1 /\ dump_timebase' = TRUE
    /\ LET old == IF WorkDir' \in DOMAIN disk /\ ~ set.cleanup
                  THEN disk[WorkDir'] ELSE NewDir
       IN  disk' = With(WorkDir', [old EXCEPT !.goal = Goal'])
    /\ pc' = "dump"

\* What fopen() with mode "w" or "a" and fwrite() leave in a file.
Written(old, new) == IF set.overwrite THEN new ELSE old \o new

\* Mutant of StartTime: the time of the line is taken for that of the first
\* sample, not of the signature.
StartTimeNoPre(dq) ==
    LET s1 == First(event_offset, set.pre)
    IN  IF ~ line.timed THEN msecs_start + ((getSampleOffset - event_offset + s1) % WORD)
        ELSE msecs_start + ((s1 - first_s1) % WORD)

\* dumpTimebase(): the time of the first sample of the window; first_s1 is
\* where the window of the first event began.
StartTime(dq) ==
    LET s1 == First(event_offset, set.pre)
    IN  IF ~ line.timed THEN msecs_start + ((getSampleOffset - event_offset + s1) % WORD)
        ELSE IF event_offset = dq.es[1] THEN msecs_start - set.pre
        ELSE msecs_start + ((s1 - first_s1 - set.pre) % WORD)
Timebase(dq) ==
    [i \in 1 .. event_offset + set.post - First(event_offset, set.pre)
        |-> StartTime(dq) + i - 1]

\* DQuad::dump(dd): the channels, and in the first quad the timebase.  A
\* quad without a signature at the offset stores nothing.
DumpQuad ==
    LET q == scanlist[quad]
        dq == dm[q]
        old == disk[WorkDir]
        window == Window(dq, event_offset, set.pre, set.post)
    IN  /\ pc = "dump"
        /\ IF Has(dq, event_offset)
           THEN /\ disk' = [disk EXCEPT ![WorkDir] =
                    [ch |-> [old.ch EXCEPT ![q] = Written(old.ch[q], window)],
                     tb |-> IF dump_timebase THEN Written(old.tb, Timebase(dq)) ELSE old.tb,
                     format |-> old.format, goal |-> old.goal]]
                /\ dump_timebase' = FALSE
                /\ first_s1' = IF dump_timebase /\ line.timed /\ event_offset = dq.es[1]
                               THEN First(event_offset, set.pre) ELSE first_s1
           ELSE UNCHANGED <<disk, dump_timebase, first_s1>>
        /\ IF quad = NQuads THEN pc' = "format" /\ quad' = 1
                            ELSE pc' = "dump" /\ quad' = quad + 1
        /\ UNCHANGED <<options, loaded, announced, cur, evnum, counts>>

DumpFormat ==
    /\ pc = "format"
    /\ disk' = [disk EXCEPT ![WorkDir].format = TRUE]
    /\ pc' = "announce"
    /\ UNCHANGED <<options, loaded, announced, dumping, evnum, counts>>

\* updateEvnIndicator(), before the directory has its name.
Announce ==
    /\ pc = "announce"
    /\ announced' = announced \cup {this}
    /\ pc' = IF set.use_cooking THEN "remove" ELSE "next"
    /\ UNCHANGED <<options, loaded, disk, dumping, evnum, counts>>

\* ~WorkingDir(): rmrf(), rename().
RemoveOld ==
    /\ pc = "remove"
    /\ disk' = Without(Cooked(this))
    /\ pc' = "rename"
    /\ UNCHANGED <<options, loaded, announced, dumping, evnum, counts>>

RenameDir ==
    /\ pc = "rename"
    /\ disk' = [d \in DOMAIN Without(Cooking(this)) \cup {Cooked(this)} |->
                    IF d = Cooked(this) THEN disk[Cooking(this)] ELSE disk[d]]
    /\ pc' = "next"
    /\ UNCHANGED <<options, loaded, announced, dumping, evnum, counts>>

\* exit(num_events), taken for the number of new events.
Finish ==
    /\ pc = "next" /\ cur = Len(getEvents(dm))
    /\ Exit(cur)
    /\ UNCHANGED <<options, files, counts>>

\* A signal ends the worker, which counts for no event.  The directory that
\* was announced and not renamed is no longer promised.
Killed ==
    /\ pc # "idle" /\ kills < MaxKills
    /\ kills' = kills + 1
    /\ Exit(0)
    /\ announced' = IF pc \in {"remove", "rename"} THEN announced \ {this} ELSE announced
    /\ UNCHANGED <<options, disk, lines, restarts>>

\* The program is started again, over the directories of its last run.
Restart ==
    /\ pc = "idle" /\ restarts < MaxRestarts
    /\ restarts' = restarts + 1
    /\ evnum' = 0
    /\ UNCHANGED <<options, pc, loaded, files, dumping, lines, kills>>

Next ==
    \/ \E l \in AnyLine : Fork(l)
    \/ LoadFails \/ Load
    \/ MakeDir \/ DumpQuad \/ DumpFormat \/ Announce \/ RemoveOld \/ RenameDir \/ Finish
    \/ Killed \/ Restart

Spec == Init /\ [][Next]_vars

-----------------------------------------------------------------------------
Rows == [es : BOOLEAN, q : Quads \cup {"none"}, n : Nat]
Files == [ch : [Quads -> Seq(Rows)], tb : Seq(Int), format : BOOLEAN,
          goal : [Quads -> Seq(Rows)]]

\* Every variable holds a value of its type, and a directory only has the
\* files of one event.
TypeInv ==
    /\ set \in Settings
    /\ pc \in {"idle", "load", "next", "dump", "format", "announce", "remove", "rename"}
    /\ line \in AnyLine \cup {NoLine}
    /\ dm \in [Quads -> [data : Seq(Rows), es : Seq(Nat), sig : Seq(Rows)]]
    /\ pss \in Int /\ adjusted \in BOOLEAN /\ todo \subseteq 0 .. 2
    /\ msecs_start \in Nat
    /\ cur \in 0 .. Len(getEvents(dm)) /\ quad \in 1 .. NQuads
    /\ first_s1 \in Nat /\ dump_timebase \in BOOLEAN /\ evnum \in Nat
    /\ DOMAIN disk \subseteq Nat \X {"COOKING", "COOKED"}
    /\ disk \in [DOMAIN disk -> Files]
    /\ announced \subseteq Nat
    /\ lines \in 0 .. Len(FeedLines) /\ kills \in 0 .. MaxKills /\ restarts \in 0 .. MaxRestarts

Loaded == pc = "next" /\ cur = 0

\* The number of the sample at a cursor, or of the next one at the end; when
\* nothing has been read that of the first of the middle block.
NumberAt(dq, c) ==
    IF c < Len(dq.data) THEN dq.data[c + 1].n
    ELSE IF dq.data = <<>> THEN Number(line, TBLOCK_LEN) ELSE Last(dq.data).n + 1

\* The samples at the signatures of the middle block; two signatures with
\* no sample between them are one event.
EventNumbers(l) ==
    IF 1 \in l.given THEN { Number(l, TBLOCK_LEN + o) : o \in l.es[1] } ELSE {}

\* post leaves room in a block; otherwise high wraps and what lies beyond
\* the block is read.
PostFits == round_up(set.post) + ACQ132_BLOCKLEN <= TBLOCK_LEN

\* And the parts read of the neighbours have no signature of their own.
PlainLine ==
    /\ PostFits
    /\ \A o \in line.es[0] : o < LeftCut.from
    /\ \A o \in line.es[2] : o >= RightCut.len

EventsFound ==
    \A q \in Quads :
        LET es == dm[q].es
        IN  /\ { NumberAt(dm[q], es[k]) : k \in DOMAIN es } = EventNumbers(line)
            /\ \A j, k \in DOMAIN es :
                    j < k => NumberAt(dm[q], es[j]) < NumberAt(dm[q], es[k])

WindowsExact ==
    \A q \in Quads, k \in 1 .. Len(getEvents(dm)) :
        LET n == NumberAt(dm[q], dm[q].es[k])
            from == Max({ n - set.pre,
                          Number(line, IF 0 \in line.given THEN 0 ELSE TBLOCK_LEN) })
            to == Min({ n + set.post,
                        Number(line, (IF 2 \in line.given THEN 3 ELSE 2) * TBLOCK_LEN) })
        IN  Window(dm[q], dm[q].es[k], set.pre, set.post)
                = [i \in 1 .. to - from |-> Sample(q, from + i - 1)]

\* Trimming the blocks and dropping the signatures of the neighbours loses
\* no event of the middle block and adds none, and every quad has each of
\* them at the cursor where its sample is.  The window of an event holds
\* exactly the samples from pre before it to post after it that the blocks
\* of the line have, in order, in every quad.
WindowTrue ==
    Loaded /\ PostFits =>
        /\ EventsFound
        /\ PlainLine /\ 1 \in line.given => WindowsExact

CleanDirs == set.use_cooking /\ (set.cleanup \/ set.overwrite)

\* The times stored with the channels are those of their samples: of the
\* first event from the line, of the next ones by their distance to it.
\* Excepted are windows cut short at the beginning, events closer than pre
\* (the difference wraps), and, without a time in the line, a middle block
\* trimmed after a left one (adjust() only counts once).
TimebaseTrue ==
    pc = "announce" /\ CleanDirs /\ PlainLine
      /\ (IF line.timed
          THEN \A k \in 1 .. cur :
                 /\ getEvents(dm)[k] >= set.pre
                 /\ k > 1 => getEvents(dm)[k] - getEvents(dm)[1] >= set.pre
          ELSE 0 \in line.given => ~ MiddleCut(line).adjusts)
        => LET d == disk[WorkDir]
               ch == d.ch[scanlist[1]]
               origin == IF line.timed THEN 0 ELSE msecs_start
           IN  \A i \in 1 .. Len(ch) : d.tb[i] = origin + ch[i].n

Whole(d) ==
    /\ d.ch = d.goal
    /\ Len(d.tb) >= Len(d.ch[scanlist[1]])
    /\ d.format

\* A directory has its final name only with the complete files of a single
\* event, whatever killed workers and earlier runs left behind.
PublishedWhole ==
    CleanDirs => \A n \in { d[1] : d \in DOMAIN disk } :
                    Cooked(n) \in DOMAIN disk => Whole(disk[Cooked(n)])

\* The number in /tmp/acq_demux_evn is that of an event that is on disk and
\* complete, also while a later run stores another under its number.
AnnouncedKept ==
    CleanDirs => \A n \in announced :
                    \E d \in {Cooking(n), Cooked(n)} \cap DOMAIN disk : Whole(disk[d])
=============================================================================
