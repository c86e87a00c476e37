----------------------------- MODULE LinearData -----------------------------
(***************************************************************************)
(* LinearDataModel (AcqDataModel.cpp), the data model of every card but    *)
(* the ACQ132: rows of one sample per channel, between them event          *)
(* signatures that carry a time, and what is made of them: the channel     *)
(* files, the timebase file, and the segments of an MDSplus tree.          *)
(* Channel 1 stands for the channels.  Times count sample clocks.          *)
(***************************************************************************)
EXTENDS Integers, Sequences, SequencesExt

\* A row of raw data: sample n, of time t, from channel ch of the card; or an
\* event signature of time t.
Sample(n, t, ch) == [es |-> FALSE, n |-> n, t |-> t, ch |-> ch]
Signature(t) == [es |-> TRUE, n |-> 0, t |-> t, ch |-> 1]

\* cooked and eventSignatures, of which each is a cursor and a time.
NoData == [cooked |-> <<>>, es |-> <<>>]

\* LinearDataModelNoEs: with ignore_es a signature is a sample.  Mutant of
\* processRaw.
processRawNoEs(dm, rows) == [dm EXCEPT !.cooked = @ \o rows]

\* The cursor starts at 0 for every piece of raw data, whatever cooked holds
\* already.
processRaw(dm, rows) ==
    LET Row(at, row) ==
            IF row.es
            THEN [at EXCEPT !.dm.es = Append(@, [cursor |-> at.cursor, t |-> row.t])]
            ELSE [cursor |-> at.cursor + 1, dm |-> [at.dm EXCEPT !.cooked = Append(@, row)]]
    IN  FoldLeft(Row, [cursor |-> 0, dm |-> dm], rows).dm

processCooked(dm, samples) == [dm EXCEPT !.cooked = @ \o samples]
addEventSignature(dm, cursor, t) ==
    [dm EXCEPT !.es = Append(@, [cursor |-> cursor, t |-> t])]
\* The signatures stay.
clear(dm) == [dm EXCEPT !.cooked = <<>>]

-----------------------------------------------------------------------------
\* dumpTimebase(): the times appended to TB01, or none.

Times(t, n) == [i \in 1 .. n |-> t + i - 1]

\* The loop that writes up to a cursor: its condition moves sample_cursor
\* once more when it ends it.
WriteUntil(at, cursor) ==
    LET n == IF cursor > at.cursor THEN cursor - at.cursor ELSE 0
    IN  [cursor |-> at.cursor + n + 1, t |-> at.t + n, tb |-> at.tb \o Times(at.t, n)]

dumpTimebase(dm) ==
    IF dm.es = <<>> \/ dm.es[1].cursor # 0 THEN <<>>
    ELSE LET ToSignature(at, s) == WriteUntil([at EXCEPT !.t = s.t], s.cursor)
             start == [cursor |-> 0, t |-> dm.es[1].t, tb |-> <<>>]
         IN  WriteUntil(FoldLeft(ToSignature, start, dm.es), Len(dm.cooked)).tb

-----------------------------------------------------------------------------
\* mdsPutSegments(): from each signature to the next, or to the end, without
\* the last rtrim samples; t1 is the time of the first.

CanSegment(dm) == dm.es # <<>> /\ dm.es[1].cursor = 0

\* Mutant of segments: the time is that of the signature that ends it.
segmentsLateTime(dm, rtrim) ==
    LET n == Len(dm.es)
        End(i) == IF i < n THEN dm.es[i + 1].cursor ELSE Len(dm.cooked)
        last == IF dm.es[n].cursor < Len(dm.cooked) THEN n ELSE n - 1
    IN  [i \in 1 .. last |->
            [t1 |-> dm.es[IF i < n THEN i + 1 ELSE i].t, from |-> dm.es[i].cursor,
             len |-> End(i) - dm.es[i].cursor - rtrim]]

segments(dm, rtrim) ==
    LET n == Len(dm.es)
        End(i) == IF i < n THEN dm.es[i + 1].cursor ELSE Len(dm.cooked)
        last == IF dm.es[n].cursor < Len(dm.cooked) THEN n ELSE n - 1
    IN  [i \in 1 .. last |->
            [t1 |-> dm.es[i].t, from |-> dm.es[i].cursor,
             len |-> End(i) - dm.es[i].cursor - rtrim]]
=============================================================================
