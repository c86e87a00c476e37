----------------------------- MODULE Acq132Data -----------------------------
(***************************************************************************)
(* The ACQ132 burst demultiplexer (Acq132.cpp).  Memory is a row of eight  *)
(* shorts after another: FIFOSAM rows of the first quad of the scan list,  *)
(* FIFOSAM of the next, and round again.  A row is a sample of its quad or *)
(* an event signature, which is kept apart with the cursor it was met at.  *)
(*                                                                         *)
(* The rows of a quad's eight channels are one column here: the front end  *)
(* always runs with a mask of all ones, so the channels advance together,  *)
(* and with all quads of the card in the scan list.                        *)
(***************************************************************************)
EXTENDS Integers, Sequences, SequencesExt

CONSTANTS
    scanlist,       \* quads in the order they are scanned: "DCBA"
    FIFOSAM         \* rows a quad is given at a time

ASSUME ScanAssumption ==
    /\ scanlist \in Seq(STRING) /\ Len(scanlist) > 0 /\ IsInjective(scanlist)
    /\ FIFOSAM \in Nat \ {0} /\ FIFOSAM < 2147483647

NQuads == Len(scanlist)
Quads == { scanlist[i] : i \in 1 .. NQuads }

\* maxsamples, when --nsamples does not set it.
Unlimited == 2147483647

\* A row of memory: sample n of quad q, or an event signature.
Sample(q, n) == [es |-> FALSE, q |-> q, n |-> n]
Signature(q, n) == [es |-> TRUE, q |-> q, n |-> n]
\* One of dual rate: the sample clock changes to another divisor, lat samples
\* earlier.
DRSignature(q, to, lat) == [es |-> TRUE, q |-> q, n |-> 0, to |-> to, lat |-> lat]
\* What lies outside the block.
Stray == Sample("none", 0)

\* DQuad: the samples, as many as sample_cursor says; eventOffsets and
\* eventSignatures.
Cleared == [q \in Quads |-> [data |-> <<>>, es |-> <<>>, sig |-> <<>>]]

\* consume() and addES(): a second signature at the same cursor is dropped.
Consume(dq, row, stash_es) ==
    IF ~ row.es THEN [dq EXCEPT !.data = Append(@, row)]
    ELSE IF stash_es /\ (dq.es = <<>> \/ Last(dq.es) # Len(dq.data))
    THEN [dq EXCEPT !.es = Append(@, Len(dq.data)), !.sig = Append(@, row)]
    ELSE dq

\* processAll(): the next quad has its turn after FIFOSAM rows, or when this
\* one has been given maxsamples; actual_samples stays 0, so the count
\* begins again with every turn.
TakeTurn(at, maxsamples) ==
    IF at.isam = FIFOSAM \/ at.actual >= maxsamples
    THEN [iq |-> (at.iq % NQuads) + 1, isam |-> 0, actual |-> 0, dm |-> at.dm] ELSE at

GiveRow(at, row, maxsamples, stash_es) ==
    LET turn == TakeTurn(at, maxsamples)
    IN  [dm |-> [at.dm EXCEPT ![scanlist[turn.iq]] = Consume(@, row, stash_es)],
         iq |-> turn.iq, isam |-> turn.isam + 1,
         actual |-> turn.actual + (IF row.es THEN 0 ELSE 1)]

processAll(rows, dm, maxsamples, stash_es) ==
    LET after[m \in 0 .. Len(rows)] ==
            IF m = 0 THEN [iq |-> 1, isam |-> 0, actual |-> 0, dm |-> dm]
                     ELSE GiveRow(after[m - 1], rows[m], maxsamples, stash_es)
    IN  after[Len(rows)].dm

\* processSubBlock(): less than a scan of FIFOSAM rows for each quad; nsam
\* rows are read at the beginning of each quad's FIFOSAM.
processSubBlock(memory, from, nrows, dm) ==
    LET nsam == nrows \div NQuads
        Turn(d, iq) ==
            LET at == from + (iq - 1) * FIFOSAM
            IN  [d EXCEPT ![scanlist[iq]] =
                    FoldLeft(LAMBDA dq, row : Consume(dq, row, TRUE), @,
                             [i \in 1 .. nsam |-> memory[at + i - 1]])]
    IN  FoldLeft(Turn, dm, [iq \in 1 .. NQuads |-> iq])

\* process(): nrows rows of memory, as many for each quad, from row "from" on.
\* Not to keep signatures is asked for with a negative length, of which
\* processSubBlock() takes nothing.
process(memory, from, nrows, dm, maxsamples, stash_es) ==
    IF nrows < FIFOSAM * NQuads
    THEN IF stash_es THEN processSubBlock(memory, from, nrows, dm) ELSE dm
    ELSE processAll([i \in 1 .. nrows |-> memory[from + i - 1]],
                    dm, maxsamples, stash_es)

\* getEvents(): those of the first quad scanned.
getEvents(dm) == dm[scanlist[1]].es

\* dump(dd), for one quad: the samples from pre before the signature met at
\* event_offset to post after it, as far as there are any.
Has(dq, event_offset) == Contains(dq.es, event_offset)
First(sc, pre) == IF sc > pre THEN sc - pre ELSE 0
Window(dq, sc, pre, post) ==
    LET size == Len(dq.data)
    IN  SubSeq(dq.data, First(sc, pre) + 1,
               IF sc + post <= size THEN sc + post ELSE size)
-----------------------------------------------------------------------------
\* dump(root, ess): the full set.

\* Mutant of trimSamples: it only looks at maxsamples.
trimSamplesToLimit(dm, maxsamples) ==
    [q \in Quads |-> [dm[q] EXCEPT !.data =
        SubSeq(@, 1, IF Len(@) < maxsamples THEN Len(@) ELSE maxsamples)]]

\* trimSamples(): every channel as long as the shortest, and maxsamples.
trimSamples(dm, maxsamples) ==
    LET shortest == Min({ Len(dm[q].data) : q \in Quads } \cup {maxsamples})
    IN  [q \in Quads |-> [dm[q] EXCEPT !.data = SubSeq(@, 1, shortest)]]

Pulse(t, n) == [i \in 1 .. n |-> t + i - 1]

\* dumpTimebase(): a pulse from each signature to the next, at the time that
\* it counts; the samples before the first get none.
dumpTimebase(dq, ess) ==
    LET n == Len(dq.es)
        End(i) == IF i < n THEN dq.es[i + 1] ELSE Len(dq.data)
    IN  IF n = 0 THEN Pulse(ess, Len(dq.data))
        ELSE FlattenSeq([i \in 1 .. n |-> Pulse(dq.sig[i].n, End(i) - dq.es[i])])

\* es_cold_offset_samples.
ColdOffset(div) ==
    CASE div = 1 -> -5 [] div = 2 -> -1 [] div \in {0, 3} -> 0
      [] div \in {5, 6} -> 1 [] OTHER -> 2

\* DR_EventSignature: the divisor that ends with it, and the other.  One that
\* tells of both or of none is taken for one of them too.
isTransitionToDiv0(sig) == sig.to \in {"div0", "both"}
isBogusTransition(sig) == sig.to \in {"both", "none"}
Before(sig, div0, div1) == IF isTransitionToDiv0(sig) THEN div1 ELSE div0
After(sig, div0, div1) == IF isTransitionToDiv0(sig) THEN div0 ELSE div1
SampleCursor(cursor, sig, div) == cursor - (sig.lat + ColdOffset(div))

\* Mutant of TimesUntil: begin is passed by value.
TimesUntilByValue(at, end, div) ==
    LET n == IF end > at.sample THEN end - at.sample ELSE 0
    IN  [sample |-> at.sample, t |-> at.t + n * div,
         tb |-> at.tb \o [i \in 1 .. n |-> at.t + (i - 1) * div]]

\* dumpTimebaseUntil().
TimesUntil(at, end, div) ==
    LET n == IF end > at.sample THEN end - at.sample ELSE 0
    IN  [sample |-> end, t |-> at.t + n * div,
         tb |-> at.tb \o [i \in 1 .. n |-> at.t + (i - 1) * div]]

\* The changes of rate that the loop of dumpTimebaseDR() goes by, with the
\* divisor before each: neither signatures with a time, nor bogus ones.
HasRate(sig) == "to" \in DOMAIN sig
Transitions(dq, div0, div1) ==
    LET valid == SelectSeq([i \in DOMAIN dq.sig |-> i],
                    LAMBDA i : HasRate(dq.sig[i]) /\ ~ isBogusTransition(dq.sig[i]))
    IN  [k \in DOMAIN valid |->
            LET sig == dq.sig[valid[k]]
                div == Before(sig, div0, div1)
            IN  [sig |-> sig, div |-> div, cursor |-> SampleCursor(dq.es[valid[k]], sig, div)]]
Since(changes, k) == IF k = 1 THEN 0 ELSE changes[k - 1].cursor

\* dumpES_num() makes room for as many numbers as there are samples; less
\* than none ends the program.
Throws(changes) == \E k \in DOMAIN changes : changes[k].cursor < Since(changes, k)

\* dumpTimebaseDR().  cursor is sample_cursor, which trimSamples() leaves
\* alone.  The tail goes by dr, the last signature with a rate: a bogus one
\* too, as dr is set before it is looked at.
dumpTimebaseDR(dq, cursor, div0, div1) ==
    LET dr == SelectSeq(dq.sig, HasRate)
        at == FoldLeft(LAMBDA a, c : TimesUntil(a, c.cursor, c.div),
                       [sample |-> 0, t |-> 0, tb |-> <<>>], Transitions(dq, div0, div1))
    IN  IF dr = <<>> THEN <<>>
        ELSE TimesUntil(at, cursor, After(Last(dr), div0, div1)).tb
=============================================================================
