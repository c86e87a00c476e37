----------------------------- MODULE CardTypes -----------------------------
(***************************************************************************)
(* AcqType.cpp: which word of a row of raw data belongs to which channel,  *)
(* from the definition file of acq_demux, and LinearDataModel's sorting of *)
(* the words by it.  Raw data is a sequence of shorts, of which a word has *)
(* one or two.  Indices are the code's: channels from 1, words from 0.     *)
(***************************************************************************)
EXTENDS Integers, Sequences, SequencesExt

\* A short: half of the word at a place of row n, or of an event signature.
Short(es, n, at, half) == [es |-> es, n |-> n, at |-> at, half |-> half]

-----------------------------------------------------------------------------
\* parse(): a definition is lines <<key, value>>; only those that end with a
\* newline are read, and the last of a key counts.
parse(text) ==
    LET lines == IF text.newline \/ text.lines = <<>> THEN text.lines ELSE Front(text.lines)
    IN  [key \in { lines[i][1] : i \in DOMAIN lines } |->
            Last(SelectSeq(lines, LAMBDA l : l[1] = key))[2]]

AcqType(kind, nchan, word_size) == [kind |-> kind, nchan |-> nchan, word_size |-> word_size]
nullAcqType == AcqType("null", 96, 2)

\* Acq196MacAcqType::numchan(): 32 for each bit of the mask's digits.
Bits(digit) == (digit % 2) + ((digit \div 2) % 2) + ((digit \div 4) % 2)
numchan(refmask) == 32 * FoldLeft(LAMBDA n, digit : n + Bits(digit), 0, refmask)

\* PentaLockinAcqType::getEffectiveNchan(): 32 for each of the low 16 bits of
\* what the card says is enabled, and -1 when it does not say.
NoAnswer == -1
getEffectiveNchan(enable) ==
    IF enable = NoAnswer THEN -1
    ELSE 32 * Cardinality({ bit \in 0 .. 15 : (enable \div 2^bit) % 2 = 1 })

\* _getAcqType(), with what the card would say, or without a card.
NoCard == -2
TypeFor(text, enable) ==
    LET prams == parse(text)
        Is(key, value) == key \in DOMAIN prams /\ prams[key] = value
        Number(key, default) ==
            IF key \in DOMAIN prams /\ prams[key] # 0 THEN prams[key] ELSE default
        word_size == Number("WORD_SIZE", 2)
        nchan == Number("AICHAN", 96)
    IN  CASE Is("ACQ", "acq196m") /\ Is("HAS_MAC", 1) ->
                AcqType("mac", IF "REF_MASK" \in DOMAIN prams THEN numchan(prams["REF_MASK"])
                                                               ELSE nchan, word_size)
          [] Is("ACQ", "acq196m") /\ Is("HAS_MAC", 2) ->
                IF enable = NoCard THEN nullAcqType
                                   ELSE AcqType("lockin", getEffectiveNchan(enable), word_size)
          [] Is("ACQ", "acq196") \/ Is("ACQ", "acq196m") -> AcqType("acq196", nchan, word_size)
          [] Is("ACQ", "acq164") -> AcqType("acq164", nchan, word_size)
          [] Is("ACQ", "acq132") -> AcqType("acq132", nchan, word_size)
          [] Is("ACQ", "acq400") \/ Is("ACQ", "acq420") -> AcqType("acq400", nchan, word_size)
          [] OTHER -> nullAcqType

\* getAcqType() of a file; and of a card that says what it is, and perhaps what
\* is enabled, or does not answer at all.
getAcqType(text) == TypeFor(text, NoCard)
Told(text, enable) == {nullAcqType, TypeFor(text, enable), TypeFor(text, NoAnswer)}

-----------------------------------------------------------------------------
\* The tables LUT, a block of 32 channels after the other.

Block(k) == 32 * (k \div 32)

\* Acq196AcqType::LUT, in blocks.
Lut196(ch) ==
    LET k == (ch - 1) % 32
        Bit(i) == (k \div 2^i) % 2
    IN  Block(ch - 1) + 16 * Bit(0) + Bit(1) + 8 * Bit(2) + 2 * Bit(3) + 4 * Bit(4)

\* Acq164AcqType::LUT: rows and columns of four are exchanged; in the second
\* half of a block the columns run backwards.
Lut164(ch) ==
    LET k == (ch - 1) % 16
    IN  Block(ch - 1) + IF (ch - 1) % 32 < 16
                        THEN 4 * (k % 4) + (k \div 4)
                        ELSE 16 + 4 * (k % 4) + 3 - (k \div 4)

\* PentaLockinAcqType: LUT[0] is -1, for the last channel of a block.
LockinOffset(ch) == Block(ch) + (IF ch % 32 = 0 THEN -1 ELSE Lut196(ch % 32))

Offset400(type, ch) == IF ch \in 1 .. type.nchan THEN ch - 1 ELSE -1
Offset164(ch) == IF ch \in 1 .. 64 THEN Lut164(ch) ELSE -1

\* -1 for a channel the card has not; types without a table count words from 1.
getChannelOffset(type, ch) ==
    CASE type.kind \in {"acq196", "mac"} -> IF ch \in 1 .. 96 THEN Lut196(ch) ELSE -1
      [] type.kind = "lockin" -> LockinOffset(ch)
      [] type.kind = "acq164" -> Offset164(ch)
      [] type.kind = "acq400" -> Offset400(type, ch)
      [] OTHER -> ch

\* AcqDataModel::create() knows two sizes of words; build_raw_lut() writes
\* inside of raw_lut only and leaves nothing of it unset.
Usable(type) ==
    /\ type.word_size \in {2, 4}
    /\ { getChannelOffset(type, ch) : ch \in 1 .. type.nchan } = 0 .. type.nchan - 1

\* build_raw_lut(), which word of a row goes to a channel.
build_raw_lut(type, ch) == getChannelOffset(type, ch)

-----------------------------------------------------------------------------
\* createES(): the shorts that have to be those of a signature.
Magic(type) ==
    CASE type.kind = "acq196" -> {1, 3, 5, 7}
      [] type.kind = "acq164" -> 2 .. 15
      [] OTHER -> {}
createES(type, row) == Magic(type) # {} /\ \A i \in Magic(type) : row[i + 1].es

\* The rows of raw data; one that is not whole is left.
RowsOf(type, raw) ==
    LET len == (type.word_size \div 2) * type.nchan
    IN  [i \in 1 .. Len(raw) \div len |-> SubSeq(raw, (i - 1) * len + 1, i * len)]

\* processRaw(): the words of each channel.  LinearDataModelNoEs takes
\* signatures for samples.
processWords(type, ignore_es, raw) ==
    LET size == type.word_size \div 2
        samples == SelectSeq(RowsOf(type, raw), LAMBDA row : ignore_es \/ ~ createES(type, row))
        From(ch) == size * build_raw_lut(type, ch)
    IN  [ch \in 1 .. type.nchan |->
            [i \in DOMAIN samples |-> SubSeq(samples[i], From(ch) + 1, From(ch) + size)]]

\* The time in the words of a signature, whose row follows the first `from'
\* shorts.  The word of an ACQ164 may lie behind a row that the definition
\* makes too short, and behind the file, where its last page holds zeros.
Stamp196(raw, from) == raw[from + 17].n
Stamp164(raw, from) == IF from + 33 <= Len(raw) THEN raw[from + 33].n ELSE 0

\* Its signatures: the samples in front of each, and the time it has in its
\* words; with fake_it_usecs > 0 the next of FakeTimestamp, which goes on from
\* that of programs before.
Signatures(type, raw, last, fake_it_usecs) ==
    LET rows == RowsOf(type, raw)
        at == SelectSeq([i \in DOMAIN rows |-> i], LAMBDA i : createES(type, rows[i]))
        From(k) == (at[k] - 1) * (type.word_size \div 2) * type.nchan
        Stamp(k) == IF type.kind = "acq164" THEN Stamp164(raw, From(k)) ELSE Stamp196(raw, From(k))
    IN  [k \in DOMAIN at |->
            [cursor |-> at[k] - k,
             t |-> IF fake_it_usecs > 0 THEN last + k * fake_it_usecs ELSE Stamp(k)]]
=============================================================================
