------------------------------ MODULE AcqRead ------------------------------
(***************************************************************************)
(* acqread (acqread.cpp): samples of a range of channels of a card, read   *)
(* into files with readChannel() of the transport that the device's name   *)
(* asks for.  A file is its name's sequence of samples.                    *)
(***************************************************************************)
EXTENDS LinearData

CONSTANTS
    Devices,        \* names of devices: "7", "http://", "host"
    Reads,          \* [first, last, length, start, stride, outfile, volts]
    DBUF,           \* samples acqread asks a transport for at a time
    MAXREAD,        \* samples Dt100Transport asks the card for at a time
    Errnos,         \* errors of fopen()
    Captured        \* samples the card has of each channel

ASSUME ReadsAssumption ==
    /\ \A r \in Reads : r.length \in Nat /\ r.stride \in Nat \ {0} /\ r.first \in Nat
    /\ MAXREAD \in Nat \ {0} /\ DBUF \in Nat \ {0} /\ Captured \in Nat
    /\ Errnos \subseteq 1 .. DBUF

VARIABLES
    device, call,   \* what acqread is started with
    rpc,            \* "off", "length", "open", "read", "stored", "failed"
    channel,        \* the channel of main()'s loop
    length,         \* samples to read of each
    fpout, outs,    \* the file open, and all that it has written
    total,          \* samples of the channel written
    dbuf, got,      \* the buffer, and what readChannel() has put there yet
    fp_data,        \* KddTransport's: [channel, at]
    unopened        \* history: channels whose device could not be opened

acqread == <<device, call, rpc, channel, length, fpout, outs, total, dbuf, got, fp_data, unopened>>

NoFile == <<>>
Closed == [channel |-> -1, at |-> 0]
Zero == Sample(-1, -1, 1)

\* createTransport() of each transport: the name is a slot's number, has a URL,
\* or is a host's.
IsSlot(id) == id = "7"
IsUrl(id) == id = "http://"
getTransport(id) == CASE IsSlot(id) -> "kdd" [] IsUrl(id) -> "soap" [] OTHER -> "dt100"

\* No call of SoapTransport is implemented: each returns STATUS_WORKTODO.
WorkToDo(id) == getTransport(id) = "soap"

\* main() up to where it asks the card for the length.
ReadInit(on) ==
    /\ device \in IF on THEN Devices ELSE {"host"}
    /\ call \in IF on THEN Reads
                ELSE {[first |-> 1, last |-> 1, length |-> 0, start |-> 0, stride |-> 1,
                       outfile |-> "-", volts |-> FALSE]}
    /\ rpc = IF on THEN "length" ELSE "off"
    /\ channel = call.first
    /\ length = call.length
    /\ fpout = NoFile /\ outs = <<>>
    /\ total = 0
    /\ dbuf = [i \in 1 .. DBUF |-> Zero] /\ got = 0
    /\ fp_data = Closed
    /\ unopened = {}

-----------------------------------------------------------------------------
\* What the card answers to "dt100 read from to stride": from and to count
\* subsampled samples, as readChannel() and acqread both take them to.
CardSamples(ch, from, to, stride) ==
    LET end == (Captured + stride - 1) \div stride
        n == IF to < end THEN to - from ELSE end - from
    IN  [i \in 1 .. n |-> Sample((from + i - 1) * stride, (from + i - 1) * stride, ch)]

Least(a, b) == IF a < b THEN a ELSE b

\* A length of 0 is taken to be all that the card has.
GetLength ==
    /\ rpc = "length"
    /\ \/ call.length # 0 /\ rpc' = "open" /\ UNCHANGED length
       \/ call.length = 0 /\ ~ WorkToDo(device) /\ length' = Captured /\ rpc' = "open"
       \/ call.length = 0 /\ rpc' = "failed" /\ UNCHANGED length
    /\ UNCHANGED <<device, call, channel, fpout, outs, total, dbuf, got, fp_data, unopened>>

\* The name of a channel's file: only "file.%02d" has the channel in it.
FileName(ch) == IF call.outfile = "file.%02d" THEN <<call.outfile, ch>> ELSE <<call.outfile>>

\* Mutant of getoutfile: every channel opens its file anew.
getoutfileAgain ==
    /\ fpout' = FileName(channel)
    /\ outs' = (FileName(channel) :> <<>>) @@ outs

\* getoutfile(): stdout and a file without the channel are used by all.
getoutfile ==
    LET fname == FileName(channel)
    IN  /\ fpout' = fname
        /\ outs' = IF fname = fpout \/ (fname = <<"-">> /\ fname \in DOMAIN outs)
                   THEN outs ELSE (fname :> <<>>) @@ outs

OpenOutput ==
    /\ rpc = "open"
    /\ \/ channel > call.last /\ rpc' = "stored" /\ UNCHANGED <<fpout, outs, total>>
       \/ channel <= call.last /\ getoutfile /\ total' = 0 /\ rpc' = "read"
       \/ channel <= call.last /\ call.outfile # "-" /\ FileName(channel) # fpout
          /\ rpc' = "failed" /\ UNCHANGED <<fpout, outs, total>>
    /\ UNCHANGED <<device, call, channel, length, dbuf, got, fp_data, unopened>>

-----------------------------------------------------------------------------
\* read_channel(): what it asks readChannel() for next, and from where.
nread == Least(DBUF, length - total)
Begin == call.start + total

\* What readChannel() has put into data, from the offset on.
Put(offset, samples) ==
    [i \in 1 .. DBUF |-> IF i - offset \in DOMAIN samples THEN samples[i - offset] ELSE dbuf[i]]

\* readChannel() returns n: as many samples of dbuf are written, and it is
\* called again until all are there or none came.
Returned(n) ==
    /\ outs' = [outs EXCEPT ![fpout] = @ \o SubSeq(dbuf', 1, n)]
    /\ total' = total + n
    /\ got' = 0
    /\ IF n = 0 \/ total' >= length
       THEN rpc' = "open" /\ channel' = channel + 1
       ELSE UNCHANGED <<rpc, channel>>

Reading(transport) == rpc = "read" /\ total < length /\ getTransport(device) = transport

\* One command of Dt100Transport's readChannel(), its reply and readb() of
\* what the reply says; it returns when the card has no more or all is there.
ReadChunk ==
    LET from == Begin + got
        samples == CardSamples(channel, from, from + Least(MAXREAD, nread - got), call.stride)
        n == got + Len(samples)
    IN  /\ Reading("dt100")
        /\ dbuf' = Put(got, samples)
        /\ IF samples = <<>> \/ n = nread
           THEN Returned(n)
           ELSE got' = n /\ UNCHANGED <<outs, total, rpc, channel>>
        /\ UNCHANGED <<device, call, length, fpout, fp_data, unopened>>

\* No connection can be had, the reply does not scan, the ranges of the
\* channels cannot be read: acqread exits with what it has written.
ReadFails ==
    /\ rpc = "read" /\ total < length
    /\ getTransport(device) # "kdd" \/ call.volts
    /\ rpc' = "failed"
    /\ UNCHANGED <<device, call, channel, length, fpout, outs, total, dbuf, got, fp_data, unopened>>

\* KddTransport's: fread() goes on where the file of the channel is, whatever
\* start and stride are.
ReadDevice ==
    LET at == IF fp_data.channel = channel THEN fp_data.at ELSE 0
        samples == CardSamples(channel, at, at + nread, 1)
    IN  /\ Reading("kdd")
        /\ dbuf' = Put(0, samples)
        /\ Returned(Len(samples))
        /\ fp_data' = [channel |-> channel, at |-> at + Len(samples)]
        /\ UNCHANGED <<device, call, length, fpout, unopened>>

\* FetchesRaw has readChannel() fill dbuf, FetchesVolts a buffer of its own that
\* is converted into dbuf: what dbuf holds when nothing was filled.
Unfilled(n) == IF call.volts THEN Put(0, [i \in 1 .. n |-> Zero]) ELSE dbuf

\* Its device cannot be opened: errno is returned and taken for a number of
\* samples.
OpenFails ==
    /\ Reading("kdd") /\ fp_data.channel # channel
    /\ \E errno \in Errnos :
        /\ dbuf' = Unfilled(errno)
        /\ Returned(errno)
    /\ fp_data' = Closed
    /\ unopened' = unopened \cup {channel}
    /\ UNCHANGED <<device, call, length, fpout>>

\* Nothing to read.
ReadNothing ==
    /\ rpc = "read" /\ length = 0
    /\ rpc' = "open" /\ channel' = channel + 1
    /\ UNCHANGED <<device, call, length, fpout, outs, total, dbuf, got, fp_data, unopened>>

AcqReadNext ==
    \/ GetLength \/ OpenOutput \/ ReadNothing
    \/ ReadChunk \/ ReadFails \/ ReadDevice \/ OpenFails

-----------------------------------------------------------------------------
ReadTypes ==
    /\ rpc \in {"off", "length", "open", "read", "stored", "failed"}
    /\ channel \in Nat /\ length \in Nat /\ total \in Nat
    /\ \A f \in DOMAIN outs : outs[f] \in Seq([es : {FALSE}, n : Int, t : Int, ch : Nat])
    /\ Len(dbuf) = DBUF /\ got \in 0 .. DBUF
    /\ fp_data.at \in 0 .. Captured /\ unopened \subseteq call.first .. call.last

\* The files have of each channel every stride-th sample from start on, as
\* many as asked for or as the card has, once and in order, channel after
\* channel and none twice, whatever the sizes of the reads; of KddTransport,
\* which takes neither start nor stride, every sample from the first on.
ReadTrue ==
    LET kdd == getTransport(device) = "kdd"
        start == IF kdd THEN 0 ELSE call.start
        stride == IF kdd THEN 1 ELSE call.stride
        end == (Captured + stride - 1) \div stride
        wanted(ch) == LET n == Least(length, IF start < end THEN end - start ELSE 0)
                      IN  [i \in 1 .. n |-> Sample((start + i - 1) * stride, (start + i - 1) * stride, ch)]
        \* What a file should have of the first n channels.
        Whole(file, n) ==
            FlattenSeq([k \in 1 .. n |-> IF FileName(call.first + k - 1) = file
                                           THEN wanted(call.first + k - 1) ELSE <<>>])
    IN  unopened = {} =>
        \A file \in DOMAIN outs :
            /\ IsPrefix(outs[file], Whole(file, call.last - call.first + 1))
            /\ IsPrefix(Whole(file, channel - call.first), outs[file])
=============================================================================
