--------------------------- MODULE MdsContinuous ---------------------------
(***************************************************************************)
(* MdsContinuousProcessController with its ContinuousMdsWrapper: files     *)
(* named by the feed are collected into groups, and a worker forked for    *)
(* each group stores it as one segment per channel at the time N1, a       *)
(* sample count that parent and workers share through an SHM_Buffer.       *)
(*                                                                         *)
(* A file holds one unit of samples and is named by its position in the    *)
(* acquisition, so a segment of files p, p+1, ... belongs at time p - 1.   *)
(* The watchdog of the same loop is in MdsController and left out here.    *)
(* A program that has ended may be started again on its feed and tree.     *)
(***************************************************************************)
EXTENDS Integers, Sequences, FiniteSets

CONSTANTS
    files_per_segment,  \* MDS_FILES_PER_SEGMENT
    MinSamples,         \* values of MDS_MIN_SAMPLES_SEGMENT, -1 when unset
    NChannels,          \* active channels; the timebase is stored after them
    CHILD_ERROR_MAX,
    MaxFiles,           \* bound: positions of the acquisition
    MaxSkip,            \* bound: files the source may drop between two lines
    MaxRestarts         \* bound: times that the program is started again

ASSUME SizesAssumption ==
    /\ files_per_segment \in Nat \ {0} /\ NChannels \in Nat \ {0}
    /\ MinSamples \subseteq Int
    /\ CHILD_ERROR_MAX \in Nat /\ MaxFiles \in Nat /\ MaxSkip \in Nat
    /\ MaxRestarts \in Nat

VARIABLES
    burn, min_samples_segment,      \* environment settings
    pc,         \* "shm", "tree", "getdef", "collect", "fork", "wait", "exited"
    ibuf,       \* files collected
    acc_samples,
    group,      \* the names in fname: Seq of positions
    last,       \* position of the last file named
    n1,         \* shared sample count
    errors,     \* consecutive_child_errors
    worker,     \* "none", "read", "burn", "store", "count", "write",
                \* "exit0", "exit1", "killed"
    unburned,   \* files of the group the worker has yet to remove
    channel,    \* the channel it stores next
    segments,   \* history: channel -> Seq of [t1, len, files]
    removed,    \* history: files removed
    failed,     \* history: files of groups whose worker did not exit(0)
    unmarked,   \* history: some group began with a file that had no .id
    skipped,    \* history: the source dropped a file, or a program that ended
    restarts    \* history

config == <<burn, min_samples_segment>>
collecting == <<ibuf, acc_samples, group, last, unmarked, skipped>>
store == <<n1, segments>>
work == <<worker, unburned, channel, removed>>
vars == <<config, pc, collecting, store, work, errors, failed, restarts>>

Timebase == NChannels + 1
Column == 1 .. Timebase

Init ==
    /\ burn \in BOOLEAN
    /\ min_samples_segment \in MinSamples
    /\ pc = "shm"
    /\ ibuf = 0 /\ acc_samples = 0 /\ group = <<>> /\ last = 0
    /\ n1 = 0
    /\ errors = 0
    /\ worker = "none" /\ unburned = <<>> /\ channel = 1
    /\ segments = [c \in Column |-> <<>>]
    /\ removed = {} /\ failed = {}
    /\ unmarked = FALSE /\ skipped = FALSE /\ restarts = 0

-----------------------------------------------------------------------------
\* The program starts.

\* SHM_Buffer: a new file, cleared; without it, or without memory, exit(errno).
OpenShm ==
    /\ pc = "shm"
    /\ \/ pc' = "tree" /\ n1' = 0
       \/ pc' = "exited" /\ UNCHANGED n1
    /\ UNCHANGED <<config, collecting, segments, work, errors, failed, restarts>>

\* createTree() opens a tree that is there, with what it holds, or exit(1).
CreateTree ==
    /\ pc = "tree"
    /\ pc' \in {"getdef", "exited"}
    /\ UNCHANGED <<config, collecting, store, work, errors, failed, restarts>>

\* The program is started again.  Names it had collected are not read again.
Restart ==
    /\ pc = "exited" /\ restarts < MaxRestarts
    /\ restarts' = restarts + 1
    /\ pc' = "shm"
    /\ ibuf' = 0 /\ acc_samples' = 0 /\ group' = <<>> /\ errors' = 0
    /\ skipped' = (skipped \/ ibuf > 0)
    /\ UNCHANGED <<config, last, unmarked, store, work, failed>>

-----------------------------------------------------------------------------
\* getDef().

Keys == {"NSAMPLES", "NSAMPLES_FILE"}

\* EnvFile: the keys that are in an .id file, all of them or, when it is not
\* yet complete, some.  A name without an .id file is one without keys.
EnvFiles == SUBSET Keys

\* getValue() leaves the value when findKey() does not find the key.
getValue(envFile, key, found, value) == IF key \in envFile THEN found ELSE value

GetDef ==
    /\ pc = "getdef"
    /\ group' = <<>>
    /\ acc_samples' = 0
    /\ pc' = "collect"
    /\ UNCHANGED <<config, ibuf, last, unmarked, skipped, store, work, errors, failed, restarts>>

\* The group is complete: files_per_segment names, or enough samples.
Enough(n, acc) ==
    \/ n = files_per_segment
    \/ min_samples_segment >= 0 /\ acc >= min_samples_segment

\* A readable name, with or without the .id file that says where its samples
\* begin (NSAMPLES) and how many there are (NSAMPLES_FILE).
Name(p, envFile) ==
    /\ pc = "collect"
    /\ p \in last + 1 .. last + 1 + MaxSkip
    /\ p <= MaxFiles
    /\ n1' = IF ibuf = 0 THEN getValue(envFile, "NSAMPLES", p - 1, n1) ELSE n1
    /\ acc_samples' = acc_samples + getValue(envFile, "NSAMPLES_FILE", 1, 0)
    /\ group' = Append(group, p)
    /\ last' = p
    /\ unmarked' = (unmarked \/ (ibuf = 0 /\ "NSAMPLES" \notin envFile))
    /\ skipped' = (skipped \/ p > last + 1)
    /\ IF Enough(ibuf + 1, acc_samples')
       THEN ibuf' = 0 /\ pc' = "fork"
       ELSE ibuf' = ibuf + 1 /\ pc' = pc
    /\ UNCHANGED <<config, segments, work, errors, failed, restarts>>

ReadName == \E p \in 1 .. MaxFiles, envFile \in EnvFiles : Name(p, envFile)

\* The feed ends, or names a file that is not readable (exit(1)), or an .id
\* file that is gone before it is opened: the names collected are dropped.
EndOfFeed ==
    /\ pc = "collect"
    /\ pc' = "exited"
    /\ UNCHANGED <<config, collecting, store, work, errors, failed, restarts>>

-----------------------------------------------------------------------------
\* The worker: processRawFiles(), dump(), exit().

Fork ==
    /\ pc = "fork"
    /\ worker' = "read"
    /\ channel' = 1
    /\ pc' = "wait"
    /\ UNCHANGED <<config, collecting, store, unburned, removed, errors, failed, restarts>>

WorkerUnchanged == UNCHANGED <<config, pc, collecting, errors, failed, restarts>>

\* The files are mapped and demultiplexed.  Only a group of several files is
\* burned.
ReadFiles ==
    /\ worker = "read"
    /\ worker' = "burn"
    /\ unburned' = IF burn /\ Len(group) > 1 THEN group ELSE <<>>
    /\ UNCHANGED <<channel, removed, store>>
    /\ WorkerUnchanged

\* for ( ; --ii >= 0; ) unlink(names[ii]);
Burn ==
    /\ worker = "burn"
    /\ unburned # <<>>
    /\ removed' = removed \cup {unburned[Len(unburned)]}
    /\ unburned' = SubSeq(unburned, 1, Len(unburned) - 1)
    /\ UNCHANGED <<worker, channel, store>>
    /\ WorkerUnchanged

\* Mutant of BurnDone: the worker exits without dump().
BurnDoneExits ==
    /\ worker = "burn" /\ unburned = <<>>
    /\ worker' = "exit0"
    /\ UNCHANGED <<unburned, channel, removed, store>>
    /\ WorkerUnchanged

BurnDone ==
    /\ worker = "burn"
    /\ unburned = <<>>
    /\ worker' = "store"
    /\ UNCHANGED <<unburned, channel, removed, store>>
    /\ WorkerUnchanged

\* totlen = files_per_segment * FLEN, however many files were mapped; a single
\* file goes through processRaw(), which asks for its length.
SegmentLength == IF Len(group) = 1 THEN 1 ELSE files_per_segment

\* Mutant of StoreColumn: the timebase is forgotten.
StoreChannelsOnly ==
    /\ worker = "store"
    /\ channel \in Column
    /\ segments' = [segments EXCEPT ![channel] =
                        Append(@, [t1 |-> n1, len |-> SegmentLength, files |-> group])]
    /\ channel' = channel + 1
    /\ worker' = IF channel = NChannels THEN "count" ELSE worker
    /\ UNCHANGED <<unburned, removed, n1>>
    /\ WorkerUnchanged

\* storeChannels() and storeTimebase(): one beginSegment() per column.
StoreColumn ==
    /\ worker = "store"
    /\ channel \in Column
    /\ segments' = [segments EXCEPT ![channel] =
                        Append(@, [t1 |-> n1, len |-> SegmentLength, files |-> group])]
    /\ channel' = channel + 1
    /\ worker' = IF channel = Timebase THEN "count" ELSE worker
    /\ UNCHANGED <<unburned, removed, n1>>
    /\ WorkerUnchanged

\* Mutant of IncrementN1: by one buffer.
IncrementByOne ==
    /\ worker = "count"
    /\ n1' = n1 + 1
    /\ worker' = "write"
    /\ UNCHANGED <<unburned, channel, removed, segments>>
    /\ WorkerUnchanged

IncrementN1 ==
    /\ worker = "count"
    /\ n1' = n1 + SegmentLength
    /\ worker' = "write"
    /\ UNCHANGED <<unburned, channel, removed, segments>>
    /\ WorkerUnchanged

WriteTree ==
    /\ worker = "write"
    /\ worker' = "exit0"
    /\ UNCHANGED <<unburned, channel, removed, store>>
    /\ WorkerUnchanged

\* open() fails, MDSplus throws: exit(errno), exit(2), exit(3).
WorkerFails ==
    /\ worker \in {"read", "store", "write"}
    /\ worker' = "exit1"
    /\ UNCHANGED <<unburned, channel, removed, store>>
    /\ WorkerUnchanged

WorkerKilled ==
    /\ worker \in {"read", "burn", "store", "count", "write"}
    /\ worker' = "killed"
    /\ UNCHANGED <<unburned, channel, removed, store>>
    /\ WorkerUnchanged

\* Mutant of Reap: a failed group is tried again.
ReapRetries ==
    /\ pc = "wait"
    /\ worker \in {"exit0", "exit1", "killed"}
    /\ errors' = IF worker = "exit0" THEN 0 ELSE errors + 1
    /\ failed' = IF worker = "exit0"
                 THEN failed
                 ELSE failed \cup {group[i] : i \in 1 .. Len(group)}
    /\ pc' = IF errors' > CHILD_ERROR_MAX THEN "exited"
             ELSE IF worker = "exit0" THEN "getdef" ELSE "fork"
    /\ worker' = "none"
    /\ unburned' = <<>>
    /\ UNCHANGED <<config, collecting, store, channel, removed, restarts>>

\* waitpid() and the count of consecutive errors.
Reap ==
    /\ pc = "wait"
    /\ worker \in {"exit0", "exit1", "killed"}
    /\ errors' = IF worker = "exit0" THEN 0 ELSE errors + 1
    /\ failed' = IF worker = "exit0"
                 THEN failed
                 ELSE failed \cup {group[i] : i \in 1 .. Len(group)}
    /\ pc' = IF errors' > CHILD_ERROR_MAX THEN "exited" ELSE "getdef"
    /\ worker' = "none"
    /\ unburned' = <<>>
    /\ UNCHANGED <<config, collecting, store, channel, removed, restarts>>

Parent == OpenShm \/ CreateTree \/ GetDef \/ Fork \/ Reap
Worker == ReadFiles \/ Burn \/ BurnDone \/ StoreColumn \/ IncrementN1 \/ WriteTree

Next == Parent \/ Restart \/ ReadName \/ EndOfFeed \/ Worker \/ WorkerFails \/ WorkerKilled

Spec == Init /\ [][Next]_vars

-----------------------------------------------------------------------------
Members(s) == {s[i] : i \in 1 .. Len(s)}
StoredIn(c) == UNION {Members(segments[c][i].files) : i \in 1 .. Len(segments[c])}

Segment == [t1 : Nat, len : Nat, files : Seq(1 .. MaxFiles)]

TypeInv ==
    /\ burn \in BOOLEAN /\ min_samples_segment \in MinSamples
    /\ pc \in {"shm", "tree", "getdef", "collect", "fork", "wait", "exited"}
    /\ ibuf \in 0 .. files_per_segment - 1
    /\ acc_samples \in Nat
    /\ group \in Seq(1 .. MaxFiles) /\ Len(group) <= files_per_segment
    /\ last \in 0 .. MaxFiles
    /\ n1 \in Nat /\ errors \in 0 .. CHILD_ERROR_MAX + 1
    /\ worker \in {"none", "read", "burn", "store", "count", "write",
                   "exit0", "exit1", "killed"}
    /\ unburned \in Seq(1 .. MaxFiles)
    /\ channel \in 1 .. Timebase + 1
    /\ segments \in [Column -> Seq(Segment)]
    /\ removed \subseteq 1 .. MaxFiles /\ failed \subseteq 1 .. MaxFiles
    /\ unmarked \in BOOLEAN /\ skipped \in BOOLEAN /\ restarts \in 0 .. MaxRestarts

\* In every column the segments hold the files in the order of the feed, and
\* no file twice, also after workers have failed, and when the program was
\* started again.
StoredInOrder ==
    \A c \in Column : \A i \in 1 .. Len(segments[c]) :
        LET f == segments[c][i].files IN
        /\ \A j \in 1 .. Len(f) - 1 : f[j] < f[j + 1]
        /\ i > 1 => LET e == segments[c][i - 1].files IN e[Len(e)] < f[1]

\* A segment is stored at the time of its first file when every group began
\* with an .id file that has its time, whatever happened to earlier workers,
\* and after a restart; and without .id files when no worker failed, no file
\* was dropped, groups are full and the program was not started again.
SegmentTimesTrue ==
    \/ unmarked
       /\ (failed # {} \/ skipped \/ restarts > 0 \/ min_samples_segment # -1
           \/ worker \in {"exit1", "killed"})
    \/ \A c \in Column : \A i \in 1 .. Len(segments[c]) :
           segments[c][i].t1 = segments[c][i].files[1] - 1

\* A segment is as long as its files when groups are closed by their number.
\* (With MDS_MIN_SAMPLES_SEGMENT a short group is stored at full length.)
SegmentLengthTrue ==
    min_samples_segment = -1 =>
        \A c \in Column : \A i \in 1 .. Len(segments[c]) :
            segments[c][i].len = Len(segments[c][i].files)

\* A file that has been burned is stored in every column or belongs to the
\* worker in progress or to one that failed: nothing else loses data.
BurnedFilesAccounted ==
    \A p \in removed :
        \/ \A c \in Column : p \in StoredIn(c)
        \/ p \in failed
        \/ worker # "none" /\ p \in Members(group)

\* Between groups the columns hold the same files, but for those of groups
\* whose worker failed half way.
ColumnsAgree ==
    worker = "none" =>
        \A c, d \in Column : StoredIn(c) \ failed = StoredIn(d) \ failed
=============================================================================
