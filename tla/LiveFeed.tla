------------------------------ MODULE LiveFeed ------------------------------
(***************************************************************************)
(* The event pipeline of ProcessController.cpp: the run loop of            *)
(* LiveFeedProcessController, the event validator, and the worker process  *)
(* that LivePrePostProcessController forks for each line.  Lines come from *)
(* a CommandFeed (the promise CommandBuffer keeps with maxq > 2), or from  *)
(* an ordinary file (CommandBufferDbg), whose end ends the program.        *)
(*                                                                         *)
(* A line is its arrival number; what it says is chosen when it is taken.  *)
(* The data the worker reads is outside the model: it decides how many     *)
(* events are found and whether a file is missing.                         *)
(***************************************************************************)
EXTENDS Integers, Sequences, FiniteSets, SequencesExt

CONSTANTS
    Triples,        \* blocks123 of the event lines: before, during, after
    CommentLine,    \* a line isComment() skips
    BadLine,        \* a line ValidatorData::create() cannot scan
    MaxLines,       \* bound: lines in the feed
    MaxEvents,      \* bound: events found in the blocks of one line
    FailCodes,      \* exit codes of a worker that gives up: exit(-1), exit(-errno)
    Garbage         \* what an uninitialized wait status can decode to

\* A block that is absent from the triple.
NoBlock == 999

Lines == Triples \cup {CommentLine, BadLine}

ASSUME BoundsAssumption == MaxLines \in Nat /\ MaxEvents \in 0 .. 255
ASSUME LinesAssumption ==
    /\ Triples \subseteq [1 .. 3 -> Int]
    /\ CommentLine \notin Triples /\ BadLine \notin Triples
    /\ CommentLine # BadLine
ASSUME CodesAssumption ==
    FailCodes \subseteq MaxEvents + 1 .. 255 /\ Garbage \subseteq 0 .. 255

VARIABLES
    lossy, arrived, taken, lost, given,     \* the feed
    text,           \* what the line in lm_line says
    use_fork, rc_previous, quit_on_stop,    \* environment settings
    from_file,      \* the feed is a file, a CommandBufferDbg
    idle,           \* /dev/dtacq/state reads 0: the acquisition has stopped
    pc,             \* where the loop is
    vd, freed,      \* validatorData: the line it was made for (0: null pointer),
                    \* and whether the object it points to has been deleted
    previous,       \* last block accepted by tblockAlreadyKnown
    evnum,          \* ValidatorData::evnum
    rc,             \* what processTblock returned
    worker,         \* "none", "process", "dump", "exited" or "killed"
    wevents, wdone, wcode,      \* events found, events dumped, exit status
    published,      \* history: <<event number, line>> of each finished directory
    accepted, acks, \* history: lines accepted, lines written back
    worked,         \* history: blocks given to processRawFiles
    mishaps         \* history: "rejected", "failed", "killed", "nofork"

feed == <<lossy, arrived, taken, lost, given>>
config == <<use_fork, rc_previous, quit_on_stop, from_file>>
validator == <<vd, freed, previous>>
work == <<worker, wevents, wdone, wcode, published>>
log == <<accepted, acks, worked, mishaps>>
vars == <<feed, text, config, idle, pc, validator, evnum, rc, work, log>>

Feed == INSTANCE CommandFeed

line == given
Stopped == pc \in {"exited", "undefined", "complete"}

Init ==
    /\ Feed!Init /\ ~lossy
    /\ text = CommentLine
    /\ use_fork \in BOOLEAN /\ rc_previous \in BOOLEAN
    /\ quit_on_stop \in BOOLEAN /\ from_file \in BOOLEAN
    /\ idle = FALSE
    /\ pc = "next"
    /\ vd = 0 /\ freed = FALSE /\ previous = NoBlock
    /\ evnum = 0 /\ rc = 0
    /\ worker = "none" /\ wevents = 0 /\ wdone = 0 /\ wcode = 0
    /\ published = {}
    /\ accepted = <<>> /\ acks = <<>> /\ worked = <<>> /\ mishaps = {}

-----------------------------------------------------------------------------
\* The device: it writes event lines while the acquisition runs.  Its state is
\* only looked at with QUIT_ON_STOP.

Arrive ==
    /\ ~idle
    /\ arrived < MaxLines
    /\ Feed!Arrive
    /\ UNCHANGED <<text, config, idle, pc, validator, evnum, rc, work, log>>

Stop ==
    /\ quit_on_stop /\ ~idle
    /\ idle' = TRUE
    /\ UNCHANGED <<feed, text, config, pc, validator, evnum, rc, work, log>>

-----------------------------------------------------------------------------
\* The validator.

\* tblockAlreadyKnown() of one block: what is left to process so far, and the
\* new value of previous.
SelectBlock(acc, b) ==
    IF b = NoBlock \/ (b = acc.previous /\ ~rc_previous)
    THEN acc
    ELSE [previous |-> b, keep |-> Append(acc.keep, b)]

\* The loop over the nblocks = 3 blocks of a line.
Selected(blocks) ==
    LET first == SelectBlock([previous |-> previous, keep |-> <<>>], blocks[1])
        second == SelectBlock(first, blocks[2])
    IN  SelectBlock(second, blocks[3])

GetLine ==
    /\ pc = "next"
    /\ Feed!Give
    /\ text' \in Lines
    /\ pc' = "validate"
    /\ UNCHANGED <<config, idle, validator, evnum, rc, work, log>>

\* CommandBufferDbg::getNext(): _exit(0) at the end of the file, where lines
\* may still be appended.
EndOfFile ==
    /\ pc = "next" /\ from_file /\ taken = arrived
    /\ pc' = "exited"
    /\ UNCHANGED <<feed, text, config, idle, validator, evnum, rc, work, log>>

\* isComment(): continue, past the quit test.
Comment ==
    /\ pc = "validate"
    /\ text = CommentLine
    /\ pc' = "next"
    /\ UNCHANGED <<feed, text, config, idle, validator, evnum, rc, work, log>>

\* isValidInput() first deletes the previous line's record.  The pointer is
\* not reset: deleting it a second time is undefined.
DoubleDelete ==
    /\ pc = "validate"
    /\ text # CommentLine
    /\ vd # 0 /\ freed
    /\ pc' = "undefined"
    /\ UNCHANGED <<feed, text, config, idle, validator, evnum, rc, work, log>>

\* Mutant of Accept: an old record is kept.
AcceptKeepsOld ==
    /\ pc = "validate" /\ text \in Triples
    /\ LET s == Selected(text) IN
       /\ s.keep # <<>>
       /\ previous' = s.previous
       /\ worked' = worked \o s.keep
    /\ vd' = IF vd = 0 THEN line ELSE vd
    /\ freed' = FALSE
    /\ accepted' = Append(accepted, line)
    /\ pc' = "pre"
    /\ UNCHANGED <<feed, text, config, idle, evnum, rc, work, acks, mishaps>>

Accept ==
    /\ pc = "validate"
    /\ text \in Triples
    /\ ~(vd # 0 /\ freed)
    /\ LET s == Selected(text) IN
       /\ s.keep # <<>>
       /\ previous' = s.previous
       /\ worked' = worked \o s.keep
    /\ vd' = line
    /\ freed' = FALSE
    /\ accepted' = Append(accepted, line)
    /\ pc' = "pre"
    /\ UNCHANGED <<feed, text, config, idle, evnum, rc, work, acks, mishaps>>

\* The scan fails, or no block is left.  (The new record of a line without
\* blocks is then unreachable: a leak.)
Reject ==
    /\ pc = "validate"
    /\ text # CommentLine
    /\ ~(vd # 0 /\ freed)
    /\ IF text = BadLine
       THEN UNCHANGED previous
       ELSE /\ Selected(text).keep = <<>>
            /\ previous' = Selected(text).previous
    /\ freed' = (vd # 0)
    /\ mishaps' = mishaps \cup {"rejected"}
    /\ pc' = "check"
    /\ UNCHANGED <<feed, text, config, idle, vd, evnum, rc, work, accepted,
                   acks, worked>>

-----------------------------------------------------------------------------
\* processTblock(): the parent's side.

\* PP_PREP_CALLOUT, then fork(); without use_fork the loop does the work itself.
Fork ==
    /\ pc = "pre"
    /\ worker' = "process"
    /\ pc' = "wait"
    /\ UNCHANGED <<feed, text, config, idle, validator, evnum, rc, wevents, wdone,
                   wcode, published, log>>

\* fork() returns -1, taken for a child's pid; wait() fails and leaves status
\* uninitialized.
ForkFails ==
    /\ pc = "pre" /\ use_fork
    /\ rc' \in Garbage
    /\ mishaps' = mishaps \cup {"nofork"}
    /\ pc' = "post"
    /\ UNCHANGED <<feed, text, config, idle, validator, evnum, work, accepted,
                   acks, worked>>

\* spawn_task() ends the program when a call-out fails.
CalloutFails ==
    /\ pc = "pre" \/ (pc = "post" /\ rc > 0)
    /\ pc' = "exited"
    /\ evnum' = IF pc = "post" THEN evnum + rc ELSE evnum
    /\ UNCHANGED <<feed, text, config, idle, validator, rc, work, log>>

\* Mutant of Reap: a worker that did not exit is waited for once more.
ReapExited ==
    /\ pc = "wait"
    /\ worker = "exited"
    /\ rc' = wcode
    /\ worker' = "none" /\ wevents' = 0 /\ wdone' = 0 /\ wcode' = 0
    /\ pc' = "post"
    /\ UNCHANGED <<feed, text, config, idle, validator, evnum, published,
                   log>>

\* wait() and the decoding of its status.
Reap ==
    /\ pc = "wait"
    /\ worker \in {"exited", "killed"}
    /\ rc' = IF worker = "exited" THEN wcode ELSE 0
    /\ worker' = "none" /\ wevents' = 0 /\ wdone' = 0 /\ wcode' = 0
    /\ pc' = "post"
    /\ UNCHANGED <<feed, text, config, idle, validator, evnum, published,
                   log>>

\* Nothing is written to a file.
writeBack == IF from_file THEN acks ELSE Append(acks, line)

\* Mutants of Finish: evnum not advanced; no answer when there are no events.
FinishForgets ==
    /\ pc = "post"
    /\ rc' = 0
    /\ acks' = writeBack
    /\ pc' = "check"
    /\ UNCHANGED <<feed, text, config, idle, validator, evnum, work,
                   accepted, worked, mishaps>>

FinishSilently ==
    /\ pc = "post"
    /\ rc' = 0
    /\ evnum' = IF rc > 0 THEN evnum + rc ELSE evnum
    /\ acks' = IF rc > 0 THEN writeBack ELSE acks
    /\ pc' = "check"
    /\ UNCHANGED <<feed, text, config, idle, validator, work, accepted,
                   worked, mishaps>>

\* evnum += rc, PP_POST_CALLOUT, then the run loop's writeBack().
Finish ==
    /\ pc = "post"
    /\ rc' = 0
    /\ evnum' = IF rc > 0 THEN evnum + rc ELSE evnum
    /\ acks' = writeBack
    /\ pc' = "check"
    /\ UNCHANGED <<feed, text, config, idle, validator, work, accepted,
                   worked, mishaps>>

\* quit_on_stop && !hasDataAvailable() ...; a file always has data.
Check ==
    /\ pc = "check"
    /\ pc' = IF quit_on_stop /\ ~from_file /\ taken = arrived THEN "quit" ELSE "next"
    /\ UNCHANGED <<feed, text, config, idle, validator, evnum, rc, work, log>>

\* ... && acq_state_idle(), read from another file a moment later.
Quit ==
    /\ pc = "quit"
    /\ pc' = IF idle THEN "complete" ELSE "next"
    /\ UNCHANGED <<feed, text, config, idle, validator, evnum, rc, work, log>>

Parent ==
    \/ GetLine \/ EndOfFile \/ Comment \/ DoubleDelete \/ Accept \/ Reject
    \/ Fork \/ Reap \/ Finish \/ Check \/ Quit

-----------------------------------------------------------------------------
\* The worker: processRawFiles(), then dump() and exit(rc).

ProcessRawFiles ==
    /\ worker = "process"
    /\ worker' = "dump"
    /\ wevents' \in 0 .. MaxEvents
    /\ UNCHANGED <<feed, text, config, idle, pc, validator, evnum, rc, wdone, wcode,
                   published, log>>

\* One turn of dump()'s loop: WorkingDir is made, filled and renamed.
DumpEvent ==
    /\ worker = "dump"
    /\ wdone < wevents
    /\ wdone' = wdone + 1
    /\ published' = published \cup {<<evnum + wdone + 1, vd>>}
    /\ UNCHANGED <<feed, text, config, idle, pc, validator, evnum, rc, worker, wevents,
                   wcode, log>>

WorkerExits ==
    /\ worker = "dump"
    /\ wdone = wevents
    /\ worker' = "exited"
    /\ wcode' = wevents
    /\ UNCHANGED <<feed, text, config, idle, pc, validator, evnum, rc, wevents, wdone,
                   published, log>>

\* A file cannot be opened or mapped, a directory cannot be made: exit().
WorkerFails ==
    /\ worker \in {"process", "dump"}
    /\ mishaps' = mishaps \cup {"failed"}
    /\ IF use_fork
       THEN worker' = "exited" /\ wcode' \in FailCodes /\ UNCHANGED pc
       ELSE pc' = "exited" /\ worker' = "none" /\ UNCHANGED wcode
    /\ UNCHANGED <<feed, text, config, idle, validator, evnum, rc, wevents, wdone,
                   published, accepted, acks, worked>>

\* A signal: with use_fork the parent survives.
WorkerKilled ==
    /\ worker \in {"process", "dump"}
    /\ mishaps' = mishaps \cup {"killed"}
    /\ IF use_fork
       THEN worker' = "killed" /\ UNCHANGED pc
       ELSE pc' = "exited" /\ worker' = "none"
    /\ UNCHANGED <<feed, text, config, idle, validator, evnum, rc, wevents, wdone, wcode,
                   published, accepted, acks, worked>>

Worker == ProcessRawFiles \/ DumpEvent \/ WorkerExits

Next ==
    \/ Arrive \/ Stop
    \/ Parent \/ ForkFails \/ CalloutFails
    \/ Worker \/ WorkerFails \/ WorkerKilled

Spec == Init /\ [][Next]_vars

\* Both processes are runnable whenever they are not waiting for each other or
\* for the feed.
FairSpec == Spec /\ WF_vars(Parent) /\ WF_vars(Worker)

-----------------------------------------------------------------------------
TypeInv ==
    /\ arrived \in 0 .. MaxLines /\ taken \in 0 .. arrived
    /\ given \in 0 .. taken /\ lost = 0 /\ lossy = FALSE
    /\ text \in Lines
    /\ use_fork \in BOOLEAN /\ rc_previous \in BOOLEAN
    /\ quit_on_stop \in BOOLEAN /\ from_file \in BOOLEAN /\ idle \in BOOLEAN
    /\ pc \in {"next", "validate", "pre", "wait", "post", "check", "quit",
               "exited", "undefined", "complete"}
    /\ vd \in 0 .. MaxLines /\ freed \in BOOLEAN
    /\ evnum \in Nat /\ rc \in 0 .. 255
    /\ worker \in {"none", "process", "dump", "exited", "killed"}
    /\ wevents \in 0 .. MaxEvents /\ wdone \in 0 .. wevents
    /\ wcode \in 0 .. 255
    /\ mishaps \subseteq {"rejected", "failed", "killed", "nofork"}

\* While a line is processed, in either process, validatorData points to the
\* live record of that very line.
ValidatorIsCurrent ==
    pc \in {"pre", "wait", "post"} => vd = line /\ ~freed

\* An event directory is never replaced by the directory of another line's
\* event, unless a worker was killed or could not be forked: the parent's
\* count of events keeps ahead of what the workers have published, even when a
\* worker gives up half way.  With no mishap at all it is exactly their number.
EventNumbersUnique ==
    /\ mishaps \cap {"killed", "nofork"} = {} =>
           \A p, q \in published : p[1] = q[1] => p = q
    /\ mishaps \subseteq {"rejected"} /\ pc \notin {"wait", "post", "exited"} =>
           evnum = Cardinality(published)

\* Every accepted line of a device is answered, once, in order, and before the
\* next line is taken: the answers lag by at most the line in progress.
AnsweredInOrder ==
    ~ from_file =>
    /\ IsPrefix(acks, accepted)
    /\ pc \in {"next", "validate", "check", "quit", "complete"} => acks = accepted

\* With ACQ_DEMUX_PROCESS_PREVIOUS=0 no block is processed twice running, also
\* across lines.
NoBlockTwiceRunning ==
    ~rc_previous =>
        \A i \in 1 .. Len(worked) - 1 : worked[i] # worked[i + 1]

\* A line in the feed is in the end taken, unless the program stops.
EveryLineTaken == \A n \in 1 .. MaxLines : arrived >= n ~> (taken >= n \/ Stopped)

\* ProcessController.h on processTblock: "returns # events, <0 :: error".
ReturnsEventsOrError ==
    pc = "post" => rc < 0 \/ rc = Cardinality({p \in published : p[2] = line})
=============================================================================
