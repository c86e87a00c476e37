--------------------------- MODULE MdsController ---------------------------
(***************************************************************************)
(* MdsProcessController::runArgs(): a loop that takes one file name at a   *)
(* time from a feed (getDef), forks a worker that stores the file in an    *)
(* MDSplus tree, and waits for it, under the eye of a watchdog process     *)
(* that should kill it when the feed falls silent.                         *)
(*                                                                         *)
(* Files are numbered in the order the feed names them.                    *)
(***************************************************************************)
EXTENDS Watchdog

CONSTANTS
    CHILD_ERROR_MAX,    \* consecutive failures tolerated (10)
    MaxLines            \* bound: lines of the feed

ASSUME ControllerAssumption == CHILD_ERROR_MAX \in Nat /\ MaxLines \in Nat

VARIABLES
    pc,             \* "getdef", "fgets", "fork", "wait", "exited", "killed", "aborted"
    timeout_set,    \* MDS_TIMEOUT is in the environment
    first_time,
    alarm,          \* history: the argument of the last set_alarm()
    nlines,         \* lines read from the feed
    file,           \* the file named last, 0 before the first
    errors,         \* consecutive_child_errors
    rawblock,
    child,          \* "none", "nofork", "run", "stored", "unlinked",
                    \* "exit0", "exit1", "killed"
    childbuf,       \* the worker's inherited copy of outbuf
    stored, unlinked,   \* history: files in the tree, files removed
    oddities        \* history: "comment", "overflow", "nofork", "backlog"

feed == <<nlines, file>>
work == <<child, childbuf, stored, unlinked>>
vars == <<channel, pc, timeout_set, first_time, alarm, feed, errors, rawblock,
          work, oddities>>

Running == pc \notin {"exited", "killed", "aborted"}
Writers == Running \/ child \in {"run", "stored", "unlinked"}

Init ==
    /\ WatchdogInit
    /\ pc = "getdef"
    /\ timeout_set \in BOOLEAN
    /\ first_time = TRUE /\ alarm = 0
    /\ nlines = 0 /\ file = 0
    /\ errors = 0 /\ rawblock = 0
    /\ child = "none" /\ childbuf = <<>>
    /\ stored = {} /\ unlinked = {}
    /\ oddities = {}

-----------------------------------------------------------------------------
\* getDef().

\* set_alarm(c) by the controller, which goes on to the control point next
\* unless the buffer overflows into a broken pipe.
Alarm(c, next) ==
    /\ alarm' = c
    /\ IF timeout_set THEN SetAlarm(c) ELSE UNCHANGED channel
    /\ oddities' = oddities \cup (IF timeout_set /\ Overflows THEN {"overflow"} ELSE {})
    /\ pc' = IF timeout_set /\ Overflows /\ Broken THEN "killed" ELSE next

GetDef ==
    /\ pc = "getdef"
    /\ first_time' = FALSE
    /\ IF first_time
       THEN pc' = "fgets" /\ UNCHANGED <<channel, alarm, oddities>>
       ELSE Alarm(1, "fgets")
    /\ UNCHANGED <<timeout_set, feed, errors, rawblock, work>>

\* Mutant of ReadFile: the alarm is not stopped before the work.
ReadFileArmed ==
    /\ pc = "fgets" /\ nlines < MaxLines
    /\ nlines' = nlines + 1 /\ file' = file + 1
    /\ IF timeout_set THEN SetAlarm(1) ELSE UNCHANGED channel
    /\ pc' = "fork"
    /\ UNCHANGED <<timeout_set, first_time, alarm, errors, rawblock, work,
                   oddities>>

ReadFile ==
    /\ pc = "fgets"
    /\ nlines < MaxLines
    /\ nlines' = nlines + 1
    /\ file' = file + 1
    /\ Alarm(0, "fork")
    /\ UNCHANGED <<timeout_set, first_time, errors, rawblock, work>>

\* A comment stops the alarm and goes back to fgets() without restarting it.
ReadComment ==
    /\ pc = "fgets"
    /\ nlines < MaxLines
    /\ nlines' = nlines + 1
    /\ alarm' = 0
    /\ IF timeout_set THEN SetAlarm(0) ELSE UNCHANGED channel
    /\ oddities' = oddities \cup {"comment"}
        \cup (IF timeout_set /\ Overflows THEN {"overflow"} ELSE {})
    /\ pc' = IF timeout_set /\ Overflows /\ Broken THEN "killed" ELSE "fgets"
    /\ UNCHANGED <<timeout_set, first_time, file, errors, rawblock, work>>

\* exit() flushes what is left in the buffer.
ParentExits ==
    /\ FlushAtExit(outbuf)
    /\ outbuf' = <<>>
    /\ pc' = "exited"
    /\ UNCHANGED <<wbuf, enabled, wdt, negative>>

EndOfFeed ==
    /\ pc = "fgets"
    /\ ParentExits
    /\ UNCHANGED <<timeout_set, first_time, alarm, feed, errors, rawblock, work, oddities>>

\* A name that is not a readable file: set_alarm(0), exit(1).
Unreadable ==
    /\ pc = "fgets"
    /\ nlines < MaxLines
    /\ nlines' = nlines + 1
    /\ alarm' = 0
    /\ IF timeout_set
       THEN /\ pipe' = IF Broken THEN pipe ELSE pipe \o Append(outbuf, 0)
            /\ outbuf' = <<>>
            /\ wdt' = IF wdt = "none" THEN "running" ELSE wdt
            /\ UNCHANGED <<wbuf, enabled, negative>>
       ELSE UNCHANGED channel
    /\ pc' = "exited"
    /\ UNCHANGED <<timeout_set, first_time, file, errors, rawblock, work,
                   oddities>>

-----------------------------------------------------------------------------
\* runArgs(): fork(), and the worker.

Fork ==
    /\ pc = "fork"
    /\ child' = "run"
    /\ childbuf' = outbuf
    /\ pc' = "wait"
    /\ UNCHANGED <<channel, timeout_set, first_time, alarm, feed, errors, rawblock,
                   stored, unlinked, oddities>>

ForkFails ==
    /\ pc = "fork"
    /\ child' = "nofork"
    /\ oddities' = oddities \cup {"nofork"}
    /\ pc' = "wait"
    /\ UNCHANGED <<channel, timeout_set, first_time, alarm, feed, errors, rawblock,
                   childbuf, stored, unlinked>>

WorkerUnchanged ==
    UNCHANGED <<pc, timeout_set, first_time, alarm, feed, errors, rawblock, oddities>>

\* Mutant of Stores: unlink() before dump().
UnlinksFirst ==
    /\ child = "run"
    /\ child' = "stored"
    /\ unlinked' = unlinked \cup {file}
    /\ UNCHANGED <<channel, childbuf, stored>>
    /\ WorkerUnchanged

\* processRawFiles(), the peers' dumps and dump().
Stores ==
    /\ child = "run"
    /\ child' = "stored"
    /\ stored' = stored \cup {file}
    /\ UNCHANGED <<channel, childbuf, unlinked>>
    /\ WorkerUnchanged

Unlinks ==
    /\ child = "stored"
    /\ child' = "unlinked"
    /\ unlinked' = unlinked \cup {file}
    /\ UNCHANGED <<channel, childbuf, stored>>
    /\ WorkerUnchanged

\* exit(code): the inherited buffer is flushed; SIGPIPE when wdt has gone.
WorkerExits(from, status) ==
    /\ child = from
    /\ child' = IF Broken /\ childbuf # <<>> THEN "killed" ELSE status
    /\ FlushAtExit(childbuf)
    /\ UNCHANGED <<outbuf, wbuf, enabled, wdt, negative, childbuf, stored, unlinked>>
    /\ WorkerUnchanged

WorkerSucceeds == WorkerExits("unlinked", "exit0")

\* A raw file, the tree's segments or its write() fail: exit(1), (2), (3).
WorkerFails == WorkerExits("run", "exit1")

WorkerKilled ==
    /\ child \in {"run", "stored", "unlinked"}
    /\ child' = "killed"
    /\ UNCHANGED <<channel, childbuf, stored, unlinked>>
    /\ WorkerUnchanged

-----------------------------------------------------------------------------
\* runArgs(): waitpid() and the count of errors.

Ended == {"exit0", "exit1", "killed"}

ReapUnchanged == UNCHANGED <<timeout_set, first_time, alarm, feed, stored, unlinked>>

ReapSuccess ==
    /\ pc = "wait"
    /\ child = "exit0"
    /\ rawblock' = rawblock + 1
    /\ errors' = 0
    /\ child' = "none" /\ childbuf' = <<>>
    /\ pc' = "getdef"
    /\ UNCHANGED <<channel, oddities>>
    /\ ReapUnchanged

\* if (++consecutive_child_errors > CHILD_ERROR_MAX) exit(1);
CountError ==
    /\ errors' = errors + 1
    /\ child' = "none" /\ childbuf' = <<>>
    /\ IF errors' > CHILD_ERROR_MAX
       THEN ParentExits
       ELSE pc' = "getdef" /\ UNCHANGED channel

ReapFailure ==
    /\ pc = "wait"
    /\ child \in {"exit1", "killed"}
    /\ rawblock' = IF child = "exit1" THEN rawblock + 1 ELSE rawblock
    /\ CountError
    /\ UNCHANGED oddities
    /\ ReapUnchanged

\* waitpid(-1) after a failed fork().  Without a watchdog there is no child:
\* the result is -1, which equals worker, and status is uninitialized.
ReapNoForkNoChild ==
    /\ pc = "wait"
    /\ child = "nofork" /\ wdt = "none"
    /\ \/ /\ rawblock' = rawblock + 1
          /\ errors' = 0
          /\ child' = "none" /\ childbuf' = <<>>
          /\ pc' = "getdef"
          /\ UNCHANGED channel
       \/ /\ rawblock' \in {rawblock, rawblock + 1}
          /\ CountError
    /\ UNCHANGED oddities
    /\ ReapUnchanged

\* With a watchdog it waits for wdt to end, and assert(result == worker) fails.
ReapNoForkAssert ==
    /\ pc = "wait"
    /\ child = "nofork" /\ Broken
    /\ pc' = "aborted"
    /\ UNCHANGED <<channel, timeout_set, first_time, alarm, feed, errors, rawblock,
                   work, oddities>>

-----------------------------------------------------------------------------
\* The watchdog process.

WdtUnchanged ==
    UNCHANGED <<timeout_set, first_time, alarm, feed, errors, rawblock, work>>

WatchdogReads ==
    /\ WdtReads
    /\ oddities' = oddities \cup (IF Backlog THEN {"backlog"} ELSE {})
    /\ UNCHANGED pc
    /\ WdtUnchanged

\* Mutant of WatchdogFires: the end of the pipe is not taken for a time-out.
WatchdogFiresOnTimeout ==
    /\ Writers /\ WdtTimesOut
    /\ pc' = IF Running THEN "killed" ELSE pc
    /\ UNCHANGED oddities
    /\ WdtUnchanged

WatchdogFires ==
    /\ WdtTimesOut
    /\ Writers \/ wbuf = <<>>
    /\ pc' = IF Running THEN "killed" ELSE pc
    /\ UNCHANGED oddities
    /\ WdtUnchanged

WatchdogAtEOF ==
    /\ ~Writers
    /\ WdtAtEOF
    /\ UNCHANGED <<pc, oddities>>
    /\ WdtUnchanged

Parent ==
    \/ GetDef \/ Fork
    \/ ReapSuccess \/ ReapFailure \/ ReapNoForkNoChild \/ ReapNoForkAssert
Feed == ReadFile \/ ReadComment \/ EndOfFeed \/ Unreadable
Worker == Stores \/ Unlinks \/ WorkerSucceeds
WatchdogStep == WatchdogReads \/ WatchdogFires \/ WatchdogAtEOF

Next == Parent \/ Feed \/ ForkFails \/ Worker \/ WorkerFails \/ WorkerKilled \/ WatchdogStep

Spec == Init /\ [][Next]_vars

\* The processes run; the feed may fall silent at any time.
FairSpec == Spec /\ WF_vars(Parent) /\ WF_vars(Worker) /\ WF_vars(WatchdogStep)

-----------------------------------------------------------------------------
TypeInv ==
    /\ WatchdogTypeInv
    /\ pc \in {"getdef", "fgets", "fork", "wait", "exited", "killed", "aborted"}
    /\ timeout_set \in BOOLEAN /\ first_time \in BOOLEAN /\ alarm \in Command
    /\ nlines \in 0 .. MaxLines /\ file \in 0 .. nlines
    /\ errors \in 0 .. CHILD_ERROR_MAX + 1 /\ rawblock \in 0 .. file
    /\ child \in Ended \cup {"none", "nofork", "run", "stored", "unlinked"}
    /\ childbuf \in Seq(Command)
    /\ stored \subseteq 1 .. file /\ unlinked \subseteq 1 .. file
    /\ oddities \subseteq {"comment", "overflow", "nofork", "backlog"}

\* A raw file is removed only once it is in the tree, whatever kills the
\* worker or the controller, and whenever.
NoDataLoss == unlinked \subseteq stored

\* What wdt acts on lags behind the commands that were sent.  As long as each
\* of its reads takes all there is in the pipe the watchdog kills no controller
\* on account of it, unless comment lines have put the commands out of step
\* and a full stdio buffer has been written out; and until then nothing else
\* (SIGPIPE) kills it either.
NoFalseKill ==
    "backlog" \notin oddities =>
        /\ "overflow" \notin oddities => pc # "killed"
        /\ "comment" \notin oddities => ~ (pc = "killed" /\ wdt = "fired")

\* After the feed has ended with the alarm set, the watchdog ends too.
WatchdogEnds == pc = "exited" /\ alarm = 1 /\ wdt = "running" ~> wdt # "running"

\* wdt.c: "If enabled and timeout => kill parents".  A controller that waits
\* with its alarm set for a feed that stays silent is killed, even where int
\* keeps the sign of a pointer.
HangIsKilled ==
    pc = "fgets" /\ alarm = 1 /\ timeout_set /\ wdt = "running" /\ ~negative
        ~> pc # "fgets"
=============================================================================
