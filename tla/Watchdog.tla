------------------------------ MODULE Watchdog ------------------------------
(***************************************************************************)
(* The channel between MdsProcessController::set_alarm() and the wdt       *)
(* process (wdt.c, fgets_timeout.c): commands 1 (enable) and 0 (disable)   *)
(* pass through the stdio buffer of the writer, a pipe, and the stdio      *)
(* buffer of wdt.  Nothing flushes the first buffer but its own filling    *)
(* up and exit(); fgets_t() polls the pipe and then reads the second one,  *)
(* which one read() fills with as much of the pipe as it takes.            *)
(***************************************************************************)
EXTENDS Integers, Sequences

CONSTANT BufCap     \* commands that fit in a stdio buffer (4096 bytes, 2 each)

\* The size of a stdio buffer is a power of two.
ASSUME BufCapAssumption == BufCap \in Nat \ {0} /\ BufCap % 2 = 0

VARIABLES
    outbuf,     \* stdio buffer of the controller: commands not yet written
    pipe,       \* commands written and not yet read
    wbuf,       \* stdio buffer of wdt: commands read and not yet returned
    enabled,    \* local of wdt()
    wdt,        \* "none", "running", "fired" (it sends the signal), "ended"
    negative    \* the pointer fgets() returns is negative as an int

channel == <<outbuf, pipe, wbuf, enabled, wdt, negative>>

Command == {0, 1}

WatchdogInit ==
    /\ outbuf = <<>> /\ pipe = <<>> /\ wbuf = <<>>
    /\ enabled = FALSE
    /\ wdt = "none"
    /\ negative \in BOOLEAN

\* wdt has gone: a write to the pipe raises SIGPIPE.
Broken == wdt \in {"fired", "ended"}

-----------------------------------------------------------------------------
\* The writer.

Overflows == Len(outbuf) = BufCap

\* set_alarm(): spawns wdt the first time, then fprintf() without fflush().
SetAlarm(c) ==
    /\ outbuf' = IF Overflows THEN <<c>> ELSE Append(outbuf, c)
    /\ pipe' = IF Overflows THEN pipe \o outbuf ELSE pipe
    /\ wdt' = IF wdt = "none" THEN "running" ELSE wdt
    /\ UNCHANGED <<wbuf, enabled, negative>>

\* exit() of a process that holds the commands cmds in its copy of the buffer.
FlushAtExit(cmds) == pipe' = IF Broken THEN pipe ELSE pipe \o cmds

-----------------------------------------------------------------------------
\* wdt().

\* What wdt() does with the line fgets() returned.
Returned(c) ==
    IF negative
    THEN wdt' = "ended" /\ UNCHANGED enabled
    ELSE enabled' = (c = 1) /\ UNCHANGED wdt

\* A read() for an empty buffer leaves commands in the pipe.
Backlog == wbuf = <<>> /\ Len(pipe) > BufCap

\* poll() sees data: fgets() takes a line that is already buffered, and only
\* when there is none does it fill its buffer from the pipe.
WdtReads ==
    /\ wdt = "running"
    /\ pipe # <<>>
    /\ LET size == IF Backlog THEN BufCap ELSE Len(pipe)
           lines == IF wbuf = <<>> THEN SubSeq(pipe, 1, size) ELSE wbuf
       IN  /\ wbuf' = Tail(lines)
           /\ Returned(Head(lines))
           /\ pipe' = IF wbuf = <<>> THEN SubSeq(pipe, size + 1, Len(pipe)) ELSE pipe
    /\ UNCHANGED <<outbuf, negative>>

\* poll() times out on an empty pipe, whatever is still buffered.
WdtTimesOut ==
    /\ wdt = "running"
    /\ pipe = <<>>
    /\ enabled
    /\ wdt' = "fired"
    /\ UNCHANGED <<outbuf, pipe, wbuf, enabled, negative>>

\* Every writer has gone: poll() returns at once, fgets() a buffered line or
\* NULL, which fgets_t() passes on as a time-out.
WdtAtEOF ==
    /\ wdt = "running"
    /\ pipe = <<>>
    /\ wbuf # <<>>
    /\ wbuf' = Tail(wbuf)
    /\ Returned(Head(wbuf))
    /\ UNCHANGED <<outbuf, pipe, negative>>

WatchdogTypeInv ==
    /\ outbuf \in Seq(Command) /\ Len(outbuf) <= BufCap
    /\ pipe \in Seq(Command)
    /\ wbuf \in Seq(Command) /\ Len(wbuf) < BufCap
    /\ enabled \in BOOLEAN /\ negative \in BOOLEAN
    /\ wdt \in {"none", "running", "fired", "ended"}
=============================================================================
