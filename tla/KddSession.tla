----------------------------- MODULE KddSession -----------------------------
(***************************************************************************)
(* KddTransport.cpp: the same commands through a device driver (outside    *)
(* this repository), by lines.  acqcmd() and acq2sh() have a file each,    *)
(* opened once and read and written through stdio; HostdrvTransport opens  *)
(* that of acq2sh() for each command anew.  The driver answers with lines  *)
(* of output, one that says ACQ32:ERROR when the command failed, and a     *)
(* line EOF.                                                               *)
(*                                                                         *)
(* The variables of Dt100Session are shared: a program has one transport.  *)
(***************************************************************************)
EXTENDS Dt100Session, SequencesExt

CONSTANTS
    Transports,     \* those a program may use
    LineOutputs,    \* the lengths of a command's output, in lines
    MaxResponse     \* maxresponse, in lines

ASSUME TransportsAssumption ==
    /\ Transports \subseteq {"dt100", "kdd", "hostdrv"}
    /\ LineOutputs \subseteq Nat
    /\ MaxResponse \in Nat

VARIABLES
    transport,  \* the one it uses
    fds,        \* "cmd" and "shell": lines of each file not yet read
    fd,         \* the file of the current command
    late,       \* history: files on which a command was given up
    wasLate     \* history: the current command was sent on such a file

kdd == <<transport, fds, fd, late, wasLate>>

\* KddTransport(): both files are opened.
KddInit ==
    /\ transport \in Transports
    /\ fds = [f \in {"cmd", "shell"} |-> <<>>]
    /\ fd = "cmd"
    /\ late = {} /\ wasLate = FALSE

-----------------------------------------------------------------------------
Line(n, kind) == << [kind |-> kind, cmd |-> n, val |-> 0] >>

Lines(n, len, ecode) ==
    Output(n, len) \o (IF ecode > 0 THEN Line(n, "ERROR") ELSE <<>>) \o Line(n, "EOF")

\* HostdrvTransport::acq2sh(): what was left in the old session is gone.
OwnSession(f) == transport = "hostdrv" /\ f = "shell"
Unread(f) == IF OwnSession(f) THEN <<>> ELSE fds[f]

\* fputs() of the command; the response is emptied.  Lines that stdio has
\* read ahead may keep it from writing.
SendLine(f) ==
    /\ transport # "dt100"
    /\ sock = "idle"
    /\ sent < MaxCommands
    /\ sent' = sent + 1
    /\ sock' = "reading" /\ response' = <<>>
    /\ fd' = f
    /\ wasLate' = (f \in late)
    /\ \E len \in LineOutputs, ecode \in ErrorCodes :
          /\ output' = len
          /\ code' = ecode
          /\ \/ fds' = [fds EXCEPT ![f] = Unread(f) \o Lines(sent', len, ecode)]
             \/ Unread(f) # <<>> /\ UNCHANGED fds
    /\ UNCHANGED <<net, rxbuf, leftover, overruns, closed, rc, transport, late>>

\* The next line of the current command's file.
Reads(kinds) ==
    /\ transport # "dt100" /\ sock = "reading" /\ fds[fd] # <<>>
    /\ Head(fds[fd]).kind \in kinds
    /\ fds' = [fds EXCEPT ![fd] = Tail(@)]
    /\ UNCHANGED <<net, rxbuf, sent, code, output, leftover, closed,
                   transport, fd, late, wasLate>>

\* The line is copied behind those before it.
CopyLine ==
    /\ Len(response) < MaxResponse
    /\ Reads({"output", "ERROR"})
    /\ response' = Append(response, Head(fds[fd]))
    /\ UNCHANGED <<overruns, sock, rc>>

\* strncpy() fills the response to its end and strlen() goes on behind it:
\* what the program does from here is not modelled.
CopyOverruns ==
    /\ Len(response) = MaxResponse
    /\ Reads({"output", "ERROR"})
    /\ overruns' = overruns + 1
    /\ sock' = "dead"
    /\ UNCHANGED <<rc, response>>

\* The line is EOF.  Of an empty response *(pr-1) is what lies before it in
\* memory; a newline there makes the length -1.
EndOfReply ==
    /\ Reads({"EOF"})
    /\ sock' = "idle"
    /\ rc' \in IF \E i \in DOMAIN response : response[i].kind = "ERROR" THEN {-1}
               ELSE IF response = <<>> THEN {0, -1} ELSE {Len(response)}
    /\ UNCHANGED <<overruns, response>>

\* fgets() returns NULL, as the driver has given up or its end of file is
\* remembered; the rest of the reply may still come.
IncompleteReply ==
    /\ transport # "dt100" /\ sock = "reading"
    /\ fds' \in {fds, [fds EXCEPT ![fd] = <<>>]}
    /\ late' = late \cup {fd}
    /\ sock' = "idle"
    /\ rc' = -1
    /\ UNCHANGED <<net, rxbuf, sent, code, output, leftover, overruns, closed,
                   response, transport, fd, wasLate>>

ReadLine == CopyLine \/ CopyOverruns \/ EndOfReply \/ IncompleteReply

-----------------------------------------------------------------------------
KddTypes ==
    /\ transport \in Transports
    /\ fds \in [{"cmd", "shell"} -> Seq([kind : {"output", "ERROR", "EOF"}, cmd : 1 .. sent, val : Nat])]
    /\ fd \in {"cmd", "shell"}
    /\ late \subseteq {"cmd", "shell"} /\ wasLate \in BOOLEAN

\* Until a command has been given up on its file (and ever after in a session
\* of hostdrv's shell), a caller has lines of its own reply only, all of them
\* when it is told so, and a failure is its own: except that nothing at all
\* may look like one.
OwnLines ==
    sock = "idle" /\ sent > 0 /\ overruns = 0
    /\ (~ wasLate \/ (transport = "hostdrv" /\ fd = "shell")) =>
        LET n == sent
            all == Front(Lines(n, output, code))
        IN  /\ IsPrefix(response, all)
            /\ rc >= 0 => response = all /\ code = 0
            /\ rc < 0 => code > 0 \/ output = 0 \/ fd \in late

\* Whichever transport, a caller gets the reply to its own command.
OwnResponse == IF transport = "dt100" THEN OwnTokens ELSE OwnLines
=============================================================================
