---------------------------- MODULE Dt100Session ----------------------------
(***************************************************************************)
(* Dt100Transport::acq2sh() of Dt100Transport.cpp: commands and responses  *)
(* over one TCP connection that is opened once and kept.  The card (the    *)
(* dt100 service, outside this repository) answers command n with its      *)
(* output followed by a trailer "EOF <cnum> <ecode>".                      *)
(*                                                                         *)
(* A response is a sequence of tokens: units of output, the word EOF, and  *)
(* the two numbers of the trailer, the second digit of a code being one of *)
(* its own.  TCP keeps their order and may cut the stream between any two  *)
(* of them.  acq2sh() looks for EOF in what it has read so far and throws  *)
(* away what it has read beyond it.                                        *)
(***************************************************************************)
EXTENDS Integers, Sequences

CONSTANTS
    BufLen,         \* buflen: tokens of rxbuf
    Outputs,        \* the lengths of a command's output
    ErrorCodes,     \* the values of ecode, of two digits at most, 0 for
                    \* success
    MaxCommands     \* bound: commands sent

ASSUME BufLenAssumption == BufLen \in Nat /\ BufLen > 1
ASSUME RepliesAssumption == Outputs \subseteq Nat /\ ErrorCodes \subseteq 0 .. 99
ASSUME CommandsAssumption == MaxCommands \in Nat

VARIABLES
    net,        \* tokens written by the card and not yet read
    rxbuf,      \* tokens read for the current command
    sent,       \* commands sent; the current one is number sent
    code,       \* history: the ecode of the current command
    output,     \* history: the length of its output
    leftover,   \* history: what was in net when the current one was sent
    overruns,   \* history: commands given up before their EOF was read
    closed,     \* the card has closed the connection
    sock,       \* where acq2sh() is: "idle", "reading" or "dead"
    rc,         \* its last result
    response    \* the caller's buffer: what acq2sh() copied there last

session == <<net, rxbuf, sent, code, output, leftover, overruns, closed,
             sock, rc, response>>

Output(n, len) == [i \in 1 .. len |-> [kind |-> "output", cmd |-> n, val |-> i]]

FirstDigit(ecode) == IF ecode < 10 THEN ecode ELSE ecode \div 10

\* The value of a digit is the number that ends with it.
LastDigit(n, ecode) ==
    IF ecode < 10 THEN <<>> ELSE << [kind |-> "digit", cmd |-> n, val |-> ecode] >>

Trailer(n, ecode) ==
    << [kind |-> "EOF", cmd |-> n, val |-> 0],
       [kind |-> "cnum", cmd |-> n, val |-> n],
       [kind |-> "ecode", cmd |-> n, val |-> FirstDigit(ecode)] >> \o LastDigit(n, ecode)

TrailerNumbers == {"cnum", "ecode", "digit"}

\* The caller's buffer when acq2sh() has not written to it.
Untouched == << [kind |-> "stale", cmd |-> 0, val |-> 0] >>

SessionInit ==
    /\ net = <<>> /\ rxbuf = <<>>
    /\ sent = 0
    /\ code = 0 /\ output = 0 /\ leftover = <<>>
    /\ overruns = 0
    /\ closed = FALSE
    /\ sock = "idle"
    /\ rc = 0
    /\ response = Untouched

-----------------------------------------------------------------------------
\* The positions in a buffer where strstr(rxbuf, "EOF") could point.
EOFs(buf) == {i \in 1 .. Len(buf) : buf[i].kind = "EOF"}

FirstEOF(buf) == CHOOSE i \in EOFs(buf) : \A j \in EOFs(buf) : i <= j

\* sscanf(pend, "EOF %d %d", &cnum, &ecode): the code it finds, as far as it
\* has been read, 0 when one of the two numbers has not been read yet.
Ecode(buf) ==
    LET pend == FirstEOF(buf)
    IN  IF pend + 3 <= Len(buf) /\ buf[pend + 3].kind = "digit" THEN buf[pend + 3].val
        ELSE IF pend + 2 <= Len(buf) THEN buf[pend + 2].val ELSE 0

\* The result of a command whose EOF is in the buffer.
ResultOf(buf) == IF Ecode(buf) > 0 THEN - Ecode(buf) ELSE FirstEOF(buf) - 1

\* write() of the command.  It fails, and the process with it, only when the
\* card has closed the connection.  A live card writes its whole answer.
Send ==
    /\ sock = "idle"
    /\ sent < MaxCommands
    /\ sent' = sent + 1
    /\ rxbuf' = <<>>
    /\ leftover' = net
    /\ response' = Untouched
    /\ \E len \in Outputs, ecode \in ErrorCodes :
          /\ output' = len
          /\ code' = ecode
          /\ net' = IF closed THEN net
                    ELSE net \o Output(sent', len) \o Trailer(sent', ecode)
    /\ \/ sock' = "reading"
       \/ closed /\ sock' = "dead"
    /\ UNCHANGED <<overruns, closed, rc>>

\* read() of at most buflen - ibuf bytes.
Receive(k) ==
    /\ sock = "reading"
    /\ k <= BufLen - Len(rxbuf)
    /\ rxbuf' = rxbuf \o SubSeq(net, 1, k)
    /\ net' = SubSeq(net, k + 1, Len(net))
    /\ UNCHANGED <<sent, code, output, leftover, closed>>

\* Mutant of ReadToEOF: the chunk, not the buffer, is copied to the caller.
ReadLastChunk(k) ==
    /\ Receive(k)
    /\ EOFs(rxbuf') # {}
    /\ rc' = ResultOf(rxbuf')
    /\ response' = SubSeq(rxbuf', Len(rxbuf) + 1, FirstEOF(rxbuf') - 1)
    /\ sock' = "idle"
    /\ UNCHANGED overruns

\* The chunk brings the EOF: the output before it is copied to the caller.
ReadToEOF(k) ==
    /\ Receive(k)
    /\ EOFs(rxbuf') # {}
    /\ rc' = ResultOf(rxbuf')
    /\ response' = SubSeq(rxbuf', 1, FirstEOF(rxbuf') - 1)
    /\ sock' = "idle"
    /\ UNCHANGED overruns

\* The chunk brings no EOF and rxbuf has room for another one.
ReadMore(k) ==
    /\ Receive(k)
    /\ EOFs(rxbuf') = {}
    /\ Len(rxbuf') < BufLen - 1
    /\ UNCHANGED <<sock, rc, response, overruns>>

\* The chunk fills rxbuf: the loop ends with rc still the size of the chunk.
ReadToFull(k) ==
    /\ Receive(k)
    /\ EOFs(rxbuf') = {}
    /\ Len(rxbuf') >= BufLen - 1
    /\ rc' = k
    /\ overruns' = overruns + 1
    /\ sock' = "idle"
    /\ UNCHANGED response

\* Mutant of ReadEnds: a read() of 0 is tried again.
ReadEndsRetries ==
    /\ sock = "reading"
    /\ closed /\ net = <<>>
    /\ UNCHANGED session

\* read() returns 0, or -1 when the connection was reset.
ReadEnds ==
    /\ sock = "reading"
    /\ closed /\ net = <<>>
    /\ rc' \in {0, -1}
    /\ sock' = "idle"
    /\ UNCHANGED <<net, rxbuf, sent, code, output, leftover, overruns,
                   closed, response>>

Read ==
    \/ \E k \in 1 .. Len(net) : ReadToEOF(k) \/ ReadMore(k) \/ ReadToFull(k)
    \/ ReadEnds

\* The card ends the connection; what it had not sent is lost.
CardCloses ==
    /\ ~closed
    /\ closed' = TRUE
    /\ \E k \in 0 .. Len(net) : net' = SubSeq(net, 1, k)
    /\ UNCHANGED <<rxbuf, sent, code, output, leftover, overruns, sock, rc,
                   response>>

-----------------------------------------------------------------------------
Token == [kind : {"output", "ERROR", "EOF", "stale"} \cup TrailerNumbers, cmd : Nat, val : Nat]

SessionTypes ==
    /\ net \in Seq(Token)
    /\ rxbuf \in Seq(Token) /\ Len(rxbuf) <= BufLen
    /\ sent \in Nat
    /\ code \in ErrorCodes \cup {0} /\ output \in Nat
    /\ leftover \in Seq(Token)
    /\ overruns \in Nat
    /\ closed \in BOOLEAN
    /\ sock \in {"idle", "reading", "dead"}
    /\ rc \in Int
    /\ response \in Seq(Token)

\* The properties of a session hold until a command is given up, as when its
\* response overruns rxbuf, or the card closes the connection.
Intact == overruns = 0 /\ ~closed

\* However the stream is cut into chunks, the caller gets the whole output of
\* its own command, behind what was left of the previous trailer, and a
\* negative result is the error code of that command, or the first digit of a
\* code that was cut between its digits.  The stream resynchronises: what is
\* left in it is numbers of this command's trailer, so the damage of a torn one
\* reaches the next response and no further.
OwnTokens ==
    sock = "idle" /\ Intact /\ sent > 0 =>
        /\ response = leftover \o Output(sent, output)
        /\ rc < 0 => - rc \in {code, FirstDigit(code)}
        /\ \A i \in 1 .. Len(net) :
               net[i].cmd = sent /\ net[i].kind \in TrailerNumbers
=============================================================================
