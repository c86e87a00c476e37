---------------------------- MODULE CardPrograms ----------------------------
(***************************************************************************)
(* The programs that run a card with the calls of Acq2xxVolts: api_test    *)
(* and acq196_api_test set it up, arm it and look at it every second until *)
(* it has stopped; acqcmd --while and --until wait for a state.  "library" *)
(* is a caller of readChannelVolts().                                      *)
(*                                                                         *)
(* The card is outside this repository.  It runs when it is armed, counts  *)
(* samples and stops by itself or when told; what it answers is true at    *)
(* the moment it answers.                                                  *)
(***************************************************************************)
EXTENDS Acq2xxVolts, Connections

CONSTANTS
    Programs,   \* those that may run
    MaxCalls,   \* bound: commands of "library"
    Scripts,    \* what acq2sh and acqcmd are given, each a record:
                \*   args: a command in the arguments
                \*   shell: option -s of acqcmd
                \*   lines: of stdin, or the command: "command", "comment"
    MaxTotal,   \* samples of a capture
    MaxArms     \* bound: captures that somebody else begins

Tests == {"api_test", "acq196_api_test"}
Polls == {"while", "until"}
Shells == {"acq2sh", "acqcmd"}
CardStates == {"STOP", "ARM", "RUN"}

ASSUME ProgramsAssumption ==
    /\ Programs \subseteq {"library"} \cup Tests \cup Polls \cup Shells \cup {"caller"}
    /\ MaxCalls \in Nat /\ MaxTotal \in Nat /\ MaxArms \in Nat
\* A command in the arguments is all that is given.
ASSUME ScriptsAssumption ==
    /\ Scripts \subseteq [args : BOOLEAN, shell : BOOLEAN, lines : Seq({"command", "comment"})]
    /\ \A s \in Scripts : s.args => s.lines = <<"command">>

VARIABLES
    program,
    name,       \* poll_while or poll_until
    card,       \* the card: its state and the samples of its capture
    arms,       \* captures that somebody else has begun
    answer,     \* history: the card when it answered the current command
    script,     \* what acq2sh or acqcmd is given, or NoScript
    printed,    \* of them: each puts(response); history: the output and the
                \* code of its command
    step,       \* of a test: the calls that have returned; of acq2sh: the
                \* lines it has taken
    shown,      \* of a test: s and post; of acqcmd: the state in response
    interrupted,
    stat,       \* lines on stat_sock not yet read, NoStat before it is open
    status      \* "running", or how the process has ended: "ok", "error"

NoStat == << "none" >>
End == "end"

device == <<card, arms, answer>>
NoScript == <<>>

given == <<program, name, script, printed>>
own == <<step, shown, interrupted, stat, status>>
programs == <<given, device, own>>
everything == <<vars, programs, connections>>

ProgramsInit ==
    /\ Init
    /\ program \in Programs /\ name \in CardStates
    /\ program \notin Polls => name = "STOP"
    /\ card \in [state : CardStates, total : {0}]
    /\ program \notin Polls => card.state = "STOP"
    /\ arms = 0 /\ answer = card
    /\ script \in (IF program \in Shells
                   THEN { s \in Scripts : program = "acqcmd" => s.args \/ s.lines = <<>> }
                   ELSE {NoScript})
    /\ printed = <<>>
    /\ step = 0 /\ shown = [state |-> "none", total |-> 0]
    /\ interrupted = FALSE
    /\ stat = NoStat
    /\ status = "running"
    /\ ConnectionsInit(program = "caller")
    /\ program = "caller" => transport = "dt100"

-----------------------------------------------------------------------------
\* stat_sock is open, and the card has not ended it.
Listens == stat # NoStat /\ End \notin ToSet(stat)

\* The card, which also tells whoever has its file of states open.
CardBecomes(state, total) ==
    /\ card' = [state |-> state, total |-> total]
    /\ stat' = IF ~ Listens \/ state = card.state THEN stat ELSE Append(stat, state)

CardRuns ==
    /\ program \in Tests \cup Polls
    /\ \/ card.state = "ARM" /\ CardBecomes("RUN", 0)
       \/ card.state = "RUN" /\ card.total < MaxTotal /\ CardBecomes("RUN", card.total + 1)
       \/ card.state = "RUN" /\ CardBecomes("STOP", card.total)
    /\ UNCHANGED <<vars, given, arms, answer, step, shown, interrupted, status>>

SomebodyArms ==
    /\ program \in Polls /\ card.state = "STOP" /\ arms < MaxArms
    /\ arms' = arms + 1
    /\ CardBecomes("ARM", 0)
    /\ UNCHANGED <<vars, given, answer, step, shown, interrupted, status>>

\* A command takes effect when it arrives, unless the card refuses it.
Command(what) ==
    /\ Ask(what)
    /\ answer' = card
    /\ LET refused == code' > 0
       IN  IF closed THEN UNCHANGED <<card, stat>>
           ELSE \/ what = "setArm" /\ CardBecomes("ARM", 0)
                \/ what = "setAbort" /\ CardBecomes("STOP", card.total)
                \/ (what \notin {"setArm", "setAbort"} \/ refused) /\ UNCHANGED <<card, stat>>

\* What sscanf() finds in the reply, where a reply never written may be any.
Told == IF response = Untouched \/ response = <<>>
        THEN [state : CardStates, total : 0 .. MaxTotal]
        ELSE {answer}

-----------------------------------------------------------------------------
\* main() of the tests: api_test with --trigger, without which it makes the
\* calls of the other.

Setup ==
    IF program = "api_test"
    THEN << "getAvailableChannels", "setInternalClock", "getInternalClock", "selectChannels",
            "getSelectedChannels", "setRoute", "setPrePostMode", "setArm" >>
    ELSE << "getAvailableChannels", "setInternalClock", "getInternalClock", "selectChannels",
            "getSelectedChannels", "setPrePostMode", "setArm" >>

\* Mutant of Round: the samples are counted before the state is asked.
RoundCountsFirst == << "setAbort", "getNumSamples", "getState" >>

\* do { sleep(1); ... } while (s != ST_STOP)
Round == << "setAbort", "getState", "getNumSamples" >>

NextCall ==
    IF step < Len(Setup) THEN Setup[step + 1]
    ELSE LET i == (step - Len(Setup)) % 3
         IN  IF i = 0 /\ ~ interrupted THEN Round[2] ELSE Round[i + 1]

\* Where a damaged session goes is followed in "library" and the shells only,
\* which is also where the card closes it.
TestCalls ==
    /\ program \in Tests /\ status = "running" /\ task = "none" /\ Intact
    /\ Command(NextCall)
    /\ UNCHANGED <<ai, ranges, failed, volts, given, arms,
                   step, shown, interrupted, status>>

\* sleep() is over, the round goes on from the call that has returned.
Returned(what) ==
    IF step < Len(Setup) THEN step + 1
    ELSE LET i == CHOOSE j \in 1 .. 3 : Round[j] = what
         IN  IF i = 3 THEN Len(Setup) ELSE Len(Setup) + i

\* RETERR(): the first call that fails ends the program.
TestReply ==
    /\ program \in Tests /\ status = "running" /\ task # "none" /\ sock = "idle"
    /\ task' = "none"
    /\ \/ Errs(task) /\ status' = "error" /\ UNCHANGED <<shown, step, ai>>
       \/ /\ Succeeds(task)
          /\ IF task \in {"getState", "getNumSamples"}
             THEN \E told \in Told :
                    shown' = IF task = "getState" THEN [shown EXCEPT !.state = told.state]
                                                  ELSE [shown EXCEPT !.total = told.total]
             ELSE UNCHANGED shown
          /\ IF task = "getAvailableChannels" THEN ai' \in CountIn ELSE UNCHANGED ai
          /\ step' = Returned(task)
          /\ status' = IF step' = Len(Setup) /\ step >= Len(Setup) /\ shown'.state = "STOP"
                       THEN "ok" ELSE "running"
    /\ UNCHANGED <<session, kdd, ranges, asked, failed, volts, given, device,
                   interrupted, stat>>

\* A signal ends the read() of a command, which fails; without SA_RESTART it
\* is not tried again.
ReadInterrupted ==
    \/ IncompleteReply
    \/ /\ transport = "dt100" /\ sock = "reading"
       /\ rc' = -1
       /\ sock' = "idle"
       /\ overruns' = overruns + 1
       /\ UNCHANGED <<net, rxbuf, sent, code, output, leftover, closed, response, kdd>>

\* SIGINT: acq196_api_test takes note, and looks at it in its loop; it ends
\* api_test.
Interrupt ==
    /\ program = "acq196_api_test" /\ status = "running" /\ ~ interrupted
    /\ interrupted' = TRUE
    /\ (ReadInterrupted /\ UNCHANGED api) \/ UNCHANGED vars
    /\ UNCHANGED <<given, device, step, shown, stat, status>>

-----------------------------------------------------------------------------
\* main() of acqcmd with --while or --until.

\* strstr() of what has been read last.
GoesOn == (shown.state = name) = (program = "while")

PollCalls ==
    /\ program \in Polls /\ status = "running" /\ sent = 0
    /\ Command("getState")
    /\ UNCHANGED <<ai, ranges, failed, volts, given, arms,
                   step, shown, interrupted, status>>

\* Its result is not looked at; response begins as zeros.
PollReply ==
    /\ program \in Polls /\ task = "getState" /\ sock = "idle"
    /\ task' = "none"
    /\ shown' = [shown EXCEPT !.state =
            IF response # <<>> /\ response[1].kind = "output"
            THEN answer.state ELSE "none"]
    /\ step' = 1
    /\ UNCHANGED <<session, kdd, ai, ranges, asked, failed, volts, given,
                   device, interrupted, stat, status>>

Polling == program \in Polls /\ status = "running" /\ step = 1

PollEnds ==
    /\ Polling /\ ~ GoesOn
    /\ status' = "ok"
    /\ UNCHANGED <<vars, given, device, step, shown, interrupted, stat>>

\* Mutant of OpenStat: the first line is taken for the prompt of the shell.
OpenStatLate ==
    /\ Polling /\ GoesOn /\ transport = "dt100" /\ stat = NoStat
    /\ stat' = <<>>
    /\ UNCHANGED <<vars, given, device, step, shown, interrupted, status>>

\* waitStateChange(): a connection of its own, on which the card writes its
\* state and then each new one.
OpenStat ==
    /\ Polling /\ GoesOn /\ transport = "dt100" /\ stat = NoStat
    /\ stat' = << card.state >>
    /\ UNCHANGED <<vars, given, device, step, shown, interrupted, status>>

\* readline().  At the end it returns 0, which is no error: response is looked
\* at again, and so on.
ReadStat ==
    /\ Polling /\ GoesOn /\ stat # NoStat /\ stat # <<>> /\ Head(stat) # End
    /\ shown' = [shown EXCEPT !.state = Head(stat)]
    /\ stat' = Tail(stat)
    /\ UNCHANGED <<vars, given, device, step, interrupted, status>>

StatEnds ==
    /\ Polling /\ Listens
    /\ stat' = Append(stat, End)
    /\ UNCHANGED <<vars, given, device, step, shown, interrupted, status>>

\* Of the other transports it returns an error.
NoStateChange ==
    /\ Polling /\ GoesOn /\ transport # "dt100"
    /\ status' = "error"
    /\ UNCHANGED <<vars, given, device, step, shown, interrupted, stat>>

Poll == PollCalls \/ PollReply \/ PollEnds \/ OpenStat \/ ReadStat \/ NoStateChange

-----------------------------------------------------------------------------
\* main() of acq2sh, and of acqcmd with a command.

Shell == program \in Shells /\ status = "running" /\ task = "none" /\ sock = "idle"
More == step < Len(script.lines)

ShellCommand ==
    /\ Shell /\ More /\ script.lines[step + 1] = "command"
    /\ Ask(IF program = "acqcmd" /\ ~ script.shell THEN "acqcmd" ELSE "acq2sh")
    /\ step' = step + 1
    /\ UNCHANGED <<ai, ranges, failed, volts, given, device, shown, interrupted, stat, status>>

\* A line of stdin that begins with # or has nothing in it is echoed.
ShellComment ==
    /\ Shell /\ More /\ script.lines[step + 1] = "comment"
    /\ step' = step + 1
    /\ UNCHANGED <<vars, given, device, shown, interrupted, stat, status>>

\* puts(response): a response that nobody has written to is that of the
\* command before.
Puts == Append(printed,
    [text |-> IF response # Untouched THEN response
              ELSE IF printed = <<>> THEN <<>> ELSE Last(printed).text,
     output |-> output, code |-> code])

\* The lines go on until one fails.
ShellReply ==
    /\ program \in Shells /\ task \in Words /\ sock = "idle"
    /\ task' = "none"
    /\ printed' = Puts
    /\ status' = IF rc < 0 THEN "error" ELSE IF script.args THEN "ok" ELSE "running"
    /\ UNCHANGED <<session, kdd, ai, ranges, asked, failed, volts, program, name, script,
                   device, step, shown, interrupted, stat>>

\* The end of stdin; acqcmd without a command does nothing.
ShellEnds ==
    /\ Shell /\ ~ More
    /\ status' = "ok"
    /\ UNCHANGED <<vars, given, device, step, shown, interrupted, stat>>

-----------------------------------------------------------------------------
Library == program = "library" /\ (Call \/ Reply) /\ sent' <= MaxCalls /\ UNCHANGED programs

CardNext ==
    \/ CardRuns \/ SomebodyArms
    \/ Library
    \/ Transport /\ (closed' => program \in {"library"} \cup Shells) /\ UNCHANGED programs
    \/ TestCalls \/ TestReply \/ Interrupt
    \/ Poll \/ StatEnds
    \/ ShellCommand \/ ShellComment \/ ShellReply \/ ShellEnds

ProgramsNext ==
    \/ CardNext /\ UNCHANGED connections
    \/ ConnectionsNext /\ UNCHANGED <<vars, programs>>

ProgramsSpec == ProgramsInit /\ [][ProgramsNext]_everything

\* A transport goes on reading while the card goes on answering, or the driver
\* gives up waiting for it, and acqcmd goes on; never both at once.
Proceeds ==
    /\ \/ Receives /\ UNCHANGED <<api, programs>>
       \/ Poll
    /\ UNCHANGED connections

FairPrograms == ProgramsSpec /\ WF_everything(Proceeds)

-----------------------------------------------------------------------------
ProgramsTypes ==
    /\ TypeInv /\ ConnectionsTypes
    /\ program \in Programs /\ name \in CardStates
    /\ card \in [state : CardStates, total : 0 .. MaxTotal]
    /\ arms \in 0 .. MaxArms
    /\ answer \in [state : CardStates, total : 0 .. MaxTotal]
    /\ step \in 0 .. IF program \in Shells THEN Len(script.lines) ELSE Len(Setup) + 2
    /\ printed = <<>> \/ (program \in Shells /\ Len(printed) \in {sent - 1, sent})
    /\ shown \in [state : CardStates \cup {"none"}, total : 0 .. MaxTotal]
    /\ interrupted \in BOOLEAN
    /\ stat = NoStat \/ stat \in Seq(CardStates \cup {End})
    /\ status \in {"running", "ok", "error"}

\* A test that ends without an error has armed the card and seen its capture
\* end, and the count it printed last is that of the whole capture: also when
\* the card refused a command and the trailer that said so was torn.
CaptureComplete ==
    program \in Tests /\ status = "ok" /\ Intact =>
        /\ \E n \in DOMAIN asked : asked[n] = "setArm"
        /\ card.state = "STOP" /\ shown.total = card.total

\* The output in a text is the first len units of command n, in one piece.
Says(text, n, len) ==
    \E from \in 0 .. Len(text) - len :
        \A i \in DOMAIN text :
            IF i \in from + 1 .. from + len
            THEN text[i] = [kind |-> "output", cmd |-> n, val |-> i - from]
            ELSE text[i].kind # "output"

Commands == { i \in DOMAIN script.lines : script.lines[i] = "command" }

\* What a script prints is, command by command, the whole output of each, up
\* to the first that failed, which is the last; a script that ends well has
\* had every command obeyed.  Of a TCP session, where a torn trailer hides a
\* failure and its numbers stand before the next output, the output is still
\* that of each command, and one that ends the script has failed.  Once a
\* connection has ended nothing of the kind holds: read() of 0 is a success,
\* and prints the answer before.
ScriptPrinted ==
    program \in Shells /\ Intact =>
        /\ \A i \in DOMAIN printed :
              \/ Says(printed[i].text, i, printed[i].output)
              \/ /\ i = sent /\ fd \in late
                 /\ \E len \in 0 .. printed[i].output : Says(printed[i].text, i, len)
        /\ \A i \in DOMAIN printed :
              (i < sent \/ status = "ok") /\ transport # "dt100" => printed[i].code = 0
        /\ status = "ok" => Len(printed) = Cardinality(Commands)
        /\ status = "error" => code > 0 \/ fd \in late \/ (output = 0 /\ transport # "dt100")

\* Programs do what they were asked to.
ProgramsTrue == CaptureComplete /\ ScriptPrinted /\ ConnectionsTrue

\* acqcmd does not sleep through the state it waits for: if the card ends in
\* one, acqcmd ends, whatever happened between its question and the moment it
\* began to listen, unless the card ends the connection it listens to.
StateAwaited ==
    ~ <>[](/\ program \in Polls /\ status = "running" /\ sock # "dead"
           /\ stat = NoStat \/ Listens
           /\ (card.state = name) = (program = "until"))
=============================================================================
