--------------------------- MODULE MCAcq2xxVolts ---------------------------
(***************************************************************************)
(* Acq2xxVolts and CardPrograms for TLC.                                   *)
(***************************************************************************)
EXTENDS CardPrograms

\* A reply that ends too soon, and a complete one.
ShortOrFull == {1, 2}
Full == {2}

\* One command in the arguments, or none; up to three lines of stdin.
ShellRuns ==
    { [args |-> TRUE, shell |-> shell, lines |-> <<"command">>] : shell \in BOOLEAN }
    \cup { [args |-> FALSE, shell |-> TRUE, lines |-> lines] :
             lines \in { <<>>, <<"comment", "command", "command">>, <<"command", "comment", "command", "command">> } }

\* Every order of up to four calls, with lines that fit and with lines that
\* do not; a host that cannot be found.
Caller(calls, g, p) == [calls |-> calls, greeting |-> g, prompt |-> p, known |-> TRUE]
CallerRuns ==
    { Caller(calls, 2, 1) : calls \in [1 .. 4 -> CallNames] }
    \cup { Caller(calls, g, p) : calls \in [1 .. 3 -> CallNames], g \in {2, 3}, p \in {1, 5} }
    \cup { [Caller(<<"acq2sh">>, 1, 1) EXCEPT !.known = FALSE] }
=============================================================================
