--------------------------- MODULE MCEventWorker ---------------------------
(***************************************************************************)
(* EventWorker for TLC: two quads of two rows at a time, blocks of sixteen *)
(* slots, of which processAction() takes whole fours.                      *)
(***************************************************************************)
EXTENDS EventWorker

Scan == <<"D", "C">>

Option(pre, post) ==
    [pre |-> pre, post |-> post, cleanup |-> TRUE, overwrite |-> FALSE, use_cooking |-> TRUE]

\* Windows with room around them, one that fills its round_up(), one longer
\* than a block leaves room for, and the ways a directory is written.
Options == { Option(3, 5), Option(4, 2), Option(0, 13),
             [Option(2, 3) EXCEPT !.cleanup = FALSE, !.overwrite = TRUE],
             [Option(1, 1) EXCEPT !.cleanup = FALSE],
             [Option(2, 2) EXCEPT !.use_cooking = FALSE] }

Line(left, middle, right, given, timed) ==
    [es |-> [b \in 0 .. 2 |-> IF b = 0 THEN left ELSE IF b = 1 THEN middle ELSE right],
     given |-> given, timed |-> timed]

\* Events at the edges of the block, at those of the trimmed part, adjacent
\* ones and a pair; signatures of the neighbours in what is read of them and
\* outside; and what elimination may leave of the blocks.
Lines ==
    { Line(n[1], m, n[2], {0, 1, 2}, t) :
        n \in { <<{}, {}>>, <<{5}, {7}>>, <<{14}, {1}>> },
        m \in { {0}, {9}, {15}, {1, 6}, {9, 10}, {2, 15} }, t \in BOOLEAN }
    \cup
    { Line({}, m, {}, g, t) :
        m \in { {3}, {12}, {1, 6}, {12, 14} },
        g \in { {0, 1}, {1, 2}, {0, 2}, {1} }, t \in BOOLEAN }
FewLines == { Line({}, {9}, {}, {0, 1, 2}, TRUE), Line({}, {1, 6}, {}, {0, 1, 2}, TRUE) }
Feed == <<Lines, FewLines>>
=============================================================================
