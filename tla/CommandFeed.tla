---------------------------- MODULE CommandFeed ----------------------------
(***************************************************************************)
(* What CommandBuffer promises to the loop that calls getNext(): a feed    *)
(* of command lines, numbered 1, 2, ... in the order the device wrote      *)
(* them.  Each line is taken once, in that order, and is either given to   *)
(* the caller or, when the policy allows it, lost.                         *)
(***************************************************************************)
EXTENDS Naturals

VARIABLES
    lossy,      \* TRUE: the feed may lose lines (policy POL_LOWLAT)
    arrived,    \* number of lines the device has written so far
    taken,      \* lines 1 .. taken have been given to the caller or lost
    lost,       \* how many of them were lost
    given       \* the last line given to the caller, 0 before the first

vars == <<lossy, arrived, taken, lost, given>>

Init ==
    /\ lossy \in BOOLEAN
    /\ arrived = 0
    /\ taken = 0
    /\ lost = 0
    /\ given = 0

Arrive ==
    /\ arrived' = arrived + 1
    /\ UNCHANGED <<lossy, taken, lost, given>>

Take ==
    /\ taken < arrived
    /\ taken' = taken + 1
    /\ UNCHANGED <<lossy, arrived>>

Give ==
    /\ Take
    /\ given' = taken + 1
    /\ UNCHANGED lost

Lose ==
    /\ lossy
    /\ Take
    /\ lost' = lost + 1
    /\ UNCHANGED given

Next == Arrive \/ Give \/ Lose

Spec == Init /\ [][Next]_vars
=============================================================================
