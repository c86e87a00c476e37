----------------------------- MODULE MCLiveFeed -----------------------------
(***************************************************************************)
(* LiveFeed for TLC.                                                       *)
(***************************************************************************)
EXTENDS LiveFeed

\* An event across blocks 1 and 2, and one in block 2 alone, which
\* ACQ_DEMUX_PROCESS_PREVIOUS=0 eliminates when it follows the first.
FewTriples == {<<1, 2, NoBlock>>, <<NoBlock, 2, NoBlock>>}
=============================================================================
