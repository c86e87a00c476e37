-------------------------- MODULE MCMdsContinuous --------------------------
(***************************************************************************)
(* MdsContinuous for TLC.                                                  *)
(***************************************************************************)
EXTENDS MdsContinuous

\* Groups closed by the number of files, or already by two units of samples.
SomeMinSamples == {-1, 2}
=============================================================================
