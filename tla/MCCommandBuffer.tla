-------------------------- MODULE MCCommandBuffer --------------------------
(***************************************************************************)
(* CommandBuffer for TLC.                                                  *)
(***************************************************************************)
EXTENDS CommandBuffer

\* maxq = 1 and 2 give POL_LOWLAT, maxq = 3 the smallest POL_NODROP queue.
SmallQueues == {1, 2, 3}

\* The default of CommandBuffer::create().
DefaultQueue == {4}
=============================================================================
