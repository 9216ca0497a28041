--------------------------- MODULE MCLaneDispatch ---------------------------
(* Small instances of LaneDispatch for TLC.                                *)
EXTENDS LaneDispatch, TLC

Symmetry == Permutations(Block) \cup Permutations(Caller)

\* Without the history of calls, which grows for ever when a block is sent again
\* and again.  A block of which a late write removed every trace then stands for
\* a new identity.
WithoutHistory == <<mem, disk, cmd, stale, pc, blk, cur, up, topo, dry, obs>>
=============================================================================
