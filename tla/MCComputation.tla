--------------------------- MODULE MCComputation ---------------------------
(***************************************************************************)
(* Instances of Computation for TLC: the third node looks after its own    *)
(* data and those of the first, three names for three entries, as          *)
(* PlacementFits has it; the second does not run, but the user enters a    *)
(* chunk with its ID.  CPU IDs are far above the IDs set by hand, above    *)
(* LONG_MAX.                                                               *)
(***************************************************************************)
EXTENDS Computation

CONSTANTS p

MCCpuId == [i \in Ids |-> 8 + i]
MCPfxOf == [i \in Ids |-> p]
MCDebugChunks == {[name |-> [pfx |-> Site, src |-> 2], ts |-> 1]}

=============================================================================
