--------------------------- MODULE MCContentStore ---------------------------
(***************************************************************************)
(* Instances of ContentStore for TLC.                                      *)
(***************************************************************************)
EXTENDS ContentStore

CONSTANTS self, peer, p, q

MCSources == {self, peer}

=============================================================================
