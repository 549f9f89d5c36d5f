----------------------------- MODULE MCSyncSession -----------------------------
(* Instances of SyncSession for TLC.                                       *)
EXTENDS SyncSession, TLC

CONSTANTS good, bad

MCPart == 1..2
MCData == {good, bad}
MCArchive == [i \in MCPart |-> good]

Symmetry == Permutations(Request)
================================================================================
