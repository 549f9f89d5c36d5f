---------------------------- MODULE MCSyncClient ----------------------------
(* Instances of SyncClient for TLC.                                        *)
EXTENDS SyncClient

CONSTANTS a1, a2, b1

MCPart == 1 .. 2
MCArchive == <<a1, a2>>
MCOther == <<b1, b1>>
MCData == {a1, a2, b1}
================================================================================
