----------------------------- MODULE MCBackups ------------------------------
(* Instances of Backups for TLC.                                           *)
EXTENDS Backups, TLC

CONSTANTS t1, h1, h2

OneTarget   == {t1}
NoSweeper   == {}
TwoHandlers == {h1, h2}
AnyPolicy   == {[keep |-> 2, days |-> 0], [keep |-> 1, days |-> 1]}

\* The handlers are alike.
Alike == Permutations(TwoHandlers)
=============================================================================
