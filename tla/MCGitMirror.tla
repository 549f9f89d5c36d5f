----------------------------- MODULE MCGitMirror -----------------------------
(* Instances of GitMirror for TLC.                                         *)
EXTENDS GitMirror

CONSTANTS r1, r2, w1, w2

TwoRequests == {r1, r2}
OneWorker   == {w1}
TwoWorkers  == {w1, w2}
=============================================================================
