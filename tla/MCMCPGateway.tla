---------------------------- MODULE MCMCPGateway ----------------------------
(* Instances of MCPGateway for TLC.                                        *)
EXTENDS MCPGateway

CONSTANTS s1, s2, c1, c2

OneServer  == {s1}
TwoServers == {s1, s2}
OneCaller  == {c1}
TwoCallers == {c1, c2}
=============================================================================
