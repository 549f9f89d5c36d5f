----------------------------- MODULE MCServices -----------------------------
(* Instance of Services for TLC: the second local skill is inside the      *)
(* directory of the first; of the team's skills too.                       *)
EXTENDS Services

TwoNested  == {<<2, 1>>}
OneTop     == [s \in Skill |-> "skill1"]
=============================================================================
