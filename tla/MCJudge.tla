------------------------------- MODULE MCJudge -------------------------------
(***************************************************************************)
(* Instances of Judge for TLC: two submissions, a plan with a batch of one *)
(* case followed by a case of its own.                                     *)
(***************************************************************************)
EXTENDS Judge, TLC

CONSTANTS s1, s2

MCSubmissions == {s1, s2}
MCPlan == <<"BATCH_BEGIN", "CASE", "BATCH_END", "CASE">>
\* A plan without a batch, for the runs where it would only add states.
MCOnePlan == <<"CASE">>
MCSymmetry == Permutations(MCSubmissions)
=============================================================================
