--------------------------- MODULE SubmissionLife ---------------------------
(***************************************************************************)
(* What the judge promises the site about each submission, whatever its    *)
(* threads do: it is acknowledged, graded while no other submission is,    *)
(* its cases are reported in order, and it gets one verdict.  The judge    *)
(* may fail at any point, even after the verdict, and then says so.        *)
(***************************************************************************)
EXTENDS Integers

CONSTANTS Submissions, NCases

VARIABLES
    phase,      \* how far each submission is
    verdict,    \* what the site was told first: "none" until then
    delivered   \* the number of cases reported

vars == <<phase, verdict, delivered>>

Phases == {"unknown", "acknowledged", "grading", "answered"}
Verdicts == {"none", "compile-error", "grading-end", "submission-terminated", "internal-error"}

TypeOK ==
    /\ phase \in [Submissions -> Phases]
    /\ verdict \in [Submissions -> Verdicts]
    /\ delivered \in [Submissions -> 0..NCases]

Init ==
    /\ phase = [s \in Submissions |-> "unknown"]
    /\ verdict = [s \in Submissions |-> "none"]
    /\ delivered = [s \in Submissions |-> 0]

Acknowledge(s) ==
    /\ phase[s] = "unknown"
    /\ phase' = [phase EXCEPT ![s] = "acknowledged"]
    /\ UNCHANGED <<verdict, delivered>>

\* Grading begins when no other submission is being graded.
Begin(s) ==
    /\ phase[s] = "acknowledged"
    /\ \A t \in Submissions : phase[t] # "grading"
    /\ phase' = [phase EXCEPT ![s] = "grading"]
    /\ UNCHANGED <<verdict, delivered>>

Report(s) ==
    /\ phase[s] = "grading"
    /\ \E n \in 1..NCases : n > delivered[s] /\ delivered' = [delivered EXCEPT ![s] = n]
    /\ UNCHANGED <<phase, verdict>>

\* The verdict: an internal error may also come before the first case.
Answer(s, v) ==
    /\ v = "grading-end" => delivered[s] = NCases
    /\ IF v = "compile-error" THEN phase[s] = "acknowledged"
       ELSE phase[s] = "grading" \/ (phase[s] = "acknowledged" /\ v = "internal-error")
    /\ phase' = [phase EXCEPT ![s] = "answered"]
    /\ verdict' = [verdict EXCEPT ![s] = v]
    /\ UNCHANGED delivered

Next ==
    \E s \in Submissions :
        \/ Acknowledge(s) \/ Begin(s) \/ Report(s)
        \/ \E v \in Verdicts \ {"none"} : Answer(s, v)

Spec == Init /\ [][Next]_vars
=============================================================================
