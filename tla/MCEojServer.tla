------------------------------ MODULE MCEojServer ------------------------------
(***************************************************************************)
(* EojServer for TLC: one step of the installer failed, or none, or the    *)
(* script ended at a key and left the essentials or nothing; one step may  *)
(* still be under way.  The threads that serve requests are alike.         *)
(***************************************************************************)
EXTENDS EojServer, TLC

Others == {"essentials", "native", "pascal", "mono", "temurin", "bellsoft", "scripting",
           "nodesource", "jdk26", "jdk25", "graalvm", "fasm", "kotlin", "tsx"}
OneFailed == {Others} \cup {Others \ {s} : s \in Others}
Aborted == {{}, {"essentials"}}
MCBoots == OneFailed \cup Aborted
AllSteps == {Others \cup {"openjdk"}}
Symmetry == Permutations(Threads \ {Main})
=============================================================================
