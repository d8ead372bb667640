----------------------------- MODULE ConfigNodes -----------------------------
(***************************************************************************)
(* The configuration of a problem (ConfigNode in dmoj/config.py).  A node  *)
(* is the sequence of its dictionary and those around it; a list stands    *)
(* there as a dictionary without keys.  A key k may have a value, an       *)
(* expression (k+) and a piece of code (k++): the first read of the key    *)
(* runs one of these and keeps the result in its place.                    *)
(***************************************************************************)
EXTENDS Naturals, Sequences, SequencesExt

CONSTANTS
    Absent,     \* None
    Broken      \* code that raises

ASSUME BrokenAssumption == Broken # Absent

Level(plain, eval, exec) == [plain |-> plain, eval |-> eval, exec |-> exec]

Has(level, item) == item \in DOMAIN level.plain \cup DOMAIN level.eval \cup DOMAIN level.exec

Without(dict, item) == [k \in DOMAIN dict \ {item} |-> dict[k]]

\* run_dynamic_key: of k++ and k+ the first, and only that, runs in a read.
RunDynamicKey(level, item) ==
    LET runs(dict) == item \in DOMAIN dict /\ dict[item] # Broken
        kept(dict) == [k \in DOMAIN level.plain \cup {item} |-> IF k = item THEN dict[item] ELSE level.plain[k]]
    IN  IF item \in DOMAIN level.exec
        THEN IF ~runs(level.exec) THEN level
             ELSE Level(kept(level.exec), level.eval, Without(level.exec, item))
        ELSE IF ~runs(level.eval) THEN level
             ELSE Level(kept(level.eval), Without(level.eval, item), level.exec)

Raises(level, item) ==
    IF item \in DOMAIN level.exec THEN level.exec[item] = Broken
    ELSE item \in DOMAIN level.eval /\ level.eval[item] = Broken

\* __getitem__: the nearest dictionary that has the key answers.
GetItem(node, item) ==
    LET n == SelectInSeq(node, LAMBDA level : Has(level, item))
    IN  IF n = 0 THEN [value |-> Absent, node |-> node]
        ELSE IF Raises(node[n], item) THEN [value |-> Broken, node |-> node]
        ELSE LET ran == RunDynamicKey(node[n], item)
             IN  [value |-> ran.plain[item], node |-> [node EXCEPT ![n] = ran]]

\* __getattr__ reads once to look and once more to answer; a name with _ may be written
\* with -.
GetAttr(node, item, dashed) ==
    LET look == GetItem(node, item)
    IN  IF look.value = Broken THEN look
        ELSE GetItem(look.node, IF look.value = Absent THEN dashed ELSE item)

---------------------------------------------------------------------------
(***************************************************************************)
(* Dynamic keys do not make a configuration depend on who read what of it  *)
(* before: told has what was read of every key, always the same.  Only a   *)
(* dictionary with both k+ and k++ answers with the one, then the other.   *)
(***************************************************************************)
TwoForms(node, item) ==
    \E n \in DOMAIN node : item \in DOMAIN node[n].eval \cap DOMAIN node[n].exec

ReadsAgree(node, told) ==
    \A item \in DOMAIN told :
        ~TwoForms(node, item) =>
            told[item] \subseteq {GetItem(node, item).value}
=============================================================================
