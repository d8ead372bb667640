----------------------------- MODULE GradeCases -----------------------------
(***************************************************************************)
(* Which test cases of a submission are graded and which short-circuited:  *)
(* the generator _grade_cases (dmoj/judge.py) over the cases and batches   *)
(* that problem.cases() resolves (dmoj/problem.py).                        *)
(*                                                                         *)
(* An item of a problem is a test case or a batch of them.  Of a case only *)
(* its being worth no points matters here, of a batch its dependencies too.*)
(***************************************************************************)
EXTENDS Integers, Sequences, FiniteSets

CONSTANT Problems   \* the problems considered

\* zeros has an entry per case of the item, TRUE for a case worth 0 points.
Items == [batched : BOOLEAN, zeros : Seq(BOOLEAN), dependencies : SUBSET (Nat \ {0})]

\* An item that is not a batch is one case; a batch may have none.
ItemOK(item) ==
    /\ item \in Items
    /\ ~item.batched => Len(item.zeros) = 1 /\ item.dependencies = {}

ASSUME ProblemsAssumption ==
    \A p \in Problems :
        /\ p.tests \in Seq(Items) /\ p.pretests \in Seq(Items) /\ p.pretestsOnly \in BOOLEAN
        /\ \A i \in DOMAIN p.tests : ItemOK(p.tests[i])
        /\ \A i \in DOMAIN p.pretests : ItemOK(p.pretests[i])
-----------------------------------------------------------------------------
(***************************************************************************)
(* problem.cases()                                                         *)
(***************************************************************************)
Batches(items) == {i \in DOMAIN items : items[i].batched}

\* _resolve_testcases numbers the batches from the problem's batch counter,
\* and refuses a dependency that is not on an earlier number.
Number(items, counter, i) == counter + Cardinality({j \in Batches(items) : j <= i})

Resolve(items, counter) ==
    [i \in DOMAIN items |->
        [batched |-> items[i].batched, zeros |-> items[i].zeros,
         dependencies |-> items[i].dependencies,
         number |-> IF items[i].batched THEN Number(items, counter, i) ELSE 0,
         pretest |-> FALSE]]

Accepted(resolved) ==
    \A i \in DOMAIN resolved : \A d \in resolved[i].dependencies : d < resolved[i].number

\* The points of every pretest are set to 0: for a batch those of the batch, not
\* of its cases.
ForcePoints(resolved) ==
    [i \in DOMAIN resolved |->
        [resolved[i] EXCEPT !.zeros = IF resolved[i].batched THEN @ ELSE <<TRUE>>,
                            !.pretest = TRUE]]

\* The tests are numbered first and graded last.
CasesOf(p) ==
    IF p.pretestsOnly /\ p.pretests # <<>>
    THEN Resolve(p.pretests, 0)
    ELSE LET tests == Resolve(p.tests, 0)
             pretests == Resolve(p.pretests, Cardinality(Batches(p.tests)))
         IN ForcePoints(pretests) \o tests

VARIABLES
    layout,         \* what problem.cases() returned
    flat,           \* how many of its items were flattened
    cases,          \* flattened_cases
    dependencies,   \* batch_dependencies
    requested,      \* submission.short_circuit
    enabled,        \* is_short_circuiting_enabled
    skipping,       \* is_short_circuiting
    passed,         \* passed_batches
    batch,          \* the batch being graded, 0 between batches
    results         \* the verdict of each case so far: "AC", "WA" or "SC"

vars == <<layout, flat, cases, dependencies, requested, enabled, skipping, passed, batch, results>>
-----------------------------------------------------------------------------
Init ==
    /\ \E p \in Problems : layout = CasesOf(p)
    /\ Accepted(layout)
    /\ flat = 0
    /\ cases = <<>>
    /\ dependencies = <<>>
    /\ requested \in BOOLEAN
    /\ enabled = requested
    /\ skipping = FALSE
    /\ passed = {}
    /\ batch = 0
    /\ results = <<>>

(***************************************************************************)
(* The items are flattened, the batches numbered again from 1 in grading   *)
(* order.  batch is 0 (Python's None) outside batches.                     *)
(***************************************************************************)
FlatCase(item, number, zero) == [batch |-> number, zero |-> zero, item |-> item]

FlatCases(item, number) ==
    [j \in 1..Len(layout[item].zeros) |-> FlatCase(item, number, layout[item].zeros[j])]

FlattenItem ==
    /\ flat < Len(layout)
    /\ flat' = flat + 1
    /\ IF layout[flat'].batched
       THEN /\ dependencies' = Append(dependencies, layout[flat'].dependencies)
            /\ cases' = cases \o FlatCases(flat', Len(dependencies'))
       ELSE /\ cases' = cases \o FlatCases(flat', 0)
            /\ UNCHANGED dependencies
    /\ UNCHANGED <<layout, requested, enabled, skipping, passed, batch, results>>

-----------------------------------------------------------------------------
(***************************************************************************)
(* The loop over the groups of cases with the same batch.                  *)
(***************************************************************************)
Ready == flat = Len(layout)
next == Len(results) + 1
More == next <= Len(cases)

\* BATCH_BEGIN: a batch whose dependencies have not all passed is skipped.
MissesDependency_Any(b) == dependencies[b] # {} /\ passed \cap dependencies[b] = {}
MissesDependency(b) == passed \cap dependencies[b] # dependencies[b]

BatchBegin ==
    /\ Ready /\ More /\ batch = 0 /\ cases[next].batch # 0
    /\ batch' = cases[next].batch
    /\ skipping' = (skipping \/ MissesDependency(cases[next].batch))
    /\ UNCHANGED <<layout, flat, cases, dependencies, requested, enabled, passed, results>>

\* The next case belongs to the group being graded.
InGroup == Ready /\ More /\ cases[next].batch = batch

ShortCircuit_Stops == FALSE
ShortCircuit ==
    /\ InGroup /\ skipping
    /\ results' = Append(results, "SC")
    /\ UNCHANGED <<layout, flat, cases, dependencies, requested, enabled, skipping, passed, batch>>

Pass ==
    /\ InGroup /\ ~skipping
    /\ results' = Append(results, "AC")
    /\ UNCHANGED <<layout, flat, cases, dependencies, requested, enabled, skipping, passed, batch>>

\* A failed case worth nothing turns short-circuiting on for good; a failed case
\* of a batch skips the rest of the batch in any case.
SkipsRest_BatchOnly(b, on) == b # 0
SkipsRest(b, on) == b # 0 \/ on

Fail ==
    /\ InGroup /\ ~skipping
    /\ results' = Append(results, "WA")
    /\ enabled' = (enabled \/ cases[next].zero)
    /\ skipping' = SkipsRest(batch, enabled')
    /\ UNCHANGED <<layout, flat, cases, dependencies, requested, passed, batch>>

PassedAfter == IF skipping THEN passed ELSE passed \cup {batch}

\* BATCH_END: the batch passed unless it was skipped or failed, and skipping goes
\* on only if short-circuiting is enabled.
KeepsSkipping == skipping /\ enabled

BatchEnd ==
    /\ batch # 0 /\ (More => cases[next].batch # batch)
    /\ passed' = PassedAfter
    /\ skipping' = KeepsSkipping
    /\ batch' = 0
    /\ UNCHANGED <<layout, flat, cases, dependencies, requested, enabled, results>>

Next == FlattenItem \/ BatchBegin \/ ShortCircuit \/ Pass \/ Fail \/ BatchEnd

Spec == Init /\ [][Next]_vars /\ WF_vars(Next)
-----------------------------------------------------------------------------
(***************************************************************************)
(* Properties.                                                             *)
(***************************************************************************)
\* Every variable holds a value of its type.
TypeOK ==
    /\ flat \in 0..Len(layout)
    /\ cases \in Seq([batch : Nat, zero : BOOLEAN, item : Nat])
    /\ dependencies \in Seq(SUBSET Nat)
    /\ requested \in BOOLEAN /\ enabled \in BOOLEAN /\ skipping \in BOOLEAN
    /\ passed \subseteq DOMAIN dependencies
    /\ batch \in {0} \cup DOMAIN dependencies
    /\ results \in Seq({"AC", "WA", "SC"}) /\ Len(results) <= Len(cases)

Graded == {i \in DOMAIN results : results[i] # "SC"}
Failed == {i \in DOMAIN results : results[i] = "WA"}
CasesIn(b) == {i \in DOMAIN cases : cases[i].batch = b}

\* All the cases of batch b were accepted before case i.  A batch without cases never
\* begins, so it never passes.
PassedBefore(b, i) == CasesIn(b) # {} /\ \A j \in CasesIn(b) : j < i /\ results[j] = "AC"

\* Short-circuiting was on after the verdict of case i.
OnAfter(i) == requested \/ \E j \in Failed : j <= i /\ cases[j].zero

\* The batch of case i depends on one that has not passed.
Unmet(i) == cases[i].batch # 0 /\ \E d \in dependencies[cases[i].batch] : ~PassedBefore(d, i)

\* What short-circuits case i, stated without the generator's flags: an earlier
\* failure in its batch, an unmet dependency of its batch, or an earlier failure or
\* unmet dependency that came when short-circuiting was on or that turned it on.
Skipped(i) ==
    \/ Unmet(i)
    \/ \E j \in 1..i - 1 : Unmet(j) /\ OnAfter(j)
    \/ \E j \in Failed : j < i /\ (OnAfter(j) \/ (cases[j].batch # 0 /\ cases[j].batch = cases[i].batch))

\* The flags that _grade_cases carries from case to case and from batch to batch
\* compute exactly the rule above (judge.py:498-546).
SkipRule == \A i \in DOMAIN results : results[i] = "SC" <=> Skipped(i)

\* What a case waits for has passed when it is graded: all the cases of the batches
\* its batch depends on, under the numbers problem.py:330-333 checked ("dependencies
\* depends on non-earlier batch"), and every single case among the pretests ("Hack:
\* force short-circuiting behavior", problem.py:251).  Left out are problems with a
\* batch among the pretests, which _grade_cases numbers otherwise and does not zero.
ItemOf(i) == layout[cases[i].item]
BatchedPretests == \E k \in DOMAIN layout : layout[k].pretest /\ layout[k].batched
PassedFirst(k, i) == \A j \in DOMAIN cases : cases[j].item = k => j < i /\ results[j] = "AC"
DependenciesRespected ==
    ~BatchedPretests =>
        \A i \in {g \in Graded : ~ItemOf(g).pretest} : \A k \in DOMAIN layout :
            layout[k].pretest \/ layout[k].number \in ItemOf(i).dependencies => PassedFirst(k, i)

\* Every case gets a result, graded or not.
AllCasesReported == <>(Ready /\ Len(results) = Len(cases) /\ batch = 0)
=============================================================================
