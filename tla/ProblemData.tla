----------------------------- MODULE ProblemData -----------------------------
(***************************************************************************)
(* The test cases a problem finds by the names of the files in its archive *)
(* (Problem._match_test_cases in dmoj/problem.py).  What the patterns read *)
(* in a name is a batch, or none, and the case, both patterns the same; a  *)
(* number that is not one stays text, which sorts before all numbers.      *)
(***************************************************************************)
EXTENDS Naturals, Sequences, FiniteSets, SequencesExt

CONSTANT None

Key(text, n) == [text |-> text, n |-> n]
Before(k, l) == IF k.text # l.text THEN k.text ELSE k.n < l.n

IsKey(k) == k = Key(k.text, k.n) /\ k.text \in BOOLEAN /\ k.n \in Nat

\* sorted
InOrder(keys) ==
    CHOOSE s \in [1..Cardinality(keys) -> keys] :
        ToSet(s) = keys /\ \A i, j \in DOMAIN s : i < j => Before(s[i], s[j])

\* A file of the archive: what its name makes it, and where it puts it.  Every name is
\* tried as an input and as an output, and intro.1.out is both, with "in" at the start.
File(types, batch, case) == [types |-> types, batch |-> batch, case |-> case]

\* A lone case has its own number for a batch.
GroupOf(f) == IF f.batch = None THEN f.case ELSE f.batch

BatchIds_OfInputs(files) == {f.batch : f \in {g \in ToSet(files) : "in" \in g.types}} \ {None}

BatchIds(files) == {f.batch : f \in ToSet(files)} \ {None}

\* Of two files for one place the later in the archive stays.
FileAt(files, type, group, case) ==
    LET here == {i \in DOMAIN files :
                    type \in files[i].types /\ GroupOf(files[i]) = group /\ files[i].case = case}
    IN  IF here = {} THEN None ELSE files[Max(here)]

\* The cases of a group are all numbers or all text: the code cannot sort others.
CasesOf(files, group) ==
    LET in_order == InOrder({f.case : f \in {g \in ToSet(files) : GroupOf(g) = group}})
    IN  [i \in 1..Len(in_order) |->
            [in |-> FileAt(files, "in", group, in_order[i]),
             out |-> FileAt(files, "out", group, in_order[i])]]

\* The items of the configuration; points are handed out in their order.
MatchTestCases(files, case_points) ==
    LET groups == InOrder({GroupOf(f) : f \in ToSet(files)})
    IN  [i \in 1..Len(groups) |->
            [batched |-> groups[i] \in BatchIds(files),
             cases |-> CasesOf(files, groups[i]),
             points |-> case_points[i]]]

\* _resolve_test_cases: a list of cases stands as it is; without one the names of the
\* files say, if there is an archive.
ResolveTestCases(listed, archive, case_points) ==
    CASE listed # None -> listed
      [] listed = None /\ archive # None -> MatchTestCases(archive, case_points)
      [] OTHER -> None

---------------------------------------------------------------------------
\* One case and one side of it: intro.1.in and intro.1.out are, both inputs of case 1.
Rivals(f, g) == f.types \cap g.types # {} /\ GroupOf(f) = GroupOf(g) /\ f.case = g.case

\* No two files for one place, and no lone case under the number of a batch.
Clear(files) ==
    /\ \A i, j \in DOMAIN files : i # j => ~Rivals(files[i], files[j])
    /\ \A f \in ToSet(files) : f.batch = None => f.case \notin BatchIds(files)

Entry(items, p, type) == items[p[1]].cases[p[2]][type]

Places(items) == UNION {{<<i, k>> : k \in DOMAIN items[i].cases} : i \in DOMAIN items}

Place(items, f) == {p \in Places(items) : \E type \in f.types : Entry(items, p, type) = f}

(***************************************************************************)
(* Whatever order the archive lists its files in, a file is lost only to a *)
(* rival after it.  Without rivals every file belongs to exactly one case  *)
(* of the problem, as all that it is, its partner to the same, the cases   *)
(* of a batch stand in one item and lone cases in an item each, all in the *)
(* order of their numbers; an item has as many points as its place says.   *)
(***************************************************************************)
CasesAreMatched(files, case_points) ==
    LET items == ResolveTestCases(None, files, case_points)
        at(f) == CHOOSE p \in Place(items, f) : TRUE
    IN  /\ \A i \in DOMAIN files : \A type \in files[i].types :
              \E p \in Places(items), j \in i..Len(files) :
                  Rivals(files[i], files[j]) /\ Entry(items, p, type) = files[j]
        /\ Clear(files) => \A f \in ToSet(files) :
              /\ Cardinality(Place(items, f)) = 1
              /\ \A type \in f.types : Entry(items, at(f), type) = f
              /\ items[at(f)[1]].batched <=> f.batch # None
              /\ f.batch = None => Len(items[at(f)[1]].cases) = 1
              /\ items[at(f)[1]].points = case_points[at(f)[1]]
        /\ Clear(files) => \A f, g \in ToSet(files) :
              /\ Before(GroupOf(f), GroupOf(g)) => at(f)[1] < at(g)[1]
              /\ GroupOf(f) = GroupOf(g) => at(f)[1] = at(g)[1]
              /\ GroupOf(f) = GroupOf(g) /\ Before(f.case, g.case) => at(f)[2] < at(g)[2]
              /\ GroupOf(f) = GroupOf(g) /\ f.case = g.case => at(f) = at(g)
=============================================================================
