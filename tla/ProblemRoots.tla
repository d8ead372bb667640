---------------------------- MODULE ProblemRoots ----------------------------
(***************************************************************************)
(* Where the judge finds a problem (dmoj/judgeenv.py): the patterns of the *)
(* configuration, the directories that hold problems, which are looked for *)
(* once, and the directory of a problem, which is remembered.              *)
(*                                                                         *)
(* A path is the sequence of its names; disk is the set of the directories *)
(* with an init.yml.                                                       *)
(***************************************************************************)
EXTENDS Naturals, Sequences, SequencesExt

CONSTANT NoRoot

\* A pattern: dir/**, or dir/ and a pattern of the last name (p[13]) that matches some
\* names, and, where its stars may cross a slash, the directories across.
Deep(dir) == [dir |-> dir, names |-> {}, across |-> {}]
OneOf(dir, names, across) == [dir |-> dir, names |-> names, across |-> across]

\* glob.iglob(recursive=True): ** is any number of names, or none.
Globbed(pattern, path) ==
    IF pattern.names = {} THEN IsPrefix(pattern.dir, path)
    ELSE \E n \in pattern.names : path = Append(pattern.dir, n)

\* fnmatch, whose star matches a slash too: ** is two stars between two slashes.
FnMatched(pattern, path) ==
    IF pattern.names = {} THEN IsStrictPrefix(pattern.dir, path)
    ELSE Globbed(pattern, path) \/ path \in pattern.across

\* get_problem_roots: the parents of what a pattern finds, in the order of the
\* patterns; those of one pattern come in any order.
FindRoots(disk, globs) ==
    [g \in DOMAIN globs |-> {Front(p) : p \in {q \in disk : Globbed(globs[g], q)}}]

\* A judge with its two caches; the second is cleared when the problems are updated.
Roots(roots, dirs) == [roots |-> roots, dirs |-> dirs]
ClearProblemDirsCache(judge) == [judge EXCEPT !.dirs = NoRoot]

\* get_supported_problems: the first directory of every name is listed.
Supported(disk, globs) ==
    {Last(p) : p \in {q \in disk : \E g \in DOMAIN globs : Globbed(globs[g], q)}}

CachedStands(judge, disk, id) == judge.roots[id] # NoRoot /\ judge.roots[id] \in disk

\* The first of the roots that has the problem where some pattern admits it.
Candidates(dirs, disk, globs, id) ==
    LET admitted(root) == Append(root, id) \in disk
                          /\ \E g \in DOMAIN globs : FnMatched(globs[g], Append(root, id))
        places == {g \in DOMAIN dirs : \E root \in dirs[g] : admitted(root)}
        first == CHOOSE g \in places : \A h \in places : g <= h
    IN  IF places = {} THEN {} ELSE {Append(root, id) : root \in {r \in dirs[first] : admitted(r)}}

\* get_problem_root: the answers it may give, with the judge each leaves behind.
GetProblemRoot(judge, disk, globs, id) ==
    LET dirs == IF judge.dirs = NoRoot THEN FindRoots(disk, globs) ELSE judge.dirs
        found == Candidates(dirs, disk, globs, id)
    IN  CASE CachedStands(judge, disk, id) -> {[root |-> judge.roots[id], judge |-> judge]}
          [] ~CachedStands(judge, disk, id) /\ found # {} ->
                {[root |-> r, judge |-> Roots([judge.roots EXCEPT ![id] = r], dirs)] : r \in found}
          [] OTHER -> {[root |-> NoRoot, judge |-> Roots(judge.roots, dirs)]}

---------------------------------------------------------------------------
(***************************************************************************)
(* However the problems on the disk moved since a root was remembered, an  *)
(* answer is a problem of that name which is there now; and once the roots *)
(* are forgotten a listed problem is found.  Glob and fnmatch disagree on  *)
(* two: a problem that is itself the directory before ** is listed and not *)
(* found, and one that only a star across a slash matches is found, where  *)
(* its directory is a root, and not listed.                                *)
(***************************************************************************)
RootsAreRight(judge, disk, globs, ids) ==
    \A id \in ids :
        /\ \A a \in GetProblemRoot(judge, disk, globs, id) :
              a.root # NoRoot =>
                  /\ a.root \in disk /\ Last(a.root) = id
                  /\ id \in Supported(disk, globs) \/ \E g \in DOMAIN globs : a.root \in globs[g].across
        /\ \A a \in GetProblemRoot(ClearProblemDirsCache(judge), disk, globs, id) :
              id \in Supported({p \in disk : \A g \in DOMAIN globs : globs[g] # Deep(p)}, globs) => a.root # NoRoot
=============================================================================
