----------------------------- MODULE Algorithms -----------------------------
(***************************************************************************)
(* The algorithms without a state of their own, put to work one at a time. *)
(* The one variable is what an algorithm works on, which grows by a rule,  *)
(* a character or a file, or changes by a call.                            *)
(***************************************************************************)
EXTENDS SandboxPolicy, Checkers, ProblemData, TestCaseData, ProblemRoots, ConfigNodes

CONSTANTS
  \* policies
    FileSystems, Rules, Threads, Calls, Files,
    MaxRules,        \* rules of a policy
  \* outputs
    Alphabets, Epsilons,
    MaxOutput,       \* characters of an output
  \* archives
    ArchiveFiles, CasePoints,
    MaxFiles,        \* files of an archive
  \* data
    Bytes, BlockSizes,
    MaxData,         \* characters of a file
  \* test cases: cases, files and what a run of a generator may do
    Cases, Disks, Runs,
  \* problem directories, lists of patterns and names of problems
    ProblemDirs, PatternLists, Ids,
  \* configurations and keys, with the way a file may write a key
    Nodes, Dashed

VARIABLE sample

Extend(field, x) == sample' = [sample EXCEPT ![field] = Append(@, x)]

---------------------------------------------------------------------------
ASSUME FileSystemsAssumption == \A fs \in FileSystems : WellFormed(fs) /\ IsLink(fs, Self)

\* A rule has a normalized path (the first assertion of its constructor), and names no
\* process, which has its number only when it runs.
ASSUME RulesAssumption ==
    \A r \in Rules :
        /\ r = Rule(r.type, r.path) /\ r.type \in {"file", "exact", "recursive"}
        /\ r.path \in Path /\ ".." \notin ToSet(r.path)
        /\ \A t \in Threads, fs \in FileSystems :
              ~IsPrefix(t.tid, r.path) /\ ~IsPrefix(t.pid, r.path) /\ ~IsPrefix(t.tid, RealPath(fs, r.path))

\* /proc/[tid] and /proc/[pid] are directories below /proc.
ProcessDir(p) == p \in Path /\ Len(p) = 2 /\ p[1] = "proc" /\ p # Self

ASSUME ThreadsAssumption ==
    \A t \in Threads :
        /\ ProcessDir(t.tid) /\ ProcessDir(t.pid)
        /\ t.cwd \in Path /\ \A d \in DOMAIN t.fds : t.fds[d] \in Path
        /\ \A fs \in FileSystems : Canonical(fs, t.tid)

\* O_TMPFILE has the bit of O_DIRECTORY.
ASSUME CallsAssumption ==
    \A c \in Calls :
        Looks(c) =>
            /\ c.kind # "link" =>
                  c.text.path \in Path /\ \A t \in Threads : c.dirfd \in DOMAIN t.fds \cup {"AT_FDCWD"}
            /\ c.kind = "open" => ("TMPFILE" \in c.flags => "DIRECTORY" \in c.flags)
            /\ c.kind \in {"rename", "link"} =>
                  c.new.path \in Path /\ \A t \in Threads : c.newdirfd \in DOMAIN t.fds \cup {"AT_FDCWD"}

\* The precision is a number of digits, so that epsilon is at most 1.0.
ASSUME EpsilonsAssumption == \A e \in Epsilons : e \in Nat /\ e <= One

ASSUME FilesAssumption == \A f \in Files : f \in Path

\* What the name of a file says; a problem without an archive has None.
ASSUME ArchiveFilesAssumption ==
    /\ None \notin ArchiveFiles /\ None \notin Seq(ArchiveFiles)
    /\ \A f \in ArchiveFiles :
          /\ f = File(f.types, f.batch, f.case) /\ f.types \in (SUBSET {"in", "out"}) \ {{}}
          /\ IsKey(f.case) /\ (f.batch = None \/ IsKey(f.batch))

\* A problem is in a directory with a name; the parts of a pattern say what it matches.
ASSUME ProblemDirsAssumption ==
    /\ \A p \in ProblemDirs : p \in Path /\ p # <<>>
    /\ NoRoot \notin ProblemDirs
    /\ \A id \in Ids : id \in STRING

ASSUME PatternsAssumption ==
    \A globs \in PatternLists :
        /\ globs \in Seq(ToSet(globs))
        /\ \A g \in DOMAIN globs :
              \/ globs[g] = Deep(globs[g].dir)
              \/ globs[g] = OneOf(globs[g].dir, globs[g].names, globs[g].across) /\ globs[g].names # {}

\* None is no error and nothing that a generator wrote; a file is a sequence of bytes.
FileOf(files, name) == files[name] \in Seq(ToSet(files[name]))

ASSUME CasesAssumption ==
    /\ Nothing \notin {"InternalError", "KeyError", "InvalidInit"}
    /\ \A c \in Cases : c.generator \in BOOLEAN /\ c.binary \in BOOLEAN
    /\ \A c \in Cases, d \in Disks, run \in Runs : RunGenerator(c, d, Fresh, run).generated # Nothing
    /\ \A d \in Disks :
          /\ \A name \in DOMAIN d.dir : FileOf(d.dir, name)
          /\ d.archive # Nothing => \A name \in DOMAIN d.archive : FileOf(d.archive, name)

\* A file is read in blocks of a character or more.
ASSUME BlockSizesAssumption == \A n \in BlockSizes : n \in Nat /\ n >= 1

\* A configuration is a sequence of dictionaries.
ASSUME NodesAssumption == \A node \in Nodes : node \in Seq(ToSet(node))

\* The rules after the first are for writing too.
Jails == [read |-> sample.rules, write |-> IF sample.rules = <<>> THEN <<>> ELSE Tail(sample.rules)]

AddPolicyRule ==
    /\ sample.about = "policy" /\ Len(sample.rules) < MaxRules
    /\ \E r \in {q \in Rules : RuleStands(sample.fs, q)} : Extend("rules", r)

---------------------------------------------------------------------------
WriteOutput ==
    /\ sample.about = "outputs"
    /\ \E c \in sample.alphabet :
          \/ Len(sample.judge) < MaxOutput /\ sample.process = <<>> /\ Extend("judge", c)
          \/ Len(sample.process) < MaxOutput /\ Extend("process", c)

---------------------------------------------------------------------------
AddFile ==
    /\ sample.about = "archive" /\ Len(sample.files) < MaxFiles
    /\ \E f \in ArchiveFiles : Extend("files", f)

---------------------------------------------------------------------------
WriteData ==
    /\ sample.about = "data" /\ Len(sample.data) < MaxData
    /\ \E c \in Bytes : Extend("data", c)

---------------------------------------------------------------------------
\* A grading asks for the input and the answer, and frees the case unless it raised.
GradeCase ==
    /\ sample.about = "case" /\ sample.tc.raised = Nothing /\ ~sample.tc.closed
    /\ LET case == sample.case
           disk == sample.disk
           told(tc, what) == sample' = [sample EXCEPT !.tc = tc,
                                        !.told = IF tc.raised = Nothing THEN @ \cup {what} ELSE @]
       IN  \/ \E run \in Runs :
                 LET tc == InputDataIo(case, disk, sample.tc, run)
                 IN  told(tc, <<"input", tc.input>>)
           \/ \E run \in Runs :
                 LET tc == OutputData(case, disk, sample.tc, run)
                 IN  IF tc.raised = Nothing THEN told(tc, <<"answer", Answer(case, disk, tc)>>)
                     ELSE told(tc, Nothing)
           \/ sample' = [sample EXCEPT !.tc = FreeData(@)]

---------------------------------------------------------------------------
FindProblem ==
    /\ sample.about = "roots"
    /\ \/ \E p \in ProblemDirs :
             sample' = [sample EXCEPT !.disk = IF p \in @ THEN @ \ {p} ELSE @ \cup {p}]
       \/ \E id \in Ids :
             \E a \in GetProblemRoot(sample.judge, sample.disk, sample.globs, id) :
                 sample' = [sample EXCEPT !.judge = a.judge]
       \/ sample' = [sample EXCEPT !.judge = ClearProblemDirsCache(@)]

---------------------------------------------------------------------------
ReadConfig ==
    /\ sample.about = "config"
    /\ \E item \in DOMAIN Dashed :
          LET read == GetItem(sample.node, item)
              attr == GetAttr(sample.node, item, Dashed[item])
          IN  \/ sample' = [sample EXCEPT !.node = read.node, !.told[item] = @ \cup {read.value}]
              \/ sample' = [sample EXCEPT !.node = attr.node,
                                !.told[IF read.value = Absent THEN Dashed[item] ELSE item] = @ \cup {attr.value}]

---------------------------------------------------------------------------
Init ==
    \/ \E fs \in FileSystems : sample = [about |-> "policy", fs |-> fs, rules |-> <<>>]
    \/ \E a \in Alphabets : sample = [about |-> "outputs", alphabet |-> a, judge |-> <<>>, process |-> <<>>]
    \/ sample = [about |-> "archive", files |-> <<>>]
    \/ sample = [about |-> "data", data |-> <<>>]
    \/ \E c \in Cases, d \in Disks :
          sample = [about |-> "case", case |-> c, disk |-> d, tc |-> Fresh, told |-> {}]
    \/ \E d \in SUBSET ProblemDirs, g \in PatternLists :
          sample = [about |-> "roots", disk |-> d, globs |-> g,
                    judge |-> Roots([id \in Ids |-> NoRoot], FindRoots(d, g))]
    \/ \E n \in Nodes :
          sample = [about |-> "config", first |-> n, node |-> n, told |-> [i \in DOMAIN Dashed |-> {}]]

Next ==
    AddPolicyRule \/ WriteOutput \/ AddFile \/ WriteData \/ GradeCase \/ FindProblem \/ ReadConfig

Spec == Init /\ [][Next]_sample
---------------------------------------------------------------------------
\* What a handler of a compiler's tracer (which has every handler) examined and let
\* through is covered by the rules where it really is, whatever .. and links the program
\* uses and whichever of its threads calls: _access_check looks twice.  The old name of
\* link and linkat is not examined, and not meant here.
FilesAllowed ==
    sample.about = "policy" =>
        \A t \in Threads : AllowedIsCovered(sample.fs, "compiler", t, Jails, Calls)

\* In whatever order _add_rule gets the rules, the tree answers what they say together,
\* and a file a rule names can be opened by that name, also if the name is a link.
RulesFollowed ==
    sample.about = "policy" =>
        /\ TreeFollowsRules(sample.fs, sample.rules, Files)
        /\ \A t \in Threads : NamedIsAllowed(sample.fs, t.tid, t.pid, sample.rules, Files)

\* check_standard, which never looks back, accepts exactly the outputs that have the
\* words of the judge on the lines of the judge; a laxer checker takes what a stricter
\* one takes, the relative error mode being the stricter one just where the judge has no
\* infinity; none gives more than all the points, and no error mode of floats takes a
\* NaN (the comments in floats.py).
CheckersAgree ==
    sample.about = "outputs" =>
        /\ StandardComparesWords(sample.process, sample.judge)
        /\ \A e \in Epsilons :
             /\ StricterAcceptsLess(sample.process, sample.judge, e)
             /\ PointsAreFair(sample.process, sample.judge, e)

\* What a problem finds is what its author put there: _match_test_cases puts every file
\* of an archive into one case, with its partner, in the order of the numbers, whatever
\* order the archive lists the files in; a grading that asks for input and answer in any
\* order gets those of one run of the generator, or the same text from two files with the
\* same text, which _normalize and normalized_file_copy give the same line ends; a key
\* of the configuration has one value whoever read it before; and get_problem_root
\* answers what is there, however old its caches are.
ProblemsRead ==
    /\ sample.about = "archive" => CasesAreMatched(sample.files, CasePoints)
    /\ sample.about = "case" => DataFits(sample.case, sample.disk, sample.tc, sample.told)
    /\ sample.about = "data" => LinesAgree(sample.data, BlockSizes)
    /\ sample.about = "roots" => RootsAreRight(sample.judge, sample.disk, sample.globs, Ids)
    /\ sample.about = "config" => ReadsAgree(sample.first, sample.told)
=============================================================================
